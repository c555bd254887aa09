------------------------------ MODULE ImportRows ------------------------------
(***************************************************************************)
(* The scripts around OTTO's XLSX exports (app/services/                    *)
(* otto_xlsx_import_service.py): importing an account's sheet, filling      *)
(* missing names from OTTO's API, matching the rows of one account with     *)
(* those of the other by name, and copying rows to the products.  Each      *)
(* commits in batches, and nothing keeps two of them from running at once.  *)
(*                                                                         *)
(* A name stands for its normalized form; Tokens gives the words of it that *)
(* are matched.  Scores are counted in parts of 300, so that halves, thirds *)
(* and the 0.08 for the category are whole numbers (24).                    *)
(***************************************************************************)
EXTENDS Scenes, Places, Integers, Sequences, SequencesExt, FiniteSets

CONSTANTS
    Sheets,         \* account -> versions of its sheet, each a sequence of
                    \* [sku, ean, category, name, price, removed]
    ImportRuns,     \* run -> [account, version, replace]
    ImportBatch,    \* batch_size of the import, the mappings and the copy
    ApiPages,       \* pages of OTTO's products: sequences of [ids, name]
    ApiPageSize,    \* page_size
    MaxBusy,        \* max_retries
    Rebuilds,       \* run -> "ean" or "name"
    Tokens,         \* match_name_tokens: name -> words
    CommonAbove,    \* 2500 in the code: a word of more targets finds none
    Minimum,        \* minimum_score
    CachedEans,     \* EANs with links in the image cache
    Absent          \* None

\* Normalized names, or none.
Names == DOMAIN Tokens \cup {Absent}

Lines == [sku : STRING, ean : STRING, category : STRING, name : Names, price : Nat, removed : BOOLEAN]

\* A batch has a row; the minimum is a score that can be reached and missed; a page of
\* OTTO's products is full unless it is the last.
ASSUME SheetAssumption ==
    /\ \A a \in DOMAIN Sheets :
          1 \in DOMAIN Sheets[a] /\ \A v \in DOMAIN Sheets[a] : Sheets[a][v] \in Seq(Lines)
    /\ \A i \in DOMAIN ImportRuns :
          ImportRuns[i].account \in DOMAIN Sheets /\ ImportRuns[i].version \in DOMAIN Sheets[ImportRuns[i].account]
    /\ ImportBatch \in Nat \ {0} /\ Minimum \in 1 .. 300
    /\ \A name \in DOMAIN Tokens : IsFiniteSet(Tokens[name])
    /\ ApiPages \in Seq(Seq([ids : SUBSET STRING, name : Names]))
    /\ \A p \in 1 .. Len(ApiPages) - 1 : Len(ApiPages[p]) = ApiPageSize
    /\ \A b \in DOMAIN Rebuilds : Rebuilds[b] \in {"ean", "name"} /\ b # "none"

VARIABLES
    importRows,     \* otto_xlsx_import_rows: a set of records
    epoch,          \* per account: how often its rows have been replaced (for new ids)
    sheetAt,        \* per import run: [at, next]
    enrichAt,       \* [at, page, attempt, seen]
    mappings,       \* both mapping tables: a set of [kind, key, status, target, source, row]
    rebuildAt,      \* per rebuild: [at, targets, sources, todo, mixed], where mixed is a
                    \* history: another rebuild or a replaced sheet came in between
    freshBy,        \* history: per kind, the rebuild whose result the table holds
    catalogue,      \* products: sku -> [price, media]
    copyAt          \* [at, rows, todo]

sheetVars == <<importRows, epoch, sheetAt, enrichAt, mappings, rebuildAt, freshBy, catalogue, copyAt>>

\* The row that is not there.
NoRow == [id |-> <<>>, ean |-> Absent]

Shorter(n) == IF n < ImportBatch THEN n ELSE ImportBatch
Batch(s) == SubSeq(s, 1, Shorter(Len(s)))
Rest(s) == SubSeq(s, Shorter(Len(s)) + 1, Len(s))

\* valid_import_row_filters, in the order of their ids.
ValidRows(account) ==
    LET valid == {row \in importRows : row.account = account /\ ~row.removed}
        ats   == {row.at : row \in valid}
    IN  [i \in 1 .. Cardinality(ats) |-> CHOOSE row \in valid : row.at = Nth(ats, i)]

-----------------------------------------------------------------------------
(* scripts/import_otto_xlsx_rows.py                                        *)

Sheet(i) == Sheets[ImportRuns[i].account][ImportRuns[i].version]

\* normalize_import_row: the name is that of the URL.
RowOf(account, n, line) ==
    [id |-> <<account, epoch[account], n>>, account |-> account, at |-> n, sku |-> line.sku,
     ean |-> line.ean, category |-> line.category, name |-> line.name, price |-> line.price,
     removed |-> line.removed, byApi |-> FALSE]

\* The mapping rows of deleted source rows go with them, and the others forget a
\* deleted target row, though not its EAN.
AfterDeletion(gone) ==
    {[m EXCEPT !.row = IF @ \in gone THEN NoRow.id ELSE @] :
        m \in {x \in mappings : x.source \notin gone}}

\* replace_account_rows
ReplaceRows(i) ==
    /\ May(i) /\ sheetAt[i].at = "idle" /\ ImportRuns[i].replace
    /\ LET account == ImportRuns[i].account
           old     == {row \in importRows : row.account = account}
       IN  /\ importRows' = importRows \ old
           /\ epoch' = [epoch EXCEPT ![account] = @ + 1]
           /\ mappings' = AfterDeletion({row.id : row \in old})
    /\ sheetAt' = [sheetAt EXCEPT ![i].at = "upsert"]
    /\ freshBy' = [kind \in DOMAIN freshBy |-> "none"]
    /\ rebuildAt' = [b \in DOMAIN Rebuilds |->
            [rebuildAt[b] EXCEPT !.mixed = rebuildAt[b].at # "idle"]]
    /\ UNCHANGED <<scene, enrichAt, catalogue, copyAt>>

KeepRows(i) ==
    /\ May(i) /\ sheetAt[i].at = "idle" /\ ~ImportRuns[i].replace
    /\ sheetAt' = [sheetAt EXCEPT ![i].at = "upsert"]
    /\ UNCHANGED <<scene, importRows, epoch, enrichAt, mappings, rebuildAt, freshBy, catalogue, copyAt>>

\* upsert_xlsx_import_rows, one commit for a batch.  A row that exists keeps its id and
\* loses a name that came from the API.
UpsertSheetRows(i) ==
    /\ sheetAt[i].at = "upsert"
    /\ LET account == ImportRuns[i].account
           first   == sheetAt[i].next
           last    == IF first + ImportBatch - 1 < Len(Sheet(i)) THEN first + ImportBatch - 1
                      ELSE Len(Sheet(i))
           Old(n)  == {row \in importRows : row.account = account /\ row.at = n}
           New(n)  == LET row == RowOf(account, n, Sheet(i)[n])
                      IN  IF Old(n) = {} THEN row
                          ELSE [row EXCEPT !.id = (CHOOSE x \in Old(n) : TRUE).id]
       IN  /\ importRows' = (importRows \ UNION {Old(n) : n \in first .. last})
                                \cup {New(n) : n \in first .. last}
           /\ sheetAt' = [sheetAt EXCEPT ![i] =
                    [at |-> IF last = Len(Sheet(i)) THEN "ended" ELSE "upsert", next |-> last + 1]]
    /\ UNCHANGED <<scene, epoch, enrichAt, mappings, rebuildAt, freshBy, catalogue, copyAt>>

ImportKilled(i) ==
    /\ May("kill") /\ sheetAt[i].at = "upsert"
    /\ sheetAt' = [sheetAt EXCEPT ![i].at = "killed"]
    /\ UNCHANGED <<scene, importRows, epoch, enrichAt, mappings, rebuildAt, freshBy, catalogue, copyAt>>

-----------------------------------------------------------------------------
(* enrich_import_names_from_otto_api                                       *)

\* names_by_reference: an identifier that two products have gets the name of the later.
NameFor(page, id) ==
    LET at == {n \in DOMAIN page : id \in page[n].ids /\ page[n].name # Absent}
    IN  IF at = {} THEN Absent ELSE page[CHOOSE n \in at : \A m \in at : m <= n].name

\* The updates go in the order in which the identifiers were met, the SKU of a product
\* before its EAN; the first that finds a row without a name gives it one.
NameOfRow(page, row) ==
    LET known    == {id \in {row.sku, row.ean} \ {Absent} : NameFor(page, id) # Absent}
        Since(id) == CHOOSE n \in DOMAIN page :
                        /\ id \in page[n].ids /\ page[n].name # Absent
                        /\ \A m \in 1 .. n - 1 : id \notin page[m].ids \/ page[m].name = Absent
        first    == {id \in known : \A other \in known : Since(id) <= Since(other)}
    IN  IF known = {} THEN Absent
        ELSE NameFor(page, IF row.sku \in first THEN row.sku ELSE row.ean)

\* A seeded fault: all rows of the identifiers are updated.
MissesAny(row) == TRUE

\* only_missing
Misses(row) == row.name = Absent

\* A seeded fault: a full page is taken for the last one.
IsShort(page) == Len(page) <= ApiPageSize

IsLastOne(page) == Len(page) < ApiPageSize

\* The products of the first pages, by their places.
Listed(pages) == UNION {{<<p, n>> : n \in DOMAIN ApiPages[p]} : p \in 1 .. pages}

\* has_next is told, or the total, or neither.
NoneLeft(page) ==
    \/ May("links") /\ enrichAt.page = Len(ApiPages)
    \/ May("total") /\ enrichAt.seen + Len(page) >= Cardinality(Listed(Len(ApiPages)))
    \/ ~May("links") /\ IsLastOne(page)

BeginEnrichment ==
    /\ May("enriches") /\ enrichAt.at = "idle"
    /\ enrichAt' = [enrichAt EXCEPT !.at = "fetch"]
    /\ UNCHANGED <<scene, importRows, epoch, sheetAt, mappings, rebuildAt, freshBy, catalogue, copyAt>>

\* A page, and the rows it names, in one commit.
FetchNames ==
    /\ enrichAt.at = "fetch"
    /\ IF enrichAt.page > Len(ApiPages)
       THEN enrichAt' = [enrichAt EXCEPT !.at = "ended"] /\ UNCHANGED importRows
       ELSE LET page == ApiPages[enrichAt.page]
                named == {row \in importRows : row.account = "jv" /\ Misses(row)
                                                /\ NameOfRow(page, row) # Absent}
            IN  /\ importRows' = (importRows \ named) \cup
                     {[row EXCEPT !.name = NameOfRow(page, row), !.byApi = TRUE] : row \in named}
                /\ enrichAt' = [at |-> IF NoneLeft(page) THEN "ended" ELSE "fetch",
                                page |-> enrichAt.page + 1, attempt |-> 0,
                                seen |-> enrichAt.seen + Len(page)]
    /\ UNCHANGED <<scene, epoch, sheetAt, mappings, rebuildAt, freshBy, catalogue, copyAt>>

\* A status that is tried again, or the last attempt.
ApiIsBusy ==
    /\ May("busy") /\ enrichAt.at = "fetch"
    /\ enrichAt' = IF enrichAt.attempt < MaxBusy THEN [enrichAt EXCEPT !.attempt = @ + 1]
                   ELSE [enrichAt EXCEPT !.at = "raised"]
    /\ UNCHANGED <<scene, importRows, epoch, sheetAt, mappings, rebuildAt, freshBy, catalogue, copyAt>>

-----------------------------------------------------------------------------
(* Matching a row of "jv" with those of "xl".                              *)

Larger(a, b) == IF a > b THEN a ELSE b
Smaller(a, b) == IF a < b THEN a ELSE b

Scored(source, target, sameCategory) ==
    LET words == Tokens[source.name]
        found == Tokens[target.name]
        share == (300 * Cardinality(words \cap found)) \div
                    Larger(Cardinality(words), Cardinality(found))
    IN  IF words \cap found = {} THEN 0
        ELSE Smaller(300, share + IF sameCategory THEN 24 ELSE 0)

Score(source, target) == Scored(source, target, source.category = target.category)

Common(targets) ==
    {word \in UNION {Tokens[t.name] : t \in ToSet(targets)} :
        Cardinality({n \in DOMAIN targets : word \in Tokens[targets[n].name]}) > CommonAbove}

\* token_index: a target that has only common words with the source is not looked at.
Candidates(source, targets) ==
    Picked(targets, {n \in DOMAIN targets :
        (Tokens[source.name] \ Common(targets)) \cap Tokens[targets[n].name] # {}})

\* A seeded fault: the count goes on when a better one is found.
BetterCounting(best, target, score) == [target |-> target, score |-> score, count |-> best.count + 1]

Better(best, target, score) == [target |-> target, score |-> score, count |-> 1]

Weighed(best, target, score) ==
    IF score > best.score THEN Better(best, target, score)
    ELSE IF score = best.score THEN [best EXCEPT !.count = @ + 1]
    ELSE best

NoneWeighed == [target |-> NoRow, score |-> 0, count |-> 0]

Best(source, candidates) ==
    LET best[n \in 0 .. Len(candidates)] ==
            IF n = 0 THEN NoneWeighed
            ELSE Weighed(best[n - 1], candidates[n], Score(source, candidates[n]))
    IN  best[Len(candidates)]

SameName(source, targets) == Picked(targets, {n \in DOMAIN targets : targets[n].name = source.name})

SameCategory(source, targets) ==
    Picked(targets, {n \in DOMAIN targets :
                        targets[n].name = source.name /\ targets[n].category = source.category})

Answer(status, target) == [status |-> status, target |-> target]

Match(source, targets) ==
    LET exact == IF SameCategory(source, targets) # <<>> THEN SameCategory(source, targets)
                 ELSE SameName(source, targets)
        best  == Best(source, Candidates(source, targets))
    IN  CASE source.name = Absent -> Answer("no_source_name", NoRow)
          [] source.name # Absent /\ exact # <<>> ->
                Answer(IF Len(exact) = 1 THEN "matched" ELSE "ambiguous", exact[1])
          [] OTHER ->
                Answer(IF best.target = NoRow THEN "no_target_candidate"
                       ELSE IF best.score < Minimum THEN "low_score"
                       ELSE IF best.count = 1 THEN "matched" ELSE "ambiguous", best.target)

-----------------------------------------------------------------------------
(* rebuild_ean_mappings_by_name and rebuild_name_mappings_by_name          *)

KeyOf(kind, row) == IF kind = "ean" THEN row.ean ELSE row.name

\* The rows of one EAN, or of one name, are matched by their first.
FirstOfEach(kind, rows) ==
    Picked(rows, {n \in DOMAIN rows :
        /\ KeyOf(kind, rows[n]) # Absent
        /\ \A m \in 1 .. n - 1 : KeyOf(kind, rows[m]) # KeyOf(kind, rows[n])})

Usable(kind, row) ==
    /\ row.name # Absent /\ Tokens[row.name] # {}
    /\ kind = "ean" => row.ean # Absent

MappingOf(kind, row, match) ==
    [kind |-> kind, key |-> KeyOf(kind, row), status |-> match.status, source |-> row.id,
     target |-> IF match.status = "matched" THEN match.target.ean ELSE Absent,
     row |-> match.target.id]

\* The table by name has the matched ones only.
Payloads(kind, sources, targets) ==
    LET all == [n \in DOMAIN sources |-> MappingOf(kind, sources[n], Match(sources[n], targets))]
    IN  Picked(all, {n \in DOMAIN all : kind = "ean" \/ all[n].status = "matched"})

NoRebuild == [at |-> "idle", targets |-> <<>>, sources |-> <<>>, todo |-> <<>>, mixed |-> FALSE]

Rebuilding(kind) ==
    {b \in DOMAIN Rebuilds : Rebuilds[b] = kind /\ rebuildAt[b].at \in {"targets", "sources", "upsert"}}

DeleteMappings(b) ==
    /\ May(b) /\ rebuildAt[b].at = "idle"
    /\ LET kind == Rebuilds[b]
       IN  /\ mappings' = {m \in mappings : m.kind # kind}
           /\ freshBy' = [freshBy EXCEPT ![kind] = "none"]
           /\ rebuildAt' = [c \in DOMAIN Rebuilds |->
                IF c = b THEN [NoRebuild EXCEPT !.at = "targets", !.mixed = Rebuilding(kind) # {}]
                ELSE IF c \in Rebuilding(kind) THEN [rebuildAt[c] EXCEPT !.mixed = TRUE]
                ELSE rebuildAt[c]]
    /\ UNCHANGED <<scene, importRows, epoch, sheetAt, enrichAt, catalogue, copyAt>>

ReadTargets(b) ==
    /\ rebuildAt[b].at = "targets"
    /\ LET valid == ValidRows("xl")
       IN  rebuildAt' = [rebuildAt EXCEPT ![b].at = "sources",
                ![b].targets = Picked(valid, {n \in DOMAIN valid : Usable(Rebuilds[b], valid[n])})]
    /\ UNCHANGED <<scene, importRows, epoch, sheetAt, enrichAt, mappings, freshBy, catalogue, copyAt>>

ReadSources(b) ==
    /\ rebuildAt[b].at = "sources"
    /\ LET sources == FirstOfEach(Rebuilds[b], ValidRows("jv"))
       IN  rebuildAt' = [rebuildAt EXCEPT ![b].at = "upsert", ![b].sources = sources,
                            ![b].todo = Payloads(Rebuilds[b], sources, rebuildAt[b].targets)]
    /\ UNCHANGED <<scene, importRows, epoch, sheetAt, enrichAt, mappings, freshBy, catalogue, copyAt>>

\* A seeded fault: what is left over after the full batches is not saved.
IsDoneEarly(todo) == Len(todo) < ImportBatch

IsDone(todo) == todo = <<>>

Stored == {row.id : row \in importRows}
Refers(m) == m.source \in Stored /\ m.row \in Stored \cup {NoRow.id}

\* upsert_ean_mapping_rows: a batch that refers to a row that is gone raises.
UpsertMappings(b) ==
    /\ rebuildAt[b].at = "upsert"
    /\ LET batch == ToSet(Batch(rebuildAt[b].todo))
           kind  == Rebuilds[b]
       IN  IF IsDone(rebuildAt[b].todo)
           THEN /\ rebuildAt' = [rebuildAt EXCEPT ![b].at = "ended"]
                /\ freshBy' = [freshBy EXCEPT ![kind] = IF rebuildAt[b].mixed THEN "none" ELSE b]
                /\ UNCHANGED mappings
           ELSE IF \A m \in batch : Refers(m)
           THEN /\ mappings' = {m \in mappings : m.kind # kind \/ \A n \in batch : m.key # n.key}
                                    \cup batch
                /\ rebuildAt' = [rebuildAt EXCEPT ![b].todo = Rest(@)]
                /\ UNCHANGED freshBy
           ELSE /\ rebuildAt' = [rebuildAt EXCEPT ![b].at = "raised"]
                /\ UNCHANGED <<mappings, freshBy>>
    /\ UNCHANGED <<scene, importRows, epoch, sheetAt, enrichAt, catalogue, copyAt>>

RebuildKilled(b) ==
    /\ May("kill") /\ rebuildAt[b].at = "upsert"
    /\ rebuildAt' = [rebuildAt EXCEPT ![b].at = "killed"]
    /\ UNCHANGED <<scene, importRows, epoch, sheetAt, enrichAt, mappings, freshBy, catalogue, copyAt>>

-----------------------------------------------------------------------------
(* import_otto_xlsx_rows_to_products, for the account "jv".                *)

\* A seeded fault: the first row of a SKU counts.
CountsFirst(rows, n) == \A m \in 1 .. n - 1 : rows[m].sku # rows[n].sku

\* rows_by_sku: the last row of a SKU replaces the others.
Counts(rows, n) == \A m \in n + 1 .. Len(rows) : rows[m].sku # rows[n].sku

ReadSheet ==
    /\ May("copies") /\ copyAt.at = "idle"
    /\ LET valid == ValidRows("jv")
           rows  == Picked(valid, {n \in DOMAIN valid : valid[n].sku # Absent})
       IN  copyAt' = [at |-> "upsert", rows |-> rows,
                      todo |-> Picked(rows, {n \in DOMAIN rows : Counts(rows, n)})]
    /\ UNCHANGED <<scene, importRows, epoch, sheetAt, enrichAt, mappings, rebuildAt, freshBy, catalogue>>

\* A seeded fault: the links are those of the cache.
NewMediaOfCache(cached, old) == cached

\* coalesce(excluded.media_asset_links, media_asset_links)
NewMedia(cached, old) == IF cached # Absent THEN cached ELSE old

UpsertProducts ==
    /\ copyAt.at = "upsert"
    /\ LET batch == Batch(copyAt.todo)
           New(row) == LET cached == IF row.ean \in CachedEans THEN row.ean ELSE Absent
                           old    == IF row.sku \in DOMAIN catalogue
                                     THEN catalogue[row.sku].media ELSE Absent
                       IN  [price |-> row.price, media |-> NewMedia(cached, old)]
           RowFor(sku) == CHOOSE row \in ToSet(batch) : row.sku = sku
           skus == {row.sku : row \in ToSet(batch)}
       IN  catalogue' = [sku \in DOMAIN catalogue \cup skus |->
                            IF sku \in skus THEN New(RowFor(sku)) ELSE catalogue[sku]]
    /\ copyAt' = [copyAt EXCEPT !.todo = Rest(@), !.at = IF Rest(copyAt.todo) = <<>> THEN "ended" ELSE "upsert"]
    /\ UNCHANGED <<scene, importRows, epoch, sheetAt, enrichAt, mappings, rebuildAt, freshBy>>

-----------------------------------------------------------------------------
SheetInit ==
    /\ epoch = [a \in DOMAIN Sheets |-> 0]
    /\ importRows = UNION {{RowOf(a, n, Sheets[a][1][n]) : n \in DOMAIN Sheets[a][1]} : a \in DOMAIN Sheets}
    /\ sheetAt = [i \in DOMAIN ImportRuns |-> [at |-> "idle", next |-> 1]]
    /\ enrichAt = [at |-> "idle", page |-> 1, attempt |-> 0, seen |-> 0]
    /\ mappings = {} /\ rebuildAt = [b \in DOMAIN Rebuilds |-> NoRebuild]
    /\ freshBy = [kind \in {"ean", "name"} |-> "none"]
    /\ catalogue \in {<<>>} \cup {[sku \in {"s1"} |-> [price |-> 0, media |-> "own"]]}
    /\ copyAt = [at |-> "idle", rows |-> <<>>, todo |-> <<>>]

ImportStep(i) == ReplaceRows(i) \/ KeepRows(i) \/ UpsertSheetRows(i) \/ ImportKilled(i)
EnrichStep == BeginEnrichment \/ FetchNames \/ ApiIsBusy
RebuildStep(b) ==
    DeleteMappings(b) \/ ReadTargets(b) \/ ReadSources(b) \/ UpsertMappings(b) \/ RebuildKilled(b)
CopyStep == ReadSheet \/ UpsertProducts

SheetNext ==
    /\ Plays("sheets")
    /\ \/ \E i \in DOMAIN ImportRuns : ImportStep(i)
       \/ EnrichStep \/ CopyStep
       \/ \E b \in DOMAIN Rebuilds : RebuildStep(b)

-----------------------------------------------------------------------------
(* Properties.                                                             *)

SheetTypeOK ==
    /\ \A a, b \in importRows : a.id = b.id => a = b
    /\ \A m \in mappings : m.status \in {"matched", "ambiguous", "low_score", "no_source_name",
                                          "no_target_candidate"}
    /\ \A m \in mappings : Refers(m)

\* How near a target is to a source: the same name in the same category, the same
\* name, then by score.
Rank(source, targets, n) ==
    LET t == targets[n]
    IN  IF t.name = source.name THEN (IF t.category = source.category THEN 1000 ELSE 500)
        ELSE IF \E word \in Tokens[source.name] \cap Tokens[t.name] : word \notin Common(targets)
             THEN Score(source, t) ELSE 0

\* A row is matched with a target exactly if no other is as near, whatever the order
\* in which the targets were read: two targets that are equally near match none.
MatchedIsTheNearest ==
    \A b \in DOMAIN Rebuilds : rebuildAt[b].at = "upsert" =>
        LET kind == Rebuilds[b]
            targets == rebuildAt[b].targets
            Nearest(row) == {n \in DOMAIN targets :
                /\ row.name # Absent /\ Rank(row, targets, n) >= Minimum
                /\ \A k \in DOMAIN targets : k # n => Rank(row, targets, k) < Rank(row, targets, n)}
        IN  \A n \in DOMAIN rebuildAt[b].todo :
                LET m   == rebuildAt[b].todo[n]
                    row == CHOOSE r \in ToSet(rebuildAt[b].sources) : r.id = m.source
                IN  {targets[k].id : k \in Nearest(row)} = (IF m.status = "matched" THEN {m.row} ELSE {})

\* A table that one rebuild has made, while no other was at work on it and no sheet has
\* been replaced since, has one row for each of its keys: no batch is missing, and
\* none is left over from before.
MappingIsWhole ==
    \A kind \in DOMAIN freshBy : freshBy[kind] # "none" =>
        {m \in mappings : m.kind = kind} =
            ToSet(Payloads(kind, rebuildAt[freshBy[kind]].sources, rebuildAt[freshBy[kind]].targets))

\* A name that a row has is not written over by the API's; only a new sheet changes it.
NamesAreKept ==
    [][\A row \in importRows, new \in importRows' :
          row.id = new.id /\ row.name # Absent /\ new.name # row.name
            => \E i \in DOMAIN ImportRuns : sheetAt'[i].next # sheetAt[i].next]_sheetVars

\* An enrichment that ends has read every page, whichever way OTTO says which is the
\* last: a row that some page could name has a name, unless a sheet came in between.
PagesAreRead ==
    enrichAt.at = "ended" /\ (\A i \in DOMAIN ImportRuns : sheetAt[i].at = "idle") =>
        \A row \in importRows : row.account = "jv" /\ row.name = Absent =>
            \A p \in DOMAIN ApiPages : NameOfRow(ApiPages[p], row) = Absent

\* A copy leaves each product as the last of its rows has it.
LastRowCounts ==
    copyAt.at = "ended" =>
        \A n \in DOMAIN copyAt.rows :
            (\A m \in DOMAIN copyAt.rows : copyAt.rows[m].sku = copyAt.rows[n].sku => m <= n)
                => catalogue[copyAt.rows[n].sku].price = copyAt.rows[n].price

\* A row without cached images takes none from its product.
CopyKeepsImages ==
    [][\A sku \in DOMAIN catalogue :
          catalogue[sku].media # Absent => catalogue'[sku].media # Absent]_sheetVars

=============================================================================

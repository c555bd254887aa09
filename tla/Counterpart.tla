----------------------------- MODULE Counterpart -----------------------------
(***************************************************************************)
(* The second account of a submission (app/api/routes/products.py and      *)
(* map_eans_from_import_by_name): the products of "jv" are cloned for "xl", *)
(* each with the EAN that "xl" has for it, looked up by name in the sheet  *)
(* of "xl" and by position in the factory of the same name, and with the    *)
(* shipping profile of the same name.  Preview and submission build the     *)
(* same payloads; the sheet may be replaced while they do.                 *)
(***************************************************************************)
EXTENDS ImportRows

CONSTANTS
    Submissions,    \* name -> [dual, factory, products, sources]: products is a sequence of
                    \* [ean, name, category, profile, profileName], sources one of EANs
    FactoryTable,   \* factories: id -> [name, account, count]
    FactoryItems,   \* the products Afterbuy has for a factory: id -> sequence of EANs
    Profiles        \* account -> sequence of [id, name]

\* The EANs of the pool have been given out before; a profile without an id or a name is
\* not listed.
ASSUME CloneAssumption ==
    /\ \A of \in DOMAIN Submissions : Submissions[of].products \in
          Seq([ean : STRING \ {Absent}, name : Names, category : STRING, profile : STRING, profileName : STRING])
    /\ \A id \in DOMAIN FactoryTable :
          /\ id \in Nat \ {0}
          /\ FactoryTable[id].account = "xl" => id \in DOMAIN FactoryItems /\ FactoryItems[id] \in Seq(STRING)
    /\ \A account \in {"jv", "xl"} :
          Profiles[account] \in Seq([id : STRING \ {Absent}, name : STRING \ {Absent}])
    /\ \A m, n \in DOMAIN Profiles["jv"] : Profiles["jv"][m].id = Profiles["jv"][n].id => m = n

VARIABLE
    clones          \* [of, at, rows, byName, byIndex, items, written]

cloneVars == <<sheetVars, clones>>

Products == Submissions[clones.of].products

NoMap == <<>>

-----------------------------------------------------------------------------
(* map_eans_from_import_by_name                                            *)

\* A product is looked up by at least two words.
HasWords(product) == product.name # Absent /\ Cardinality(Tokens[product.name]) >= 2

Named == {n \in DOMAIN Products : HasWords(Products[n]) /\ Products[n].ean # Absent}

\* The rows of the categories of the products, or all of them.
RowsOfCategories(rows) ==
    LET categories == {Products[n].category : n \in Named} \ {Absent}
        some == Picked(rows, {n \in DOMAIN rows : rows[n].category \in categories})
    IN  IF some = <<>> THEN rows ELSE some

\* A row without words is not near to any product.
TargetRows ==
    LET valid == ValidRows("xl")
    IN  Picked(valid, {n \in DOMAIN valid : valid[n].ean # Absent /\ valid[n].name # Absent})

\* Here a category that neither has does not count.
NameScore(product, row) ==
    Scored(product, row, product.category # Absent /\ product.category = row.category)

NoneYet == [target |-> NoRow, score |-> 0, tie |-> FALSE]

Compared(best, product, row) ==
    LET score == NameScore(product, row)
    IN  IF score > best.score THEN [target |-> row, score |-> score, tie |-> FALSE]
        ELSE IF score = best.score /\ best.target # NoRow THEN [best EXCEPT !.tie = TRUE]
        ELSE best

NearestRow(product, rows) ==
    LET best[n \in 0 .. Len(rows)] ==
            IF n = 0 THEN NoneYet ELSE Compared(best[n - 1], product, rows[n])
    IN  best[Len(rows)]

\* A seeded fault: of two that are as near the first is taken.
AnyBest(best) == best.target # NoRow /\ best.score >= Minimum

SoleBest(best) == best.target # NoRow /\ best.score >= Minimum /\ ~best.tie

\* The last product of an EAN counts.
EansByName(rows) ==
    LET found == {n \in Named : SoleBest(NearestRow(Products[n], rows))}
        LastFound(ean) == CHOOSE n \in found : Products[n].ean = ean
                              /\ \A m \in found : Products[m].ean = ean => m <= n
    IN  [ean \in {Products[n].ean : n \in found} |-> NearestRow(Products[LastFound(ean)], rows).target.ean]

-----------------------------------------------------------------------------
(* _find_counterpart_factory_id and the map by index                       *)

\* The largest factory of the same name, the first id among equals.
CounterpartOf(factory) ==
    LET same == {id \in DOMAIN FactoryTable :
                    /\ FactoryTable[id].account = "xl"
                    /\ FactoryTable[id].name = FactoryTable[factory].name}
        largest == {id \in same : \A other \in same : FactoryTable[other].count <= FactoryTable[id].count}
    IN  CHOOSE id \in largest \cup {0} : (id = 0 <=> largest = {}) /\ \A other \in largest : id <= other

CurrentEan(product, source) == IF product.ean # Absent THEN product.ean ELSE source

EansByIndex(items) ==
    LET sources == Submissions[clones.of].sources
        Current(n) == CurrentEan(Products[n], IF n <= Len(sources) THEN sources[n] ELSE Absent)
        known == {n \in 1 .. Smaller(Len(Products), Len(items)) :
                    Current(n) # Absent /\ items[n] # Absent}
    IN  [ean \in {Current(n) : n \in known} |->
            items[CHOOSE n \in known : Current(n) = ean
                    /\ \A m \in known : Current(m) = ean => m <= n]]

-----------------------------------------------------------------------------
(* _map_shipping_profiles_to_controller_by_name                            *)

\* The last profile of a name, or of an id, counts.
LastOf(account, key, value) ==
    LET at == {n \in DOMAIN Profiles[account] : Profiles[account][n][key] = value}
    IN  IF at = {} THEN [id |-> Absent, name |-> Absent]
        ELSE Profiles[account][CHOOSE n \in at : \A m \in at : m <= n]

ProfileName(product) ==
    LET own == LastOf("jv", "id", product.profile)
    IN  IF own.name # Absent THEN own.name ELSE product.profileName

ProfileFor(product) == LastOf("xl", "name", ProfileName(product))

\* A seeded fault: one product with a profile is enough.
SomeMapped == \E n \in DOMAIN Products : ProfileFor(Products[n]).id # Absent

AllMapped == \A n \in DOMAIN Products : ProfileFor(Products[n]).id # Absent

-----------------------------------------------------------------------------
(* The payloads.                                                           *)

\* mapped.update(name_map) over the map by index
MappedEans(byName, byIndex) ==
    [ean \in DOMAIN byName \cup DOMAIN byIndex |-> IF ean \in DOMAIN byName THEN byName[ean] ELSE byIndex[ean]]

\* _clone_products_with_account_map, _apply_account_fields_to_product and the profile:
\* SKU, EAN and reference of a clone are one value.
CloneOf(product, mapped) ==
    [ean |-> IF product.ean \in DOMAIN mapped THEN mapped[product.ean] ELSE product.ean,
     brand |-> "xl", profile |-> ProfileFor(product).id]

OwnBody(product) == [ean |-> product.ean, brand |-> "jv", profile |-> product.profile]

Availability(account, bodies) ==
    [n \in DOMAIN bodies |-> [account |-> account, sku |-> bodies[n].ean, profile |-> bodies[n].profile]]

NothingWritten == [jv |-> <<>>, xl |-> <<>>, availability |-> <<>>]

Written(xl) ==
    LET jv == [n \in DOMAIN Products |-> OwnBody(Products[n])]
    IN  [jv |-> jv, xl |-> xl, availability |-> Availability("jv", jv) \o Availability("xl", xl)]

-----------------------------------------------------------------------------
(* _build_factory_submit_preview_snapshots, after the EANs of the pool      *)

CloneGoes(from, to) == clones.at = from /\ clones' = [clones EXCEPT !.at = to]

OneAccountOnly ==
    /\ clones.at = "begin" /\ ~Submissions[clones.of].dual
    /\ clones' = [clones EXCEPT !.at = "ended", !.written = Written(<<>>)]

ReadRows ==
    /\ clones.at = "begin" /\ Submissions[clones.of].dual
    /\ clones' = [clones EXCEPT !.at = "index", !.rows = RowsOfCategories(TargetRows),
                                !.byName = EansByName(RowsOfCategories(TargetRows))]

\* The lookup by name fails, and so does the one by index: each is logged.
ReadRowsFails == May("names_fail") /\ Submissions[clones.of].dual /\ CloneGoes("begin", "index")

AskFactory ==
    /\ clones.at = "index"
    /\ LET target == CounterpartOf(Submissions[clones.of].factory)
           items  == IF target = 0 THEN <<>> ELSE FactoryItems[target]
       IN  clones' = [clones EXCEPT !.at = "profiles", !.items = items, !.byIndex = EansByIndex(items)]

AskFactoryFails == May("afterbuy_fails") /\ CloneGoes("index", "profiles")

MapProfiles ==
    /\ clones.at = "profiles"
    /\ LET mapped == MappedEans(clones.byName, clones.byIndex)
       IN  clones' = IF AllMapped
                     THEN [clones EXCEPT !.at = "ended",
                            !.written = Written([n \in DOMAIN Products |-> CloneOf(Products[n], mapped)])]
                     ELSE [clones EXCEPT !.at = "raised"]

MapProfilesFails == May("profiles_fail") /\ CloneGoes("profiles", "raised")

CloneStep ==
    \/ OneAccountOnly \/ ReadRows \/ ReadRowsFails \/ AskFactory \/ AskFactoryFails
    \/ MapProfiles \/ MapProfilesFails

CloneInit ==
    \E of \in DOMAIN Submissions :
        /\ Plays("clones") \/ of = CHOOSE any \in DOMAIN Submissions : TRUE
        /\ clones = [of |-> of, at |-> "begin", rows |-> <<>>, byName |-> NoMap, byIndex |-> NoMap,
                  items |-> <<>>, written |-> NothingWritten]

CloneNext ==
    \/ Plays("clones") /\ CloneStep /\ UNCHANGED <<scene, sheetVars>>
    \/ Plays("clones") /\ (\E i \in DOMAIN ImportRuns : ImportStep(i)) /\ UNCHANGED clones
    \/ SheetNext /\ UNCHANGED clones

-----------------------------------------------------------------------------
(* Properties.                                                             *)

\* The near rows of the sheet: the EANs of "xl" whose row is the nearest by name.
NearestEans(product, rows) ==
    LET near == {n \in DOMAIN rows : NameScore(product, rows[n]) >= Minimum}
        best == {n \in near : \A m \in near : m # n =>
                    NameScore(product, rows[m]) < NameScore(product, rows[n])}
    IN  {rows[n].ean : n \in best}

\* A clone carries the EAN of the one row that is nearest by name; without such a row
\* the EAN at its position in the other factory; else its product's own.  A lookup that
\* fails takes nothing from the other.
CloneHasTheRightEan ==
    clones.at = "ended" => \A n \in DOMAIN clones.written.xl :
        LET product == Products[n]
            again   == {m \in DOMAIN Products : Products[m].ean = product.ean}
            named   == UNION {NearestEans(Products[m], clones.rows) : m \in again \cap Named}
            placed  == {clones.items[m] : m \in again \cap DOMAIN clones.items} \ {Absent}
        IN  clones.written.xl[n].ean \in
                IF named # {} THEN named ELSE IF placed # {} THEN placed ELSE {product.ean}

\* Both snapshots are written, or none; every SKU of them is in the availability job
\* with a profile of its own account, of the same name on both.
BothAccountsOrNone ==
    clones.written # NothingWritten =>
        /\ Submissions[clones.of].dual => Len(clones.written.xl) = Len(clones.written.jv)
        /\ \A n \in DOMAIN clones.written.xl :
              \E p \in ToSet(Profiles["xl"]) :
                 /\ p.id = clones.written.xl[n].profile
                 /\ \A q \in ToSet(Profiles["jv"]) : q.id = clones.written.jv[n].profile => q.name = p.name
                 /\ [account |-> "xl", sku |-> clones.written.xl[n].ean, profile |-> p.id]
                        \in ToSet(clones.written.availability)

CloneTypeOK ==
    /\ clones.at \in {"begin", "index", "profiles", "ended", "raised"}
    /\ clones.at # "ended" => clones.written = NothingWritten
=============================================================================

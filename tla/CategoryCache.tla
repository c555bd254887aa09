---------------------------- MODULE CategoryCache ----------------------------
(***************************************************************************)
(* The local copy of OTTO's category groups (app/services/product_service.py*)
(* fetch_all_categories_to_db and ensure_category_translations, with the    *)
(* translation cache of app/services/translation_service.py).               *)
(*                                                                         *)
(* A refresh fetches all pages, reads the Russian labels there are, and     *)
(* replaces the rows in one transaction.  A page with categories adds the   *)
(* labels that are missing: it asks the cache, then DeepL, stores the        *)
(* answer in the cache, and commits the labels with the next entry of the    *)
(* cache, on the same session.  When an entry cannot be stored the session   *)
(* is rolled back, and the next row it touches raises (its attributes are    *)
(* expired, and an async session loads none by itself).                      *)
(***************************************************************************)
EXTENDS Scenes, Integers, Sequences, SequencesExt, FiniteSets

CONSTANTS
    CatalogueVersions,  \* OTTO's groups: a sequence of catalogues, each a sequence of names
    CataloguePage,      \* page_size
    LongNames,          \* names whose cache context is longer than its column
    Refreshers,         \* requests to refresh
    LabelRequests       \* requests that label

\* OTTO's groups are named once, and OTTO never replaces all of them at once: two
\* refreshes that meet have a name in common.
ASSUME CatalogueAssumption ==
    /\ CataloguePage \in Nat \ {0}
    /\ CatalogueVersions \in Seq(Range(CatalogueVersions)) /\ CatalogueVersions # <<>>
    /\ \A v \in DOMAIN CatalogueVersions :
          LET names == CatalogueVersions[v]
          IN  names \in Seq(Range(names)) /\ IsInjective(names)
    /\ \A v, w \in DOMAIN CatalogueVersions :
          Range(CatalogueVersions[v]) \cap Range(CatalogueVersions[w]) # {}

VARIABLES
    version,        \* OTTO's catalogue now
    categories,     \* the rows: a set of [name, id, label]
    nextId,
    refreshAt,      \* per refresh: [at, page, fetched, mixed, labels, doomed, late]
    translated,     \* the translation cache: names
    labelAt,        \* per request: [at, todo : rows, pending : ids]
    patchwork       \* history: rows come from a refresh that has met two versions

categoryVars == <<version, categories, nextId, refreshAt, translated, labelAt, patchwork>>

Names(rows) == {row.name : row \in rows}
CategoryRow(id) == CHOOSE row \in categories : row.id = id
Ids == {row.id : row \in categories}
NoRefresh == [at |-> "idle", page |-> 0, fetched |-> <<>>, mixed |-> FALSE,
              labels |-> {}, doomed |-> {}, late |-> {}]
NoLabelling == [at |-> "idle", todo |-> <<>>, pending |-> {}]

-----------------------------------------------------------------------------
(* Refreshing.                                                             *)

LastOf(page) == IF (page + 1) * CataloguePage < Len(CatalogueVersions[version])
                THEN (page + 1) * CataloguePage ELSE Len(CatalogueVersions[version])
PageOf(page) == SubSeq(CatalogueVersions[version], page * CataloguePage + 1, LastOf(page))

\* A seeded fault: a full page is taken for the last one.
IsLastPageFull(groups) == Len(groups) <= CataloguePage

IsLastPage(groups) == Len(groups) < CataloguePage

BeginRefresh(r) ==
    /\ May("refreshes") /\ refreshAt[r].at = "idle"
    /\ refreshAt' = [refreshAt EXCEPT ![r] = [NoRefresh EXCEPT !.at = "fetch"]]
    /\ UNCHANGED <<scene, version, categories, nextId, translated, labelAt, patchwork>>

FetchGroups(r) ==
    /\ refreshAt[r].at = "fetch"
    /\ LET groups == PageOf(refreshAt[r].page)
           all    == refreshAt[r].fetched \o groups
       IN  refreshAt' = [refreshAt EXCEPT
             ![r].fetched = all,
             ![r].page = @ + 1,
             ![r].at = IF ~IsLastPage(groups) THEN "fetch"
                       ELSE IF all = <<>> THEN "raised" ELSE "read"]
    /\ UNCHANGED <<scene, version, categories, nextId, translated, labelAt, patchwork>>

FetchRaises(r) ==
    /\ May("fetch_raises") /\ refreshAt[r].at = "fetch"
    /\ refreshAt' = [refreshAt EXCEPT ![r].at = "raised"]
    /\ UNCHANGED <<scene, version, categories, nextId, translated, labelAt, patchwork>>

ReadLabels(r) ==
    /\ refreshAt[r].at = "read"
    /\ refreshAt' = [refreshAt EXCEPT ![r].at = "replace",
                        ![r].labels = {row.name : row \in {x \in categories : x.label}}]
    /\ UNCHANGED <<scene, version, categories, nextId, translated, labelAt, patchwork>>

\* DELETE sees the rows that are committed when it starts.
DeleteCategories(r) ==
    /\ refreshAt[r].at = "replace"
    /\ refreshAt' = [refreshAt EXCEPT ![r].at = "commit", ![r].doomed = Ids]
    /\ UNCHANGED <<scene, version, categories, nextId, translated, labelAt, patchwork>>

\* A seeded fault: the labels are not carried over.
CarriesNothing(r, name) == FALSE

Carries(r, name) == name \in refreshAt[r].labels

NewRows(r) ==
    LET seen == ToSet(refreshAt[r].fetched)
        ids  == CHOOSE f \in [seen -> nextId .. nextId + Cardinality(seen) - 1] :
                    \A a, b \in seen : f[a] = f[b] => a = b
    IN  {[name |-> name, id |-> ids[name], label |-> Carries(r, name)] : name \in seen}

\* A refresh that has read the labels does not see those that are written now.
MissesLabels(refresh, names) ==
    IF refresh.at \in {"replace", "commit"} THEN [refresh EXCEPT !.late = @ \cup names]
    ELSE refresh

\* Names are unique: what another refresh has inserted meanwhile makes this one raise.
CommitRefresh(r) ==
    /\ refreshAt[r].at = "commit"
    /\ LET left == {row \in categories : row.id \notin refreshAt[r].doomed}
       IN  IF Names(left) \cap ToSet(refreshAt[r].fetched) = {}
           THEN /\ categories' = left \cup NewRows(r)
                /\ nextId' = nextId + Cardinality(NewRows(r))
                /\ patchwork' = (refreshAt[r].mixed \/ (patchwork /\ left # {}))
                /\ refreshAt' = [q \in Refreshers |->
                        IF q = r THEN [NoRefresh EXCEPT !.at = "answered"]
                        ELSE MissesLabels(refreshAt[q], Names({row \in NewRows(r) : row.label}))]
           ELSE /\ refreshAt' = [refreshAt EXCEPT ![r].at = "raised"]
                /\ UNCHANGED <<categories, nextId, patchwork>>
    /\ UNCHANGED <<scene, version, translated, labelAt>>

\* OTTO's catalogue changes, at whatever page a refresh is.
OttoChanges ==
    /\ May("changes") /\ version < Len(CatalogueVersions)
    /\ version' = version + 1
    /\ refreshAt' = [r \in Refreshers |->
            IF refreshAt[r].at = "fetch" /\ refreshAt[r].page > 0
            THEN [refreshAt[r] EXCEPT !.mixed = TRUE] ELSE refreshAt[r]]
    /\ UNCHANGED <<scene, categories, nextId, translated, labelAt, patchwork>>

-----------------------------------------------------------------------------
(* Labelling.                                                              *)

\* The labels that a commit writes, and the names that refreshes under way miss.
WriteLabels(ids) ==
    /\ categories' = {[row EXCEPT !.label = @ \/ row.id \in ids] : row \in categories}
    /\ refreshAt' = [r \in Refreshers |->
            MissesLabels(refreshAt[r], {CategoryRow(id).name : id \in ids})]

LoadUnlabelled(l) ==
    /\ May(l) /\ labelAt[l].at \in {"idle", "answered", "raised"}
    /\ \E row \in categories : ~row.label
    /\ labelAt' = [labelAt EXCEPT ![l] = [at |-> "next", pending |-> {},
                        todo |-> SetToSortSeq({row \in categories : ~row.label},
                                              LAMBDA a, b : a.id < b.id)]]
    /\ UNCHANGED <<scene, version, categories, nextId, refreshAt, translated, patchwork>>

NameOf(l) == labelAt[l].todo[1].name
IdOf(l) == labelAt[l].todo[1].id

\* A seeded fault: the cache is asked with another key than it is filled with.
CachedOther(name) == FALSE

\* _get_cached
Cached(name) == name \in translated

LookUpTranslation(l) ==
    /\ labelAt[l].at = "next" /\ labelAt[l].todo # <<>>
    /\ labelAt' = [labelAt EXCEPT ![l] =
            IF Cached(NameOf(l))
            THEN [at |-> "next", todo |-> Tail(@.todo), pending |-> @.pending \cup {IdOf(l)}]
            ELSE [@ EXCEPT !.at = "asked"]]
    /\ UNCHANGED <<scene, version, categories, nextId, refreshAt, translated, patchwork>>

TooLong(name) == May("long_names") /\ name \in LongNames

\* The label is set, but the next row raises; after the last one there is none.
AfterRollback(l) ==
    IF Len(labelAt[l].todo) = 1
    THEN [at |-> "next", todo |-> <<>>, pending |-> {IdOf(l)}]
    ELSE [NoLabelling EXCEPT !.at = "raised"]

\* DeepL answers.  The store commits the labels that are pending with it, and raises
\* if their rows are gone.
StoreTranslation(l) ==
    /\ labelAt[l].at = "asked"
    /\ IF ~(labelAt[l].pending \subseteq Ids)
       THEN /\ labelAt' = [labelAt EXCEPT ![l] = [NoLabelling EXCEPT !.at = "raised"]]
            /\ UNCHANGED <<categories, refreshAt, translated>>
       ELSE IF NameOf(l) \in translated \/ TooLong(NameOf(l))
       THEN /\ labelAt' = [labelAt EXCEPT ![l] = AfterRollback(l)]
            /\ UNCHANGED <<categories, refreshAt, translated>>
       ELSE /\ translated' = translated \cup {NameOf(l)}
            /\ WriteLabels(labelAt[l].pending)
            /\ labelAt' = [labelAt EXCEPT ![l] =
                    [at |-> "next", todo |-> Tail(@.todo), pending |-> {IdOf(l)}]]
    /\ UNCHANGED <<scene, version, nextId, patchwork>>

\* TranslationError: the row is left out.
DeepLFails(l) ==
    /\ May("deepl_fails") /\ labelAt[l].at = "asked"
    /\ labelAt' = [labelAt EXCEPT ![l] = [@ EXCEPT !.at = "next", !.todo = Tail(@)]]
    /\ UNCHANGED <<scene, version, categories, nextId, refreshAt, translated, patchwork>>

CommitLabels(l) ==
    /\ labelAt[l].at = "next" /\ labelAt[l].todo = <<>>
    /\ IF labelAt[l].pending \subseteq Ids
       THEN /\ WriteLabels(labelAt[l].pending)
            /\ labelAt' = [labelAt EXCEPT ![l] = [NoLabelling EXCEPT !.at = "answered"]]
       ELSE /\ labelAt' = [labelAt EXCEPT ![l] = [NoLabelling EXCEPT !.at = "raised"]]
            /\ UNCHANGED <<categories, refreshAt>>
    /\ UNCHANGED <<scene, version, nextId, translated, patchwork>>

-----------------------------------------------------------------------------
\* The first version is in the database, without labels.
CategoryInit ==
    /\ version = 1
    /\ categories = {[name |-> CatalogueVersions[1][i], id |-> i, label |-> FALSE] :
                        i \in DOMAIN CatalogueVersions[1]}
    /\ nextId = Len(CatalogueVersions[1]) + 1
    /\ refreshAt = [r \in Refreshers |-> NoRefresh]
    /\ translated = {}
    /\ labelAt = [l \in LabelRequests |-> NoLabelling]
    /\ patchwork = FALSE

RefreshStep(r) ==
    FetchGroups(r) \/ FetchRaises(r) \/ ReadLabels(r) \/ DeleteCategories(r) \/ CommitRefresh(r)
LabelStep(l) == LookUpTranslation(l) \/ StoreTranslation(l) \/ DeepLFails(l) \/ CommitLabels(l)

CategoryNext ==
    /\ Plays("categories")
    /\ \/ \E r \in Refreshers : BeginRefresh(r) \/ RefreshStep(r)
       \/ OttoChanges
       \/ \E l \in LabelRequests : LoadUnlabelled(l) \/ LabelStep(l)

\* Requests go on, and pages with categories are opened again and again.
CategoryFairness ==
    /\ \A r \in Refreshers : WF_categoryVars(Plays("categories") /\ RefreshStep(r))
    /\ \A l \in LabelRequests :
          /\ WF_categoryVars(Plays("categories") /\ LabelStep(l))
          /\ WF_categoryVars(Plays("categories") /\ LoadUnlabelled(l))

-----------------------------------------------------------------------------
(* Properties.                                                             *)

CategoryTypeOK ==
    /\ version \in DOMAIN CatalogueVersions
    /\ \A row \in categories : row.label \in BOOLEAN /\ row.id < nextId
    /\ \A r \in Refreshers : refreshAt[r].doomed \subseteq 1 .. nextId

\* Whatever fails and however refreshes interleave, the rows are one whole catalogue
\* of OTTO, each group once, unless the catalogue changed between two pages.
CatalogueIsWhole ==
    /\ \A a, b \in categories : a.name = b.name => a = b
    /\ ~patchwork => \E v \in DOMAIN CatalogueVersions :
                        Names(categories) = ToSet(CatalogueVersions[v])

\* A group that stays in the catalogue keeps its label through a refresh, unless the
\* label was written after the refresh had read them, by a page or by another refresh.
LabelKept ==
    [][\A row \in categories, new \in categories' :
          row.label /\ row.name = new.name /\ ~new.label
            => \E r \in Refreshers : row.name \in refreshAt[r].late]_categoryVars

\* Pages that are opened often enough get all labels, although requests that
\* translate at the same time make each other fail, unless a name is too long for the
\* cache: what comes after it is never reached.
LabelsFill ==
    Plays("categories") /\ scene.events \cap {"deepl_fails", "long_names"} = {}
        => []<>(\A row \in categories : row.label)

=============================================================================

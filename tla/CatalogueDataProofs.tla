------------------------ MODULE CatalogueDataProofs ------------------------
(***************************************************************************)
(* Proofs about MCCatalogueData: the sheets are matched and copied as they *)
(* should be, and a clone has the right EAN; then, with                    *)
(* CatalogueReportsProofs, of the whole: each component keeps its          *)
(* invariant in every scene.                                               *)
(***************************************************************************)
EXTENDS CatalogueReportsProofs

-----------------------------------------------------------------------------
(* ImportRows: the rows of the sheets, and what is made of them.           *)

SheetRuns == [at : {"idle", "upsert", "ended", "killed"}, next : Nat \ {0}]

SheetRows ==
    [id : (DOMAIN Sheets) \X Nat \X Nat, account : DOMAIN Sheets, at : Nat, sku : STRING, ean : STRING,
     category : STRING, name : Names, price : Nat, removed : BOOLEAN, byApi : BOOLEAN]

\* The rows of a sheet are numbered up to some bound.
Numbered(account, b) == \A row \in importRows : row.account = account => row.at <= b

\* A row is known by its account and number, as long as the sheet is not replaced.
RowsInv ==
    /\ importRows \subseteq SheetRows
    /\ \A row \in importRows : row.id = <<row.account, epoch[row.account], row.at>>
    /\ \A row, other \in importRows : row.account = other.account /\ row.at = other.at => row = other
    /\ \A account \in {"jv", "xl"} : \E b \in Nat : Numbered(account, b)
    /\ epoch \in [DOMAIN Sheets -> Nat]
    /\ sheetAt \in [DOMAIN ImportRuns -> SheetRuns]

LEMMA GreatestOf ==
    ASSUME NEW T \in SUBSET Nat, T # {}, NEW b \in Nat, \A n \in T : n <= b
    PROVE  \E x \in T : \A y \in T : y <= x
<1> DEFINE back == {j \in Nat : \E n \in T : j = b - n}
<1>1. back \in SUBSET Nat /\ back # {}
    <2>1. \A n \in T : b - n \in Nat
        OBVIOUS
    <2> QED
        BY <2>1
<1>2. PICK j \in back : \A i \in back : j <= i
    <2> HIDE DEF back
    <2> QED
        BY <1>1, LeastOf
<1>3. PICK n \in T : j = b - n
    BY <1>2
<1>4. ASSUME NEW m \in T PROVE m <= n
    <2>1. m \in Nat /\ n \in Nat /\ b - m \in back
        OBVIOUS
    <2>2. b - n <= b - m
        BY <1>2, <1>3, <2>1
    <2> QED
        BY <2>1, <2>2
<1> QED
    BY <1>4

LEMMA RowOfIs ==
    ASSUME NEW a \in DOMAIN Sheets, NEW n \in Nat, NEW line \in Lines, epoch \in [DOMAIN Sheets -> Nat]
    PROVE  /\ RowOf(a, n, line) \in SheetRows /\ RowOf(a, n, line).id = <<a, epoch[a], n>>
           /\ RowOf(a, n, line).at = n /\ RowOf(a, n, line).name = line.name
           /\ RowOf(a, n, line).account = a
<1>1. <<a, epoch[a], n>> \in (DOMAIN Sheets) \X Nat \X Nat
    OBVIOUS
<1> QED
    BY <1>1 DEF RowOf, Lines, SheetRows

LEMMA LinesAre ==
    ASSUME NEW a \in DOMAIN Sheets, NEW v \in DOMAIN Sheets[a]
    PROVE  /\ Len(Sheets[a][v]) \in Nat /\ DOMAIN Sheets[a][v] = 1 .. Len(Sheets[a][v])
           /\ \A n \in DOMAIN Sheets[a][v] : Sheets[a][v][n] \in Lines
<1>1. Sheets[a][v] \in Seq(Lines)
    BY SheetAssumption
<1> QED
    BY <1>1, LenProperties

LEMMA RowsStart == SheetInit => RowsInv
<1> SUFFICES ASSUME SheetInit PROVE RowsInv
    OBVIOUS
<1>1. sheetAt \in [DOMAIN ImportRuns -> SheetRuns]
    BY DEF SheetInit, SheetRuns
<1>2. epoch = [a \in DOMAIN Sheets |-> 0] /\ epoch \in [DOMAIN Sheets -> Nat]
    BY DEF SheetInit
<1>3. ASSUME NEW row \in importRows
      PROVE  \E a \in DOMAIN Sheets : \E n \in DOMAIN Sheets[a][1] :
                 row = RowOf(a, n, Sheets[a][1][n]) /\ n \in Nat /\ n <= Len(Sheets[a][1])
                 /\ Sheets[a][1][n] \in Lines
    <2>1. PICK a \in DOMAIN Sheets : \E n \in DOMAIN Sheets[a][1] : row = RowOf(a, n, Sheets[a][1][n])
        BY DEF SheetInit
    <2>2. 1 \in DOMAIN Sheets[a]
        BY SheetAssumption
    <2> QED
        BY <2>1, <2>2, LinesAre
<1>4. /\ importRows \subseteq SheetRows
      /\ \A row \in importRows : row.id = <<row.account, epoch[row.account], row.at>>
    BY <1>2, <1>3, RowOfIs
<1>5. ASSUME NEW row \in importRows, NEW other \in importRows, row.account = other.account, row.at = other.at
      PROVE  row = other
    <2>1. PICK a \in DOMAIN Sheets : \E n \in DOMAIN Sheets[a][1] :
              row = RowOf(a, n, Sheets[a][1][n]) /\ n \in Nat /\ Sheets[a][1][n] \in Lines
        BY <1>3
    <2>2. PICK n \in DOMAIN Sheets[a][1] : row = RowOf(a, n, Sheets[a][1][n]) /\ n \in Nat /\ Sheets[a][1][n] \in Lines
        BY <2>1
    <2>3. PICK c \in DOMAIN Sheets : \E m \in DOMAIN Sheets[c][1] :
              other = RowOf(c, m, Sheets[c][1][m]) /\ m \in Nat /\ Sheets[c][1][m] \in Lines
        BY <1>3
    <2>4. PICK m \in DOMAIN Sheets[c][1] : other = RowOf(c, m, Sheets[c][1][m]) /\ m \in Nat /\ Sheets[c][1][m] \in Lines
        BY <2>3
    <2>5. row.account = a /\ row.at = n
        BY <1>2, <2>2, RowOfIs
    <2>6. other.account = c /\ other.at = m
        BY <1>2, <2>4, RowOfIs
    <2> QED
        BY <1>5, <2>2, <2>4, <2>5, <2>6
<1>6. ASSUME NEW account \in {"jv", "xl"} PROVE \E b \in Nat : Numbered(account, b)
    <2>1. CASE account \in DOMAIN Sheets
        <3>1. Len(Sheets[account][1]) \in Nat
            BY <2>1, SheetAssumption, LinesAre
        <3>2. ASSUME NEW row \in importRows, row.account = account PROVE row.at <= Len(Sheets[account][1])
            <4>1. PICK a \in DOMAIN Sheets : \E n \in DOMAIN Sheets[a][1] :
                 row = RowOf(a, n, Sheets[a][1][n]) /\ n \in Nat /\ n <= Len(Sheets[a][1])
                 /\ Sheets[a][1][n] \in Lines
                BY <1>3
            <4>2. PICK n \in DOMAIN Sheets[a][1] :
                 row = RowOf(a, n, Sheets[a][1][n]) /\ n \in Nat /\ n <= Len(Sheets[a][1])
                 /\ Sheets[a][1][n] \in Lines
                BY <4>1
            <4>3. row.account = a /\ row.at = n
                BY <1>2, <4>2, RowOfIs
            <4> QED
                BY <3>2, <4>2, <4>3
        <3>3. Numbered(account, Len(Sheets[account][1]))
            BY <3>2 DEF Numbered
        <3> QED
            BY <3>1, <3>3
    <2>2. CASE account \notin DOMAIN Sheets
        <3>1. Numbered(account, 0)
            BY <1>4, <2>2 DEF Numbered, SheetRows
        <3> QED
            BY <3>1
    <2> QED
        BY <2>1, <2>2
<1> QED
    BY <1>1, <1>2, <1>4, <1>5, <1>6 DEF RowsInv

\* A row that is there keeps its id, so that each line of a batch leaves the row it says.
LEMMA UpsertIs ==
    ASSUME RowsInv, NEW i \in DOMAIN ImportRuns, UpsertSheetRows(i)
    PROVE  LET account == ImportRuns[i].account
               first   == sheetAt[i].next
           IN  \E last \in Nat :
                  /\ \A n \in first .. last : n \in Nat /\ n <= Len(Sheet(i)) /\ Sheet(i)[n] \in Lines
                  /\ \A row : row \in importRows' <=>
                        \/ row \in importRows /\ ~(row.account = account /\ row.at \in first .. last)
                        \/ \E n \in first .. last : row = RowOf(account, n, Sheet(i)[n])
                  /\ \E place \in {"ended", "upsert"} :
                        sheetAt' = [sheetAt EXCEPT ![i] = [at |-> place, next |-> last + 1]]
<1> DEFINE account == ImportRuns[i].account
           first   == sheetAt[i].next
           last    == IF first + ImportBatch - 1 < Len(Sheet(i)) THEN first + ImportBatch - 1
                      ELSE Len(Sheet(i))
           Old(n)  == {row \in importRows : row.account = account /\ row.at = n}
           New(n)  == LET row == RowOf(account, n, Sheet(i)[n])
                      IN  IF Old(n) = {} THEN row
                          ELSE [row EXCEPT !.id = (CHOOSE x \in Old(n) : TRUE).id]
           place   == IF last = Len(Sheet(i)) THEN "ended" ELSE "upsert"
<1>1. /\ importRows' = (importRows \ UNION {Old(n) : n \in first .. last}) \cup {New(n) : n \in first .. last}
      /\ sheetAt' = [sheetAt EXCEPT ![i] = [at |-> place, next |-> last + 1]]
    BY DEF UpsertSheetRows
<1>2. account \in DOMAIN Sheets /\ ImportRuns[i].version \in DOMAIN Sheets[account]
    BY SheetAssumption
<1>3. /\ Len(Sheet(i)) \in Nat /\ DOMAIN Sheet(i) = 1 .. Len(Sheet(i))
      /\ \A n \in DOMAIN Sheet(i) : Sheet(i)[n] \in Lines
    BY <1>2, LinesAre DEF Sheet
<1>4. first \in Nat \ {0} /\ ImportBatch \in Nat \ {0}
    BY SheetAssumption DEF SheetRuns, RowsInv
<1>5. last \in Nat /\ last <= Len(Sheet(i))
    BY <1>3, <1>4
<1>6. \A n \in first .. last : n \in Nat /\ n <= Len(Sheet(i)) /\ Sheet(i)[n] \in Lines
    <2> HIDE DEF last, first
    <2>1. \A n \in first .. last : n \in 1 .. Len(Sheet(i)) /\ n \in Nat /\ n <= Len(Sheet(i))
        BY <1>3, <1>4, <1>5
    <2> QED
        BY <1>3, <2>1
<1> HIDE DEF last, first
<1>7. ASSUME NEW n \in first .. last PROVE New(n) = RowOf(account, n, Sheet(i)[n])
    <2> DEFINE row == RowOf(account, n, Sheet(i)[n])
    <2>1. row.id = <<account, epoch[account], n>>
        BY DEF RowOf
    <2>2. CASE Old(n) # {}
        <3>1. PICK x \in Old(n) : x = CHOOSE y \in Old(n) : TRUE
            BY <2>2
        <3>2. x.id = <<account, epoch[account], n>>
            BY DEF RowsInv
        <3>3. New(n) = [row EXCEPT !.id = x.id]
            BY <2>2, <3>1
        <3>4. [row EXCEPT !.id = row.id] = row
            BY DEF RowOf
        <3> HIDE DEF New, row
        <3> QED
            BY <2>1, <3>2, <3>3, <3>4 DEF row
    <2> QED
        BY <2>2
<1> HIDE DEF New
<1>8. \A row : row \in UNION {Old(n) : n \in first .. last} <=>
                   row \in importRows /\ row.account = account /\ row.at \in first .. last
    OBVIOUS
<1> HIDE DEF Old, account, place
<1>9. \A row : row \in importRows' <=>
            \/ row \in importRows /\ ~(row.account = account /\ row.at \in first .. last)
            \/ \E n \in first .. last : row = RowOf(account, n, Sheet(i)[n])
    BY <1>1, <1>7, <1>8
<1>10. place \in {"ended", "upsert"}
    BY DEF place
<1> QED
    BY <1>1, <1>5, <1>6, <1>9, <1>10 DEF account, first

SheetAct ==
    \/ \E i \in DOMAIN ImportRuns : ImportStep(i)
    \/ EnrichStep \/ CopyStep
    \/ \E b \in DOMAIN Rebuilds : RebuildStep(b)

\* What a step of this part can be for the sheets.
LEMMA SheetMoves ==
    ASSUME [CloneNext]_<<scene, cloneVars>>
    PROVE  scene' = scene /\ (SheetAct \/ UNCHANGED sheetVars)
<1>1. CASE SheetAct
    <2>1. scene' = scene
        BY <1>1 DEF SheetAct, ImportStep, ReplaceRows, KeepRows, UpsertSheetRows, ImportKilled,
           EnrichStep, BeginEnrichment, FetchNames, ApiIsBusy,
           RebuildStep, DeleteMappings, ReadTargets, ReadSources, UpsertMappings, RebuildKilled,
           CopyStep, ReadSheet, UpsertProducts
    <2> QED
        BY <1>1, <2>1
<1>2. CASE Plays("clones") /\ CloneStep /\ UNCHANGED <<scene, sheetVars>>
    BY <1>2
<1>3. CASE UNCHANGED <<scene, cloneVars>>
    BY <1>3 DEF cloneVars
<1> QED
    BY <1>1, <1>2, <1>3 DEF CloneNext, SheetNext, SheetAct

PagesTyped == [ids : SUBSET STRING, name : Names]

LEMMA PagesTypedAre ==
    /\ Len(ApiPages) \in Nat /\ DOMAIN ApiPages = 1 .. Len(ApiPages)
    /\ \A p \in DOMAIN ApiPages :
          /\ ApiPages[p] \in Seq(PagesTyped) /\ Len(ApiPages[p]) \in Nat
          /\ DOMAIN ApiPages[p] = 1 .. Len(ApiPages[p])
<1>1. ApiPages \in Seq(Seq(PagesTyped))
    BY SheetAssumption DEF PagesTyped
<1>2. Len(ApiPages) \in Nat /\ DOMAIN ApiPages = 1 .. Len(ApiPages)
      /\ \A p \in DOMAIN ApiPages : ApiPages[p] \in Seq(PagesTyped)
    BY <1>1, LenProperties
<1> QED
    BY <1>2, LenProperties

LEMMA NameForIs ==
    ASSUME NEW page \in Seq(PagesTyped), NEW id
    PROVE  NameFor(page, id) \in Names
<1> DEFINE at == {n \in DOMAIN page : id \in page[n].ids /\ page[n].name # Absent}
           last == CHOOSE n \in at : \A m \in at : m <= n
<1>1. Len(page) \in Nat /\ DOMAIN page = 1 .. Len(page) /\ \A n \in DOMAIN page : page[n] \in PagesTyped
    BY LenProperties
<1>2. CASE at # {}
    <2>1. at \in SUBSET Nat /\ \A n \in at : n <= Len(page)
        BY <1>1
    <2>2. \E x \in at : \A y \in at : y <= x
        <3> HIDE DEF at
        <3> QED
            BY <1>1, <1>2, <2>1, GreatestOf
    <2>3. last \in at
        <3> HIDE DEF at
        <3> QED
            BY <2>2
    <2>4. page[last].name \in Names
        <3> HIDE DEF last
        <3> QED
            BY <1>1, <2>3 DEF PagesTyped
    <2> QED
        BY <1>2, <2>4 DEF NameFor
<1>3. CASE at = {}
    BY <1>3 DEF NameFor, Names
<1> QED
    BY <1>2, <1>3

LEMMA NameOfRowIs ==
    ASSUME NEW page \in Seq(PagesTyped), NEW row
    PROVE  NameOfRow(page, row) \in Names
<1>1. \A id : NameFor(page, id) \in Names
    BY NameForIs
<1> QED
    BY <1>1 DEF NameOfRow, Names

\* The names of a page change no row's identity.
LEMMA FetchIs ==
    ASSUME RowsInv, enrichAt.page \in Nat \ {0}, FetchNames, enrichAt.page <= Len(ApiPages)
    PROVE  LET page == ApiPages[enrichAt.page]
           IN  /\ page \in Seq(PagesTyped)
               /\ \A row : row \in importRows' <=>
                    \/ row \in importRows /\ ~(row.account = "jv" /\ Misses(row) /\ NameOfRow(page, row) # Absent)
                    \/ \E old \in importRows :
                          /\ old.account = "jv" /\ Misses(old) /\ NameOfRow(page, old) # Absent
                          /\ row = [old EXCEPT !.name = NameOfRow(page, old), !.byApi = TRUE]
               /\ enrichAt' = [at |-> IF NoneLeft(page) THEN "ended" ELSE "fetch",
                                page |-> enrichAt.page + 1, attempt |-> 0,
                                seen |-> enrichAt.seen + Len(page)]
<1> DEFINE page == ApiPages[enrichAt.page]
           named == {row \in importRows : row.account = "jv" /\ Misses(row) /\ NameOfRow(page, row) # Absent}
<1>1. enrichAt.page \in DOMAIN ApiPages /\ ~(enrichAt.page > Len(ApiPages))
    BY PagesTypedAre
<1>2. page \in Seq(PagesTyped)
    BY <1>1, PagesTypedAre
<1>3. /\ importRows' = (importRows \ named) \cup
                     {[row EXCEPT !.name = NameOfRow(page, row), !.byApi = TRUE] : row \in named}
      /\ enrichAt' = [at |-> IF NoneLeft(page) THEN "ended" ELSE "fetch",
                                page |-> enrichAt.page + 1, attempt |-> 0,
                                seen |-> enrichAt.seen + Len(page)]
    BY <1>1 DEF FetchNames
<1> HIDE DEF page
<1>4. \A row : row \in importRows' <=>
                    \/ row \in importRows /\ ~(row.account = "jv" /\ Misses(row) /\ NameOfRow(page, row) # Absent)
                    \/ \E old \in importRows :
                          /\ old.account = "jv" /\ Misses(old) /\ NameOfRow(page, old) # Absent
                          /\ row = [old EXCEPT !.name = NameOfRow(page, old), !.byApi = TRUE]
    BY <1>3
<1> QED
    BY <1>2, <1>3, <1>4 DEF page

LEMMA NamedIs ==
    ASSUME NEW row \in SheetRows, NEW name \in Names
    PROVE  LET new == [row EXCEPT !.name = name, !.byApi = TRUE]
           IN  /\ new \in SheetRows /\ new.id = row.id /\ new.account = row.account /\ new.at = row.at
               /\ new.name = name /\ new.sku = row.sku /\ new.ean = row.ean
BY DEF SheetRows

\* Each row after a page has been fetched comes from the row before with its id.
LEMMA FetchKeeps ==
    ASSUME RowsInv, enrichAt.page \in Nat \ {0}, FetchNames, NEW new \in importRows'
    PROVE  \E old \in importRows :
              /\ new \in SheetRows /\ new.id = old.id /\ new.account = old.account /\ new.at = old.at
              /\ new.sku = old.sku /\ new.ean = old.ean
              /\ new = old \/ old.name = Absent
              /\ new.name = Absent => new = old
<1>1. importRows \subseteq SheetRows
    BY DEF RowsInv
<1>2. CASE enrichAt.page > Len(ApiPages)
    <2>1. importRows' = importRows
        BY <1>2 DEF FetchNames
    <2> QED
        BY <1>1, <2>1
<1>3. CASE enrichAt.page <= Len(ApiPages)
    <2> DEFINE page == ApiPages[enrichAt.page]
    <2>1. /\ page \in Seq(PagesTyped)
          /\ \A row : row \in importRows' <=>
                    \/ row \in importRows /\ ~(row.account = "jv" /\ Misses(row) /\ NameOfRow(page, row) # Absent)
                    \/ \E old \in importRows :
                          /\ old.account = "jv" /\ Misses(old) /\ NameOfRow(page, old) # Absent
                          /\ row = [old EXCEPT !.name = NameOfRow(page, old), !.byApi = TRUE]
        BY <1>3, FetchIs
    <2> HIDE DEF page
    <2>2. CASE new \in importRows
        BY <1>1, <2>2
    <2>3. CASE new \notin importRows
        <3>1. PICK old \in importRows :
                  /\ old.account = "jv" /\ Misses(old) /\ NameOfRow(page, old) # Absent
                  /\ new = [old EXCEPT !.name = NameOfRow(page, old), !.byApi = TRUE]
            BY <2>1, <2>3
        <3>2. old \in SheetRows /\ NameOfRow(page, old) \in Names
            BY <1>1, <2>1, NameOfRowIs
        <3>3. /\ new \in SheetRows /\ new.id = old.id /\ new.account = old.account /\ new.at = old.at
              /\ new.name = NameOfRow(page, old) /\ new.sku = old.sku /\ new.ean = old.ean
            BY <3>1, <3>2, NamedIs
        <3> QED
            BY <3>1, <3>3 DEF Misses
    <2> QED
        BY <2>2, <2>3
<1>4. Len(ApiPages) \in Nat
    BY PagesTypedAre
<1> QED
    BY <1>2, <1>3, <1>4

EnrichStates ==
    [at : {"idle", "fetch", "ended", "raised"}, page : Nat \ {0}, attempt : Nat, seen : Nat]

LEMMA EnrichStarts == SheetInit => enrichAt \in EnrichStates
BY DEF SheetInit, EnrichStates

LEMMA EnrichKept ==
    ASSUME enrichAt \in EnrichStates, SheetAct
    PROVE  enrichAt' \in EnrichStates
<1>1. CASE UNCHANGED enrichAt
    BY <1>1
<1>2. CASE BeginEnrichment
    BY <1>2 DEF BeginEnrichment, EnrichStates
<1>3. CASE FetchNames
    <2>1. CASE enrichAt.page > Len(ApiPages)
        BY <1>3, <2>1 DEF FetchNames, EnrichStates
    <2>2. CASE ~(enrichAt.page > Len(ApiPages))
        <3> DEFINE page == ApiPages[enrichAt.page]
        <3>1. enrichAt.page \in DOMAIN ApiPages
            BY <2>2, PagesTypedAre DEF EnrichStates
        <3>2. Len(page) \in Nat
            BY <3>1, PagesTypedAre
        <3>3. enrichAt' = [at |-> IF NoneLeft(page) THEN "ended" ELSE "fetch",
                                page |-> enrichAt.page + 1, attempt |-> 0,
                                seen |-> enrichAt.seen + Len(page)]
            BY <1>3, <2>2 DEF FetchNames
        <3> HIDE DEF page
        <3> QED
            BY <3>2, <3>3 DEF EnrichStates
    <2> QED
        BY <2>1, <2>2
<1>4. CASE ApiIsBusy
    BY <1>4 DEF ApiIsBusy, EnrichStates
<1> QED
    BY <1>1, <1>2, <1>3, <1>4
       DEF SheetAct, ImportStep, ReplaceRows, KeepRows, UpsertSheetRows, ImportKilled, EnrichStep,
           RebuildStep, DeleteMappings, ReadTargets, ReadSources, UpsertMappings, RebuildKilled,
           CopyStep, ReadSheet, UpsertProducts

LEMMA UpsertRowsKept ==
    ASSUME RowsInv, NEW i \in DOMAIN ImportRuns, UpsertSheetRows(i)
    PROVE  RowsInv'
<1> DEFINE account == ImportRuns[i].account
           first == sheetAt[i].next
<1>1. PICK last \in Nat :
          /\ \A n \in first .. last : n \in Nat /\ n <= Len(Sheet(i)) /\ Sheet(i)[n] \in Lines
          /\ \A row : row \in importRows' <=>
                \/ row \in importRows /\ ~(row.account = account /\ row.at \in first .. last)
                \/ \E n \in first .. last : row = RowOf(account, n, Sheet(i)[n])
          /\ \E place \in {"ended", "upsert"} :
                sheetAt' = [sheetAt EXCEPT ![i] = [at |-> place, next |-> last + 1]]
    BY UpsertIs
<1>2. account \in DOMAIN Sheets
    BY SheetAssumption
<1>3. epoch' = epoch /\ epoch \in [DOMAIN Sheets -> Nat]
    BY DEF UpsertSheetRows, RowsInv
<1>4. sheetAt' \in [DOMAIN ImportRuns -> SheetRuns]
    <2>1. PICK place \in {"ended", "upsert"} : sheetAt' = [sheetAt EXCEPT ![i] = [at |-> place, next |-> last + 1]]
        BY <1>1
    <2>2. [at |-> place, next |-> last + 1] \in SheetRuns
        BY DEF SheetRuns
    <2> QED
        BY <2>1, <2>2 DEF RowsInv
<1>5. first \in Nat
    BY DEF RowsInv, SheetRuns
<1> HIDE DEF account, first
<1>6. \A n \in first .. last :
          /\ RowOf(account, n, Sheet(i)[n]) \in SheetRows
          /\ RowOf(account, n, Sheet(i)[n]).id = <<account, epoch[account], n>>
          /\ RowOf(account, n, Sheet(i)[n]).at = n
          /\ RowOf(account, n, Sheet(i)[n]).account = account
    BY <1>1, <1>2, <1>3, RowOfIs
<1>7. importRows' \subseteq SheetRows
    <2>1. importRows \subseteq SheetRows
        BY DEF RowsInv
    <2> QED
        BY <1>1, <1>6, <2>1
<1>8. \A row \in importRows' : row.id = <<row.account, epoch'[row.account], row.at>>
    <2>1. \A row \in importRows : row.id = <<row.account, epoch[row.account], row.at>>
        BY DEF RowsInv
    <2>2. ASSUME NEW row \in importRows' PROVE row.id = <<row.account, epoch[row.account], row.at>>
        <3>1. CASE row \in importRows
            BY <2>1, <3>1
        <3>2. CASE row \notin importRows
            <4>1. PICK n \in first .. last : row = RowOf(account, n, Sheet(i)[n])
                BY <1>1, <3>2
            <4>2. row.id = <<account, epoch[account], n>> /\ row.at = n /\ row.account = account
                BY <1>6, <4>1
            <4> QED
                BY <4>2
        <3> QED
            BY <3>1, <3>2
    <2> QED
        BY <1>3, <2>2
<1>9. \A row, other \in importRows' : row.account = other.account /\ row.at = other.at => row = other
    <2>1. \A row, other \in importRows : row.account = other.account /\ row.at = other.at => row = other
        BY DEF RowsInv
    <2>2. ASSUME NEW row \in importRows', NEW other \in importRows',
                 row.account = other.account, row.at = other.at
          PROVE  row = other
        <3>1. CASE row.account = account /\ row.at \in first .. last
            <4>1. PICK n \in first .. last : row = RowOf(account, n, Sheet(i)[n])
                BY <1>1, <3>1
            <4>2. PICK m \in first .. last : other = RowOf(account, m, Sheet(i)[m])
                BY <1>1, <2>2, <3>1
            <4>3. row.at = n /\ other.at = m
                BY <1>6, <4>1, <4>2
            <4> QED
                BY <2>2, <4>1, <4>2, <4>3
        <3>2. CASE ~(row.account = account /\ row.at \in first .. last)
            <4>1. row \in importRows /\ other \in importRows
                BY <1>1, <1>6, <2>2, <3>2
            <4> QED
                BY <2>1, <2>2, <4>1
        <3> QED
            BY <3>1, <3>2
    <2> QED
        BY <2>2
<1>10. ASSUME NEW a \in {"jv", "xl"} PROVE \E c \in Nat : Numbered(a, c)'
    <2>1. PICK b \in Nat : Numbered(a, b)
        BY DEF RowsInv
    <2> DEFINE c == IF b <= last THEN last ELSE b
    <2>2. c \in Nat /\ b <= c /\ last <= c
        OBVIOUS
    <2>3. ASSUME NEW row \in importRows', row.account = a PROVE row.at <= c
        <3>1. row.at \in Nat
            BY <1>7 DEF SheetRows
        <3>2. CASE row \in importRows
            <4>1. row.at <= b
                BY <2>1, <2>3, <3>2 DEF Numbered
            <4> HIDE DEF c
            <4> QED
                BY <2>2, <3>1, <4>1, AtMost
        <3>3. CASE row \notin importRows
            <4>1. row.at \in first .. last
                BY <1>1, <1>6, <3>3
            <4>2. row.at <= last
                BY <1>5, <4>1
            <4> HIDE DEF c
            <4> QED
                BY <2>2, <3>1, <4>2, AtMost
        <3> QED
            BY <3>2, <3>3
    <2> HIDE DEF c
    <2>4. Numbered(a, c)'
        BY <2>3 DEF Numbered
    <2> QED
        BY <2>2, <2>4
<1> QED
    BY <1>3, <1>4, <1>7, <1>8, <1>9, <1>10 DEF RowsInv

LEMMA ReplaceRowsKept ==
    ASSUME RowsInv, NEW i \in DOMAIN ImportRuns, ReplaceRows(i)
    PROVE  RowsInv'
<1> DEFINE account == ImportRuns[i].account
<1>1. /\ importRows' = {row \in importRows : row.account # account}
      /\ epoch' = [epoch EXCEPT ![account] = @ + 1]
      /\ sheetAt' = [sheetAt EXCEPT ![i].at = "upsert"]
    BY DEF ReplaceRows
<1>0. account \in DOMAIN Sheets
    BY SheetAssumption
<1> HIDE DEF account
<1>2. epoch \in [DOMAIN Sheets -> Nat] /\ sheetAt \in [DOMAIN ImportRuns -> SheetRuns]
    BY DEF RowsInv
<1>3. epoch' \in [DOMAIN Sheets -> Nat] /\ \A a \in DOMAIN Sheets : a # account => epoch'[a] = epoch[a]
    BY <1>0, <1>1, <1>2
<1>4. sheetAt' \in [DOMAIN ImportRuns -> SheetRuns]
    BY <1>1, <1>2 DEF SheetRuns
<1>5. importRows' \subseteq SheetRows
    BY <1>1 DEF RowsInv
<1>6. \A row \in importRows' : row.id = <<row.account, epoch'[row.account], row.at>>
    <2>1. ASSUME NEW row \in importRows' PROVE row.id = <<row.account, epoch'[row.account], row.at>>
        <3>1. row \in importRows /\ row.account # account /\ row.account \in DOMAIN Sheets
            BY <1>1, <1>5 DEF SheetRows
        <3> QED
            BY <1>3, <3>1 DEF RowsInv
    <2> QED
        BY <2>1
<1>7. \A a \in {"jv", "xl"} : \E b \in Nat : Numbered(a, b)'
    <2>1. ASSUME NEW a \in {"jv", "xl"} PROVE \E b \in Nat : Numbered(a, b)'
        <3>1. PICK b \in Nat : Numbered(a, b)
            BY DEF RowsInv
        <3> QED
            BY <1>1, <3>1 DEF Numbered
    <2> QED
        BY <2>1
<1>8. \A row, other \in importRows' : row.account = other.account /\ row.at = other.at => row = other
    BY <1>1 DEF RowsInv
<1> QED
    BY <1>3, <1>4, <1>5, <1>6, <1>7, <1>8 DEF RowsInv

LEMMA FetchRowsKept ==
    ASSUME RowsInv, enrichAt \in EnrichStates, FetchNames
    PROVE  RowsInv'
<1>1. epoch' = epoch /\ sheetAt' = sheetAt
    BY DEF FetchNames
<1>2. enrichAt.page \in Nat \ {0}
    BY DEF EnrichStates
<1>3. \A new \in importRows' : \E old \in importRows :
              /\ new \in SheetRows /\ new.id = old.id /\ new.account = old.account /\ new.at = old.at
              /\ new = old \/ old.name = Absent
              /\ new.name = Absent => new = old
    BY <1>2, FetchKeeps
<1>4. \A row, other \in importRows : row.account = other.account /\ row.at = other.at => row = other
    BY DEF RowsInv
<1>5. \A row, other \in importRows' : row.account = other.account /\ row.at = other.at => row = other
    <2>1. CASE enrichAt.page > Len(ApiPages)
        BY <1>4, <2>1 DEF FetchNames
    <2>2. CASE enrichAt.page <= Len(ApiPages)
        <3> DEFINE page == ApiPages[enrichAt.page]
        <3>1. \A row : row \in importRows' <=>
                    \/ row \in importRows /\ ~(row.account = "jv" /\ Misses(row) /\ NameOfRow(page, row) # Absent)
                    \/ \E old \in importRows :
                          /\ old.account = "jv" /\ Misses(old) /\ NameOfRow(page, old) # Absent
                          /\ row = [old EXCEPT !.name = NameOfRow(page, old), !.byApi = TRUE]
            BY <1>2, <2>2, FetchIs
        <3>2. page \in Seq(PagesTyped)
            BY <1>2, <2>2, FetchIs
        <3> HIDE DEF page
        <3> DEFINE Given(old) == old.account = "jv" /\ Misses(old) /\ NameOfRow(page, old) # Absent
                   New(old) == IF Given(old) THEN [old EXCEPT !.name = NameOfRow(page, old), !.byApi = TRUE] ELSE old
        <3>3. \A old \in importRows : New(old).account = old.account /\ New(old).at = old.at
            <4>1. ASSUME NEW old \in importRows PROVE New(old).account = old.account /\ New(old).at = old.at
                <5>1. old \in SheetRows /\ NameOfRow(page, old) \in Names
                    BY <3>2, NameOfRowIs DEF RowsInv
                <5> QED
                    BY <5>1, NamedIs
            <4> QED
                BY <4>1
        <3>4. \A row \in importRows' : \E old \in importRows : row = New(old)
            BY <3>1
        <3> HIDE DEF New
        <3> QED
            BY <1>4, <3>3, <3>4
    <2>3. Len(ApiPages) \in Nat
        BY PagesTypedAre
    <2> QED
        BY <1>2, <2>1, <2>2, <2>3
<1>6. importRows' \subseteq SheetRows
    BY <1>3
<1>7. \A row \in importRows' : row.id = <<row.account, epoch'[row.account], row.at>>
    BY <1>1, <1>3 DEF RowsInv
<1>8. \A a \in {"jv", "xl"} : \E b \in Nat : Numbered(a, b)'
    <2>1. ASSUME NEW a \in {"jv", "xl"} PROVE \E b \in Nat : Numbered(a, b)'
        <3>1. PICK b \in Nat : Numbered(a, b)
            BY DEF RowsInv
        <3>2. \A new \in importRows' : new.account = a => new.at <= b
            BY <1>3, <3>1 DEF Numbered
        <3> QED
            BY <3>2 DEF Numbered
    <2> QED
        BY <2>1
<1> QED
    BY <1>1, <1>5, <1>6, <1>7, <1>8 DEF RowsInv

LEMMA RowsKept ==
    ASSUME RowsInv, enrichAt \in EnrichStates, SheetAct
    PROVE  RowsInv'
<1>1. CASE UNCHANGED <<importRows, epoch, sheetAt>>
    BY <1>1 DEF RowsInv, Numbered
<1>2. CASE \E i \in DOMAIN ImportRuns : ImportStep(i)
    <2>1. PICK i \in DOMAIN ImportRuns : ImportStep(i)
        BY <1>2
    <2>2. CASE KeepRows(i) \/ ImportKilled(i)
        <3>1. sheetAt' \in [DOMAIN ImportRuns -> SheetRuns]
            BY <2>2 DEF KeepRows, ImportKilled, RowsInv, SheetRuns
        <3>2. UNCHANGED <<importRows, epoch>>
            BY <2>2 DEF KeepRows, ImportKilled
        <3> QED
            BY <3>1, <3>2 DEF RowsInv, Numbered
    <2> QED
        BY <2>1, <2>2, ReplaceRowsKept, UpsertRowsKept DEF ImportStep
<1>3. CASE FetchNames
    BY <1>3, FetchRowsKept
<1> QED
    BY <1>1, <1>2, <1>3
       DEF SheetAct, EnrichStep, BeginEnrichment, ApiIsBusy,
           RebuildStep, DeleteMappings, ReadTargets, ReadSources, UpsertMappings, RebuildKilled,
           CopyStep, ReadSheet, UpsertProducts

\* The rows that count, in the order of their ids.
LEMMA ValidAre ==
    ASSUME RowsInv, NEW account \in {"jv", "xl"}
    PROVE  /\ ValidRows(account) \in Seq(importRows) /\ ValidRows(account) \in Seq(SheetRows)
           /\ \A n \in DOMAIN ValidRows(account) : ValidRows(account)[n].account = account
           /\ \A m, n \in DOMAIN ValidRows(account) :
                 ValidRows(account)[m].id = ValidRows(account)[n].id => m = n
<1> DEFINE valid == {row \in importRows : row.account = account /\ ~row.removed}
           ats   == {row.at : row \in valid}
           read  == [i \in 1 .. Cardinality(ats) |-> CHOOSE row \in valid : row.at = Nth(ats, i)]
<1>1. ValidRows(account) = read
    BY DEF ValidRows
<1>2. PICK b \in Nat : Numbered(account, b)
    BY DEF RowsInv
<1>3. valid \subseteq importRows /\ importRows \subseteq SheetRows /\ \A row \in valid : row.account = account
    BY DEF RowsInv
<1>4. \A row \in valid : row.at \in Nat /\ row.at <= b
    BY <1>2, <1>3 DEF Numbered, SheetRows
<1> HIDE DEF valid
<1>5. ats \in SUBSET Nat /\ \A n \in ats : n <= b
    BY <1>4
<1>6. /\ Cardinality(ats) \in Nat /\ \A i \in 1 .. Cardinality(ats) : Nth(ats, i) \in ats
      /\ \A i, j \in 1 .. Cardinality(ats) : i < j => Nth(ats, i) < Nth(ats, j)
    <2> HIDE DEF ats
    <2> QED
        BY <1>5, NthIs
<1>7. ASSUME NEW i \in 1 .. Cardinality(ats) PROVE read[i] \in valid /\ read[i].at = Nth(ats, i)
    <2>1. \E row \in valid : row.at = Nth(ats, i)
        BY <1>6
    <2> DEFINE one == CHOOSE row \in valid : row.at = Nth(ats, i)
    <2>2. one \in valid /\ one.at = Nth(ats, i)
        BY <2>1
    <2>3. read[i] = one
        OBVIOUS
    <2> HIDE DEF one
    <2> QED
        BY <2>2, <2>3
<1>8. DOMAIN read = 1 .. Cardinality(ats)
    OBVIOUS
<1>9. read \in [1 .. Cardinality(ats) -> importRows]
    BY <1>3, <1>7
<1> HIDE DEF read, ats
<1>10. read \in Seq(importRows) /\ read \in Seq(SheetRows)
    BY <1>3, <1>6, <1>9, SequenceOf
<1>11. ASSUME NEW m \in DOMAIN read, NEW n \in DOMAIN read, read[m].id = read[n].id
       PROVE  m = n
    <2>1. read[m].at = read[n].at
        <3>1. /\ read[m] \in importRows /\ read[n] \in importRows
              /\ read[m].account = account /\ read[n].account = account
            BY <1>3, <1>7, <1>8
        <3>2. \A row \in importRows : row.id = <<row.account, epoch[row.account], row.at>>
            BY DEF RowsInv
        <3>3. <<account, epoch[account], read[m].at>> = <<account, epoch[account], read[n].at>>
            BY <1>11, <3>1, <3>2
        <3> QED
            BY <3>3
    <2>2. Nth(ats, m) = Nth(ats, n)
        BY <1>7, <1>8, <2>1
    <2>3. m \in Nat /\ n \in Nat /\ Nth(ats, m) \in Nat /\ Nth(ats, n) \in Nat
        <3>1. m \in 1 .. Cardinality(ats) /\ n \in 1 .. Cardinality(ats)
            BY <1>8
        <3>2. Nth(ats, m) \in ats /\ Nth(ats, n) \in ats
            BY <1>6, <3>1
        <3>3. m \in Nat /\ n \in Nat
            BY <1>6, <3>1
        <3> QED
            BY <1>5, <3>2, <3>3
    <2>4. ~(m < n) /\ ~(n < m)
        BY <1>6, <1>8, <2>2, <2>3
    <2> QED
        BY <2>3, <2>4
<1> QED
    BY <1>1, <1>3, <1>7, <1>8, <1>10, <1>11

\* What is picked of rows with ids of their own has ids of its own.
LEMMA PickedApart ==
    ASSUME NEW s \in Seq(SheetRows), NEW places \in SUBSET DOMAIN s,
           \A m, n \in DOMAIN s : s[m].id = s[n].id => m = n
    PROVE  \A m, n \in DOMAIN Picked(s, places) : Picked(s, places)[m].id = Picked(s, places)[n].id => m = n
<1>1. /\ DOMAIN Picked(s, places) = 1 .. Cardinality(places) /\ Cardinality(places) \in Nat
      /\ \A i \in 1 .. Cardinality(places) :
                 Nth(places, i) \in places /\ Picked(s, places)[i] = s[Nth(places, i)]
    BY PickedIs
<1>2. Len(s) \in Nat /\ DOMAIN s = 1 .. Len(s)
    BY LenProperties
<1>3. places \in SUBSET Nat /\ \A n \in places : n <= Len(s)
    BY <1>2
<1>4. \A i, j \in 1 .. Cardinality(places) : i < j => Nth(places, i) < Nth(places, j)
    BY <1>2, <1>3, NthIs
<1>5. ASSUME NEW m \in 1 .. Cardinality(places), NEW n \in 1 .. Cardinality(places),
             Picked(s, places)[m].id = Picked(s, places)[n].id
      PROVE  m = n
    <2>1. Nth(places, m) = Nth(places, n)
        BY <1>1, <1>5
    <2>2. m \in Nat /\ n \in Nat /\ Nth(places, m) \in Nat /\ Nth(places, n) \in Nat
        BY <1>1, <1>3
    <2>3. ~(m < n) /\ ~(n < m)
        BY <1>4, <2>1, <2>2
    <2> QED
        BY <2>2, <2>3
<1> QED
    BY <1>1, <1>5

\* A score is a number: two names have no share only if they have no word in common.
LEMMA ScoreIs ==
    ASSUME NEW source, source.name \in DOMAIN Tokens, NEW target, target.name \in DOMAIN Tokens, NEW same \in BOOLEAN
    PROVE  Scored(source, target, same) \in Nat /\ Scored(source, target, same) <= 300
<1> DEFINE words == Tokens[source.name]
           found == Tokens[target.name]
           total == Larger(Cardinality(words), Cardinality(found))
           share == (300 * Cardinality(words \cap found)) \div total
           more  == share + IF same THEN 24 ELSE 0
<1>1. Scored(source, target, same) = IF words \cap found = {} THEN 0 ELSE Smaller(300, more)
    BY DEF Scored
<1>2. IsFiniteSet(words) /\ IsFiniteSet(found)
    BY SheetAssumption
<1>3. CASE words \cap found # {}
    <2>1. /\ Cardinality(words) \in Nat /\ Cardinality(found) \in Nat /\ Cardinality(words \cap found) \in Nat
          /\ Cardinality(words) # 0
        <3>1. words # {}
            BY <1>3
        <3>2. IsFiniteSet(words \cap found)
            BY <1>2, FS_Intersection
        <3> HIDE DEF words, found
        <3> QED
            BY <1>2, <3>1, <3>2, FS_CardinalityType, FS_EmptySet
    <2>2. total \in Nat /\ total > 0
        <3> HIDE DEF words, found
        <3> QED
            BY <2>1 DEF Larger
    <2>3. 300 * Cardinality(words \cap found) \in Nat
        BY <2>1
    <2>4. \A x, y \in Nat : y > 0 => x \div y \in Nat
        OBVIOUS
    <2>5. share \in Nat
        <3> HIDE DEF total, words, found
        <3> QED
            BY <2>2, <2>3, <2>4
    <2>6. more \in Nat
        <3> HIDE DEF share
        <3> QED
            BY <2>5
    <2>7. Smaller(300, more) \in Nat /\ Smaller(300, more) <= 300
        <3> HIDE DEF more
        <3> QED
            BY <2>6 DEF Smaller
    <2> QED
        BY <1>1, <1>3, <2>7
<1> QED
    BY <1>1, <1>3

LEMMA BestLoop ==
    ASSUME NEW source, NEW these, Len(these) \in Nat
    PROVE  \E after :
              /\ after[0] = NoneWeighed
              /\ \A n \in 1 .. Len(these) :
                    after[n] = Weighed(after[n - 1], these[n], Score(source, these[n]))
              /\ Best(source, these) = after[Len(these)]
<1> DEFINE size == Len(these)
           Next1(x, n) == Weighed(x, these[n], Score(source, these[n]))
           Goes(f, k) == f = [n \in 0 .. k |-> IF n = 0 THEN NoneWeighed ELSE Next1(f[n - 1], n)]
           T == {k \in Nat : ~ \E f : Goes(f, k)}
           after == CHOOSE f : Goes(f, size)
<1>6. Best(source, these) = after[size]
    BY DEF Best
<1>7. size \in Nat
    OBVIOUS
<1> HIDE DEF after, size
<1> HIDE DEF Next1
<1>1. ASSUME T # {} PROVE FALSE
    <2>1. PICK k \in T : \A i \in T : k <= i
        <3>1. T \in SUBSET Nat
            OBVIOUS
        <3> HIDE DEF T
        <3> QED
            BY <1>1, <3>1, LeastOf
    <2>2. k \in Nat /\ ~ \E f : Goes(f, k)
        BY <2>1
    <2>3. CASE k = 0
        <3> DEFINE f == [n \in 0 .. 0 |-> NoneWeighed]
        <3>1. f = [n \in 0 .. 0 |-> IF n = 0 THEN NoneWeighed ELSE Next1(f[n - 1], n)]
            OBVIOUS
        <3> HIDE DEF f
        <3>2. Goes(f, k)
            BY <2>3, <3>1
        <3> HIDE DEF Goes
        <3> QED
            BY <2>2, <3>2
    <2>4. CASE k # 0
        <3>1. k - 1 \in Nat /\ ~(k <= k - 1)
            BY <2>2, <2>4
        <3>2. PICK g : Goes(g, k - 1)
            BY <2>1, <3>1
        <3> DEFINE f == [n \in 0 .. k |-> IF n = k THEN Next1(g[k - 1], k) ELSE g[n]]
                   again == [n \in 0 .. k |-> IF n = 0 THEN NoneWeighed ELSE Next1(f[n - 1], n)]
        <3>3. \A n \in 0 .. k : n # k => n \in 0 .. (k - 1)
            BY <2>2
        <3>4. \A n \in 0 .. (k - 1) : g[n] = IF n = 0 THEN NoneWeighed ELSE Next1(g[n - 1], n)
            BY <3>2
        <3>5. ASSUME NEW n \in 0 .. k PROVE f[n] = again[n]
            <4>1. n # 0 => n - 1 \in 0 .. k /\ n - 1 # k
                BY <2>2
            <4>2. n # 0 => f[n - 1] = g[n - 1]
                BY <4>1
            <4>3. CASE n = k
                <5>1. f[n] = Next1(g[k - 1], k)
                    BY <4>3
                <5>2. again[n] = Next1(f[k - 1], k)
                    BY <2>4, <4>3
                <5> HIDE DEF f, again
                <5> QED
                    BY <2>4, <4>2, <4>3, <5>1, <5>2
            <4>4. CASE n # k
                <5>1. f[n] = g[n] /\ g[n] = IF n = 0 THEN NoneWeighed ELSE Next1(g[n - 1], n)
                    BY <3>3, <3>4, <4>4
                <5>2. again[n] = IF n = 0 THEN NoneWeighed ELSE Next1(f[n - 1], n)
                    OBVIOUS
                <5> HIDE DEF f, again
                <5> QED
                    BY <4>2, <5>1, <5>2
            <4> QED
                BY <4>3, <4>4
        <3>6. f = again
            BY <3>5
        <3>7. Goes(f, k)
            <4> HIDE DEF f
            <4> QED
                BY <3>6
        <3> HIDE DEF Goes, f
        <3> QED
            BY <2>2, <3>7
    <2> QED
        BY <2>3, <2>4
<1>2. Goes(after, size)
    <2>1. \E f : Goes(f, size)
        BY <1>1, <1>7
    <2> HIDE DEF Goes
    <2> QED
        BY <2>1 DEF after
<1>3. \A n \in 0 .. size : after[n] = IF n = 0 THEN NoneWeighed ELSE Next1(after[n - 1], n)
    BY <1>2
<1>4. 0 \in 0 .. size /\ \A n \in 1 .. size : n \in 0 .. size /\ n # 0
    BY <1>7
<1>5. after[0] = NoneWeighed /\ \A n \in 1 .. size : after[n] = Next1(after[n - 1], n)
    BY <1>3, <1>4
<1> QED
    BY <1>5, <1>6 DEF Next1, size

\* After the first n candidates: the best of them, and whether another is as good.
IsWeighedOf(best, source, these, n) ==
    /\ best.score \in Nat /\ best.count \in Nat
    /\ best = [target |-> best.target, score |-> best.score, count |-> best.count]
    /\ \A i \in 1 .. n : Score(source, these[i]) <= best.score
    /\ \/ best.score = 0 /\ best.target = NoRow
       \/ /\ best.score > 0 /\ best.count > 0
          /\ \E i \in 1 .. n :
                /\ best.target = these[i] /\ Score(source, these[i]) = best.score
                /\ best.count = 1 <=> \A j \in 1 .. n : Score(source, these[j]) = best.score => j = i

LEMMA WeighedIs ==
    ASSUME NEW source, NEW these, NEW n \in Nat, NEW best, IsWeighedOf(best, source, these, n),
           \A i \in 1 .. (n + 1) : Score(source, these[i]) \in Nat
    PROVE  IsWeighedOf(Weighed(best, these[n + 1], Score(source, these[n + 1])), source, these, n + 1)
<1> DEFINE k == n + 1
           S(i) == Score(source, these[i])
           row == these[k]
           new == Weighed(best, row, S(k))
<1>1. k \in 1 .. k /\ (\A i \in 1 .. k : i = k \/ i \in 1 .. n) /\ (\A i \in 1 .. n : i \in 1 .. k /\ i # k)
    OBVIOUS
<1>2. /\ best.score \in Nat /\ best.count \in Nat
      /\ best = [target |-> best.target, score |-> best.score, count |-> best.count]
      /\ \A i \in 1 .. n : S(i) <= best.score
      /\ \/ best.score = 0 /\ best.target = NoRow
         \/ /\ best.score > 0 /\ best.count > 0
            /\ \E i \in 1 .. n :
                  /\ best.target = these[i] /\ S(i) = best.score
                  /\ best.count = 1 <=> \A j \in 1 .. n : S(j) = best.score => j = i
    BY DEF IsWeighedOf
<1>3. S(k) \in Nat /\ \A i \in 1 .. n : S(i) \in Nat
    BY <1>1
<1>5. new = IF S(k) > best.score THEN [target |-> row, score |-> S(k), count |-> 1]
            ELSE IF S(k) = best.score THEN [best EXCEPT !.count = @ + 1]
            ELSE best
    BY DEF Weighed, Better
<1> SUFFICES
        /\ new.score \in Nat /\ new.count \in Nat
        /\ new = [target |-> new.target, score |-> new.score, count |-> new.count]
        /\ \A i \in 1 .. k : S(i) <= new.score
        /\ \/ new.score = 0 /\ new.target = NoRow
           \/ /\ new.score > 0 /\ new.count > 0
              /\ \E i \in 1 .. k :
                    /\ new.target = these[i] /\ S(i) = new.score
                    /\ new.count = 1 <=> \A j \in 1 .. k : S(j) = new.score => j = i
    BY DEF IsWeighedOf
<1> HIDE DEF S, k, row, new
<1>6. CASE S(k) > best.score
    <2>1. /\ new.target = row /\ new.score = S(k) /\ new.count = 1
          /\ new = [target |-> new.target, score |-> new.score, count |-> new.count]
        BY <1>5, <1>6
    <2>2. \A i \in 1 .. n : S(i) < S(k)
        BY <1>2, <1>3, <1>6
    <2>3. \A j \in 1 .. k : S(j) = new.score => j = k
        BY <1>1, <1>3, <2>1, <2>2
    <2>5. \A i \in 1 .. k : S(i) <= new.score
        BY <1>1, <1>3, <2>1, <2>2
    <2>6. new.score > 0 /\ new.target = these[k] /\ S(k) = new.score
        BY <1>2, <1>3, <1>6, <2>1 DEF row
    <2> QED
        BY <1>1, <1>3, <2>1, <2>3, <2>5, <2>6
<1>7. CASE S(k) = best.score
    <2>1. new = [best EXCEPT !.count = @ + 1]
        BY <1>2, <1>5, <1>7
    <2>2. /\ new.score = best.score /\ new.target = best.target /\ new.count = best.count + 1
          /\ new = [target |-> new.target, score |-> new.score, count |-> new.count]
        BY <1>2, <2>1
    <2>3. \A i \in 1 .. k : S(i) <= new.score
        BY <1>1, <1>2, <1>3, <1>7, <2>2
    <2>4. CASE best.score = 0
        BY <1>2, <2>2, <2>3, <2>4
    <2>5. CASE best.score # 0
        <3>1. best.score > 0 /\ best.count > 0
            BY <1>2, <2>5
        <3>2. PICK i \in 1 .. n : best.target = these[i] /\ S(i) = best.score
            BY <1>2, <2>5
        <3>3. new.count # 1 /\ new.count > 0 /\ new.count \in Nat
            BY <1>2, <2>2, <3>1
        <3>4. ~(\A j \in 1 .. k : S(j) = new.score => j = i)
            BY <1>1, <1>7, <2>2, <3>2
        <3>5. i \in 1 .. k /\ new.target = these[i] /\ S(i) = new.score
            BY <1>1, <2>2, <3>2
        <3> QED
            BY <1>2, <2>2, <2>3, <3>1, <3>3, <3>4, <3>5
    <2> QED
        BY <2>4, <2>5
<1>8. CASE S(k) < best.score
    <2>1. new = best
        BY <1>2, <1>3, <1>5, <1>8
    <2>2. best.score > 0
        BY <1>2, <1>3, <1>8
    <2>3. PICK i \in 1 .. n :
                  /\ best.target = these[i] /\ S(i) = best.score
                  /\ best.count = 1 <=> \A j \in 1 .. n : S(j) = best.score => j = i
        BY <1>2, <2>2
    <2>4. \A m \in 1 .. k : S(m) <= best.score
        BY <1>1, <1>2, <1>3, <1>8
    <2>5. S(k) # best.score
        BY <1>2, <1>3, <1>8
    <2>6. best.count = 1 <=> \A j \in 1 .. k : S(j) = best.score => j = i
        BY <1>1, <2>3, <2>5
    <2>7. i \in 1 .. k
        BY <1>1
    <2> QED
        BY <1>2, <2>1, <2>2, <2>3, <2>4, <2>6, <2>7
<1> QED
    BY <1>2, <1>3, <1>6, <1>7, <1>8

LEMMA BestIsWeighed ==
    ASSUME NEW source, NEW these, Len(these) \in Nat,
           \A i \in 1 .. Len(these) : Score(source, these[i]) \in Nat
    PROVE  IsWeighedOf(Best(source, these), source, these, Len(these))
<1> DEFINE size == Len(these)
<1>1. PICK after :
          /\ after[0] = NoneWeighed
          /\ \A n \in 1 .. Len(these) : after[n] = Weighed(after[n - 1], these[n], Score(source, these[n]))
          /\ Best(source, these) = after[Len(these)]
    BY BestLoop
<1>2. IsWeighedOf(NoneWeighed, source, these, 0)
    BY DEF IsWeighedOf, NoneWeighed
<1> DEFINE T == {n \in Nat : n <= size /\ ~IsWeighedOf(after[n], source, these, n)}
<1>3. ASSUME T # {} PROVE FALSE
    <2>1. PICK n \in T : \A i \in T : n <= i
        <3>1. T \in SUBSET Nat
            OBVIOUS
        <3> HIDE DEF T
        <3> QED
            BY <1>3, <3>1, LeastOf
    <2>2. n \in Nat /\ n <= size /\ ~IsWeighedOf(after[n], source, these, n)
        BY <2>1
    <2>3. n # 0
        BY <1>1, <1>2, <2>2
    <2> DEFINE m == n - 1
    <2>4. n \in 1 .. size /\ m \in Nat /\ m <= size /\ ~(n <= m) /\ m + 1 = n
        BY <2>2, <2>3
    <2>5. IsWeighedOf(after[m], source, these, m)
        BY <2>1, <2>4
    <2>6. \A i \in 1 .. (m + 1) : Score(source, these[i]) \in Nat
        <3>1. \A i \in 1 .. n : i \in 1 .. size
            BY <2>4
        <3> QED
            BY <2>4, <3>1
    <2>7. IsWeighedOf(Weighed(after[m], these[m + 1], Score(source, these[m + 1])), source, these, m + 1)
        <3> HIDE DEF m
        <3> QED
            BY <2>4, <2>5, <2>6, WeighedIs
    <2>8. after[n] = Weighed(after[m], these[n], Score(source, these[n]))
        BY <1>1, <2>4
    <2> QED
        <3> HIDE DEF m
        <3> QED
            BY <2>2, <2>4, <2>7, <2>8
<1>4. IsWeighedOf(after[size], source, these, size)
    <2>1. size <= size
        OBVIOUS
    <2> HIDE DEF size
    <2>2. size \in Nat
        BY DEF size
    <2> QED
        BY <1>3, <2>1, <2>2
<1> QED
    BY <1>1, <1>4

Statuses == {"matched", "ambiguous", "low_score", "no_source_name", "no_target_candidate"}

\* The rows that can be matched.
NamedRows == {row \in SheetRows : row.name \in DOMAIN Tokens}

\* The targets that are nearer than all others, as the property has them.
NearestOf(row, targets) ==
    {n \in DOMAIN targets :
        /\ row.name # Absent /\ Rank(row, targets, n) >= Minimum
        /\ \A k \in DOMAIN targets : k # n => Rank(row, targets, k) < Rank(row, targets, n)}

LEMMA PickedIsEmpty ==
    ASSUME NEW S, NEW s \in Seq(S), NEW places \in SUBSET DOMAIN s
    PROVE  Picked(s, places) = <<>> <=> places = {}
<1>1. /\ Cardinality(places) \in Nat
      /\ Picked(s, places) \in Seq(S) /\ Len(Picked(s, places)) = Cardinality(places)
      /\ \A i \in 1 .. Cardinality(places) : Nth(places, i) \in places
      /\ \A p \in places : \E i \in 1 .. Cardinality(places) : Picked(s, places)[i] = s[p]
    BY PickedIs
<1> DEFINE some == Picked(s, places)
<1> HIDE DEF some
<1>2. some = <<>> <=> Len(some) = 0
    <2>1. some \in Seq(S)
        BY <1>1 DEF some
    <2> QED
        BY <2>1, EmptySeq
<1>3. CASE places = {}
    <2>1. Cardinality(places) = 0
        BY <1>3, FS_EmptySet
    <2> QED
        BY <1>1, <1>2, <1>3, <2>1 DEF some
<1>4. CASE places # {}
    <2>1. PICK p \in places : TRUE
        BY <1>4
    <2>2. PICK i \in 1 .. Cardinality(places) : Picked(s, places)[i] = s[p]
        BY <1>1, <2>1
    <2>3. Cardinality(places) # 0
        BY <1>1, <2>2
    <2> QED
        BY <1>1, <1>2, <1>4, <2>3 DEF some
<1> QED
    BY <1>3, <1>4

\* Those of the highest rank: one of them is nearest only if it is alone.
LEMMA TopIsNearest ==
    ASSUME NEW targets \in Seq(NamedRows), NEW source, source.name # Absent,
           NEW places \in SUBSET DOMAIN targets, places # {}, NEW top \in Nat, Minimum <= top,
           \A n \in DOMAIN targets :
              /\ Rank(source, targets, n) \in Nat
              /\ IF n \in places THEN Rank(source, targets, n) = top ELSE Rank(source, targets, n) < top
    PROVE  {targets[k].id : k \in NearestOf(source, targets)} =
               IF Len(Picked(targets, places)) = 1 THEN {Picked(targets, places)[1].id} ELSE {}
<1> DEFINE exact == Picked(targets, places)
           nearest == NearestOf(source, targets)
<1>1. /\ Cardinality(places) \in Nat /\ Len(exact) = Cardinality(places)
      /\ \A i \in 1 .. Cardinality(places) :
                 Nth(places, i) \in places /\ exact[i] = targets[Nth(places, i)]
    BY PickedIs
<1>2. Len(targets) \in Nat /\ DOMAIN targets = 1 .. Len(targets)
    BY LenProperties
<1>3. places \in SUBSET Nat /\ \A n \in places : n <= Len(targets)
    BY <1>2
<1>4. /\ \A i, j \in 1 .. Cardinality(places) : i < j => Nth(places, i) < Nth(places, j)
      /\ \A p \in places : \E i \in 1 .. Cardinality(places) : Nth(places, i) = p
    BY <1>2, <1>3, NthIs
<1>5. Minimum \in Nat
    BY SheetAssumption
<1>6. \A n : n \in nearest <=>
          /\ n \in DOMAIN targets /\ Rank(source, targets, n) >= Minimum
          /\ \A k \in DOMAIN targets : k # n => Rank(source, targets, k) < Rank(source, targets, n)
    BY DEF NearestOf
<1> HIDE DEF exact, nearest
<1>7. PICK p \in places : TRUE
    OBVIOUS
<1>8. nearest \subseteq places
    <2>1. ASSUME NEW n \in nearest, n \notin places PROVE FALSE
        <3>1. n \in DOMAIN targets /\ Rank(source, targets, n) < top /\ Rank(source, targets, n) \in Nat
            BY <1>6, <2>1
        <3>2. Rank(source, targets, p) = top /\ p \in DOMAIN targets /\ p # n
            BY <1>7, <2>1
        <3>3. top < Rank(source, targets, n)
            BY <1>6, <2>1, <3>2
        <3> QED
            BY <3>1, <3>3
    <2> QED
        BY <2>1
<1>9. CASE Cardinality(places) = 1
    <2>1. 1 \in 1 .. Cardinality(places)
        BY <1>9
    <2>2. \A q \in places : q = Nth(places, 1)
        BY <1>4, <1>9
    <2> DEFINE n == Nth(places, 1)
    <2>3. n \in places /\ exact[1] = targets[n]
        BY <1>1, <2>1
    <2> HIDE DEF n
    <2>4. n \in nearest
        <3>1. n \in DOMAIN targets /\ Rank(source, targets, n) = top
            BY <2>3
        <3>2. \A k \in DOMAIN targets : k # n => Rank(source, targets, k) < top
            BY <2>2 DEF n
        <3> QED
            BY <1>5, <1>6, <3>1, <3>2
    <2>5. nearest = {n}
        BY <1>8, <2>2, <2>4 DEF n
    <2> QED
        BY <1>1, <1>9, <2>3, <2>5 DEF exact, nearest
<1>10. CASE Cardinality(places) # 1
    <2>1. 1 \in 1 .. Cardinality(places) /\ 2 \in 1 .. Cardinality(places)
        <3>1. PICK i \in 1 .. Cardinality(places) : Nth(places, i) = p
            BY <1>4, <1>7
        <3> QED
            BY <1>1, <1>10, <3>1
    <2>2. Nth(places, 1) \in places /\ Nth(places, 2) \in places /\ Nth(places, 1) < Nth(places, 2)
        BY <1>1, <1>4, <2>1
    <2>3. Nth(places, 1) # Nth(places, 2)
        BY <1>3, <2>2
    <2>4. ASSUME NEW n \in nearest PROVE FALSE
        <3>1. n \in places /\ Rank(source, targets, n) = top
            BY <1>8, <2>4
        <3>2. PICK k \in places : k # n
            BY <2>2, <2>3
        <3>3. top < top
            BY <1>6, <2>4, <3>1, <3>2
        <3> QED
            BY <3>3
    <2>5. nearest = {}
        BY <2>4
    <2> QED
        BY <1>1, <1>10, <2>5 DEF exact, nearest
<1> QED
    BY <1>9, <1>10

LEMMA NamedTargets ==
    ASSUME NEW targets \in Seq(NamedRows)
    PROVE  /\ Len(targets) \in Nat /\ DOMAIN targets = 1 .. Len(targets)
           /\ \A n \in DOMAIN targets :
                 targets[n] \in SheetRows /\ targets[n].name \in DOMAIN Tokens /\ targets[n] # NoRow
<1>1. Len(targets) \in Nat /\ DOMAIN targets = 1 .. Len(targets) /\ \A n \in DOMAIN targets : targets[n] \in NamedRows
    BY LenProperties
<1>2. ASSUME NEW row \in SheetRows PROVE row # NoRow
    <2>1. PICK a \in DOMAIN Sheets, e \in Nat, n \in Nat : row.id = <<a, e, n>>
        BY DEF SheetRows
    <2>2. Len(<<a, e, n>>) = 3 /\ Len(<<>>) = 0
        OBVIOUS
    <2>3. NoRow.id = <<>>
        BY DEF NoRow
    <2>4. Len(row.id) = 3 /\ Len(NoRow.id) = 0
        BY <2>1, <2>2, <2>3
    <2>5. row = NoRow => Len(row.id) = Len(NoRow.id)
        OBVIOUS
    <2> QED
        BY <2>4, <2>5
<1> QED
    BY <1>1, <1>2 DEF NamedRows

\* A rank is a number, and what shares only a part of the name is below what has all of it.
LEMMA RankIs ==
    ASSUME NEW source \in NamedRows, NEW targets \in Seq(NamedRows), NEW n \in DOMAIN targets
    PROVE  /\ Rank(source, targets, n) \in Nat
           /\ targets[n].name = source.name /\ targets[n].category = source.category => Rank(source, targets, n) = 1000
           /\ targets[n].name = source.name /\ targets[n].category # source.category => Rank(source, targets, n) = 500
           /\ targets[n].name # source.name =>
                 /\ Rank(source, targets, n) <= 300
                 /\ Rank(source, targets, n) =
                       IF (Tokens[source.name] \ Common(targets)) \cap Tokens[targets[n].name] # {}
                       THEN Score(source, targets[n]) ELSE 0
<1>1. source.name \in DOMAIN Tokens /\ targets[n].name \in DOMAIN Tokens
    BY NamedTargets DEF NamedRows
<1>2. Score(source, targets[n]) \in Nat /\ Score(source, targets[n]) <= 300
    <2>1. (source.category = targets[n].category) \in BOOLEAN
        OBVIOUS
    <2> QED
        BY <1>1, <2>1, ScoreIs DEF Score
<1> QED
    BY <1>2 DEF Rank

LEMMA ExactIs ==
    ASSUME NEW source \in NamedRows, NEW targets \in Seq(NamedRows), source.name # Absent,
           SameCategory(source, targets) # <<>> \/ SameName(source, targets) # <<>>
    PROVE  LET exact == IF SameCategory(source, targets) # <<>> THEN SameCategory(source, targets)
                        ELSE SameName(source, targets)
           IN  /\ exact # <<>> /\ exact[1] \in SheetRows
               /\ {targets[k].id : k \in NearestOf(source, targets)} = IF Len(exact) = 1 THEN {exact[1].id} ELSE {}
<1> DEFINE named == {n \in DOMAIN targets : targets[n].name = source.name}
           both == {n \in DOMAIN targets : targets[n].name = source.name /\ targets[n].category = source.category}
<1>1. SameName(source, targets) = Picked(targets, named) /\ SameCategory(source, targets) = Picked(targets, both)
    BY DEF SameName, SameCategory
<1>2. named \in SUBSET DOMAIN targets /\ both \in SUBSET DOMAIN targets
    OBVIOUS
<1>3. Minimum \in Nat /\ Minimum <= 300
    BY SheetAssumption
<1>4. \A n \in DOMAIN targets :
          /\ Rank(source, targets, n) \in Nat
          /\ n \in both => Rank(source, targets, n) = 1000
          /\ n \in named /\ n \notin both => Rank(source, targets, n) = 500
          /\ n \notin named => Rank(source, targets, n) <= 300
    BY RankIs
<1>5. both \subseteq named
    OBVIOUS
<1> HIDE DEF named, both
<1>6. \A places \in SUBSET DOMAIN targets : Picked(targets, places) = <<>> <=> places = {}
    BY PickedIsEmpty
<1>7. ASSUME NEW places \in SUBSET DOMAIN targets, places # {} PROVE Picked(targets, places)[1] \in SheetRows
    <2>1. /\ Picked(targets, places) \in Seq(NamedRows) /\ Picked(targets, places) # <<>>
        BY <1>6, <1>7, PickedIs
    <2>2. 1 \in DOMAIN Picked(targets, places)
        BY <2>1, EmptySeq, LenProperties
    <2> QED
        BY <2>1, <2>2, NamedTargets
<1>8. CASE both # {}
    <2>1. ASSUME NEW top, top = 1000
          PROVE  {targets[k].id : k \in NearestOf(source, targets)} =
                     IF Len(Picked(targets, both)) = 1 THEN {Picked(targets, both)[1].id} ELSE {}
        <3>1. \A n \in DOMAIN targets :
                  /\ Rank(source, targets, n) \in Nat
                  /\ IF n \in both THEN Rank(source, targets, n) = top ELSE Rank(source, targets, n) < top
            BY <1>4, <1>8, <2>1
        <3>2. top \in Nat /\ Minimum <= top
            BY <1>3, <2>1
        <3>3. both \in SUBSET DOMAIN targets /\ both # {}
            BY <1>2, <1>8
        <3> QED
            BY <3>1, <3>2, <3>3, TopIsNearest
    <2>2. {targets[k].id : k \in NearestOf(source, targets)} =
               IF Len(Picked(targets, both)) = 1 THEN {Picked(targets, both)[1].id} ELSE {}
        BY <2>1
    <2> QED
        BY <1>1, <1>2, <1>6, <1>7, <1>8, <2>2
<1>9. CASE both = {} /\ named # {}
    <2>1. ASSUME NEW top, top = 500
          PROVE  {targets[k].id : k \in NearestOf(source, targets)} =
                     IF Len(Picked(targets, named)) = 1 THEN {Picked(targets, named)[1].id} ELSE {}
        <3>1. \A n \in DOMAIN targets :
                  /\ Rank(source, targets, n) \in Nat
                  /\ IF n \in named THEN Rank(source, targets, n) = top ELSE Rank(source, targets, n) < top
            BY <1>4, <1>9, <2>1
        <3>2. top \in Nat /\ Minimum <= top
            BY <1>3, <2>1
        <3>3. named \in SUBSET DOMAIN targets /\ named # {}
            BY <1>2, <1>9
        <3> QED
            BY <3>1, <3>2, <3>3, TopIsNearest
    <2>2. {targets[k].id : k \in NearestOf(source, targets)} =
               IF Len(Picked(targets, named)) = 1 THEN {Picked(targets, named)[1].id} ELSE {}
        BY <2>1
    <2> QED
        BY <1>1, <1>2, <1>6, <1>7, <1>9, <2>2
<1>10. CASE both = {} /\ named = {}
    BY <1>1, <1>2, <1>6, <1>10
<1> QED
    BY <1>8, <1>9, <1>10

\* Without a row of the same name: the answer by score.
LEMMA ScoredIs ==
    ASSUME NEW source \in NamedRows, NEW targets \in Seq(NamedRows), source.name # Absent,
           SameName(source, targets) = <<>>
    PROVE  LET best == Best(source, Candidates(source, targets))
           IN  /\ best.target \in SheetRows \cup {NoRow}
               /\ {targets[k].id : k \in NearestOf(source, targets)} =
                      IF best.target # NoRow /\ ~(best.score < Minimum) /\ best.count = 1
                      THEN {best.target.id} ELSE {}
<1> DEFINE named == {n \in DOMAIN targets : targets[n].name = source.name}
           places == {n \in DOMAIN targets :
                         (Tokens[source.name] \ Common(targets)) \cap Tokens[targets[n].name] # {}}
           these == Candidates(source, targets)
           best == Best(source, these)
           nearest == NearestOf(source, targets)
           S(i) == Score(source, these[i])
<1>1. \A n \in DOMAIN targets : targets[n].name # source.name
    <2>1. Picked(targets, named) = <<>> /\ named \in SUBSET DOMAIN targets
        BY DEF SameName
    <2>2. named = {}
        <3> HIDE DEF named
        <3> QED
            BY <2>1, PickedIsEmpty
    <2> QED
        BY <2>2
<1>2. \A n \in DOMAIN targets :
          /\ Rank(source, targets, n) \in Nat
          /\ n \in places => Rank(source, targets, n) = Score(source, targets[n])
          /\ n \notin places => Rank(source, targets, n) = 0
    BY <1>1, RankIs
<1>3. these = Picked(targets, places) /\ places \in SUBSET DOMAIN targets
    BY DEF Candidates
<1> HIDE DEF places
<1>4. /\ these \in Seq(NamedRows) /\ Len(these) = Cardinality(places) /\ Len(these) \in Nat
      /\ \A i \in 1 .. Len(these) : Nth(places, i) \in places /\ these[i] = targets[Nth(places, i)]
    BY <1>3, PickedIs
<1>5. Len(targets) \in Nat /\ DOMAIN targets = 1 .. Len(targets)
      /\ \A n \in DOMAIN targets : targets[n] \in SheetRows /\ targets[n] # NoRow
    BY NamedTargets
<1>6. places \in SUBSET Nat /\ \A n \in places : n <= Len(targets)
    BY <1>3, <1>5
<1>7. /\ \A i, j \in 1 .. Len(these) : i < j => Nth(places, i) < Nth(places, j)
      /\ \A p \in places : \E i \in 1 .. Len(these) : Nth(places, i) = p
    BY <1>4, <1>5, <1>6, NthIs
<1>8. \A i, j \in 1 .. Len(these) : Nth(places, i) = Nth(places, j) => i = j
    <2>1. ASSUME NEW i \in 1 .. Len(these), NEW j \in 1 .. Len(these), Nth(places, i) = Nth(places, j)
          PROVE  i = j
        <3>1. i \in Nat /\ j \in Nat /\ Nth(places, i) \in places /\ Nth(places, j) \in places
            BY <1>4
        <3>3. Nth(places, i) \in Nat /\ Nth(places, j) \in Nat
            BY <1>6, <3>1
        <3>2. ~(i < j) /\ ~(j < i)
            BY <1>7, <2>1, <3>3
        <3> QED
            BY <3>1, <3>2
    <2> QED
        BY <2>1
<1>9. \A i \in 1 .. Len(these) : S(i) = Rank(source, targets, Nth(places, i)) /\ S(i) \in Nat
    BY <1>2, <1>3, <1>4
<1>10. IsWeighedOf(best, source, these, Len(these))
    <2>1. \A i \in 1 .. Len(these) : Score(source, these[i]) \in Nat
        BY <1>9
    <2> HIDE DEF these
    <2> QED
        BY <1>4, <2>1, BestIsWeighed
<1>11. /\ best.score \in Nat /\ best.count \in Nat
       /\ \A i \in 1 .. Len(these) : S(i) <= best.score
       /\ \/ best.score = 0 /\ best.target = NoRow
          \/ /\ best.score > 0 /\ best.count > 0
             /\ \E i \in 1 .. Len(these) :
                   /\ best.target = these[i] /\ S(i) = best.score
                   /\ best.count = 1 <=> \A j \in 1 .. Len(these) : S(j) = best.score => j = i
    BY <1>10 DEF IsWeighedOf
<1>12. Minimum \in Nat /\ Minimum > 0
    BY SheetAssumption
<1>13. \A n : n \in nearest <=>
          /\ n \in DOMAIN targets /\ Rank(source, targets, n) >= Minimum
          /\ \A k \in DOMAIN targets : k # n => Rank(source, targets, k) < Rank(source, targets, n)
    BY DEF NearestOf
<1>14. \A i \in 1 .. Len(these) : these[i] \in SheetRows /\ these[i] # NoRow
    BY <1>3, <1>4, <1>5
<1>15. best.target \in SheetRows \cup {NoRow}
    BY <1>11, <1>14
<1> HIDE DEF these, best, nearest, S
<1>16. \A n \in nearest : \E i \in 1 .. Len(these) : n = Nth(places, i) /\ S(i) >= Minimum
    <2>1. ASSUME NEW n \in nearest PROVE \E i \in 1 .. Len(these) : n = Nth(places, i) /\ S(i) >= Minimum
        <3>1. n \in DOMAIN targets /\ Rank(source, targets, n) >= Minimum
            BY <1>13
        <3>2. n \in places
            BY <1>2, <1>12, <3>1
        <3>3. PICK i \in 1 .. Len(these) : Nth(places, i) = n
            BY <1>7, <3>2
        <3> QED
            BY <1>9, <3>1, <3>3
    <2> QED
        BY <2>1
<1>17. CASE best.target # NoRow /\ ~(best.score < Minimum) /\ best.count = 1
    <2>1. PICK i \in 1 .. Len(these) :
              best.target = these[i] /\ S(i) = best.score /\ \A j \in 1 .. Len(these) : S(j) = best.score => j = i
        BY <1>11, <1>17
    <2> DEFINE n == Nth(places, i)
    <2>2. n \in places /\ n \in DOMAIN targets /\ these[i] = targets[n] /\ Rank(source, targets, n) = best.score
        BY <1>3, <1>4, <1>9, <2>1
    <2>3. \A j \in 1 .. Len(these) : j # i => S(j) < best.score
        BY <1>9, <1>11, <2>1
    <2>4. ASSUME NEW k \in DOMAIN targets, k # n PROVE Rank(source, targets, k) < best.score
        <3>1. CASE k \in places
            <4>1. PICK j \in 1 .. Len(these) : Nth(places, j) = k
                BY <1>7, <3>1
            <4>2. j # i
                BY <2>4, <4>1
            <4> QED
                BY <1>9, <2>3, <4>1, <4>2
        <3>2. CASE k \notin places
            BY <1>2, <1>11, <1>12, <1>17, <3>2
        <3> QED
            BY <3>1, <3>2
    <2> HIDE DEF n
    <2>5. n \in nearest
        BY <1>11, <1>12, <1>13, <1>17, <2>2, <2>4
    <2>6. \A k \in nearest : k = n
        <3>1. ASSUME NEW k \in nearest, k # n PROVE FALSE
            <4>1. k \in DOMAIN targets /\ Rank(source, targets, k) < best.score /\ Rank(source, targets, k) \in Nat
                BY <1>2, <1>13, <2>4, <3>1
            <4>2. best.score < Rank(source, targets, k)
                BY <1>13, <2>2, <3>1
            <4> QED
                BY <1>11, <4>1, <4>2
        <3> QED
            BY <3>1
    <2>7. nearest = {n}
        BY <2>5, <2>6
    <2> QED
        BY <1>15, <1>17, <2>1, <2>2, <2>7 DEF best, nearest, these
<1>18. CASE ~(best.target # NoRow /\ ~(best.score < Minimum) /\ best.count = 1)
    <2>1. ASSUME NEW n \in nearest PROVE FALSE
        <3>1. PICK i \in 1 .. Len(these) : n = Nth(places, i) /\ S(i) >= Minimum
            BY <1>16
        <3>2. best.score >= Minimum /\ best.score > 0
            BY <1>9, <1>11, <1>12, <3>1
        <3>3. PICK j \in 1 .. Len(these) :
                   /\ best.target = these[j] /\ S(j) = best.score
                   /\ best.count = 1 <=> \A k \in 1 .. Len(these) : S(k) = best.score => k = j
            BY <1>11, <3>2
        <3>4. best.target # NoRow /\ ~(best.score < Minimum)
            BY <1>11, <1>12, <1>14, <3>2, <3>3
        <3>5. PICK k \in 1 .. Len(these) : S(k) = best.score /\ k # j
            BY <1>18, <3>3, <3>4
        <3>6. PICK m \in {j, k} : m # i
            BY <3>5
        <3>7. m \in 1 .. Len(these) /\ S(m) = best.score
            BY <3>3, <3>5, <3>6
        <3>8. Nth(places, m) # n /\ Nth(places, m) \in DOMAIN targets
            BY <1>3, <1>4, <1>8, <3>1, <3>6, <3>7
        <3>9. best.score < S(i)
            BY <1>9, <1>13, <2>1, <3>1, <3>7, <3>8
        <3> QED
            BY <1>9, <1>11, <3>9
    <2> QED
        BY <1>15, <1>18, <2>1 DEF best, nearest, these
<1> QED
    BY <1>17, <1>18

\* The answer for a row names the target that is nearer than all others, or none.
LEMMA MatchIs ==
    ASSUME NEW source \in SheetRows, NEW targets \in Seq(NamedRows)
    PROVE  /\ Match(source, targets).status \in Statuses
           /\ Match(source, targets).target \in SheetRows \cup {NoRow}
           /\ {targets[k].id : k \in NearestOf(source, targets)} =
                  IF Match(source, targets).status = "matched" THEN {Match(source, targets).target.id} ELSE {}
<1> DEFINE exact == IF SameCategory(source, targets) # <<>> THEN SameCategory(source, targets)
                    ELSE SameName(source, targets)
           best == Best(source, Candidates(source, targets))
           nearest == {targets[k].id : k \in NearestOf(source, targets)}
           answer == Match(source, targets)
<1> SUFFICES /\ answer.status \in Statuses /\ answer.target \in SheetRows \cup {NoRow}
             /\ nearest = IF answer.status = "matched" THEN {answer.target.id} ELSE {}
    OBVIOUS
<1>1. CASE source.name = Absent
    <2>1. answer = [status |-> "no_source_name", target |-> NoRow]
        BY <1>1 DEF Match, Answer
    <2>2. nearest = {}
        BY <1>1 DEF NearestOf
    <2> HIDE DEF answer, nearest
    <2>3. answer.status = "no_source_name" /\ answer.target = NoRow
        BY <2>1
    <2> QED
        BY <2>2, <2>3 DEF Statuses
<1>2. CASE source.name # Absent
    <2>1. source \in NamedRows
        BY <1>2 DEF NamedRows, SheetRows, Names
    <2>2. CASE exact # <<>>
        <3>1. answer = [status |-> IF Len(exact) = 1 THEN "matched" ELSE "ambiguous", target |-> exact[1]]
            BY <1>2, <2>2 DEF Match, Answer
        <3>2. exact[1] \in SheetRows /\ nearest = IF Len(exact) = 1 THEN {exact[1].id} ELSE {}
            BY <1>2, <2>1, <2>2, ExactIs
        <3> HIDE DEF exact, nearest, answer
        <3>3. answer.target = exact[1] /\ answer.status = IF Len(exact) = 1 THEN "matched" ELSE "ambiguous"
            BY <3>1
        <3>4. CASE Len(exact) = 1
            BY <3>2, <3>3, <3>4 DEF Statuses
        <3>5. CASE Len(exact) # 1
            BY <3>2, <3>3, <3>5 DEF Statuses
        <3> QED
            BY <3>4, <3>5
    <2>3. CASE exact = <<>>
        <3> DEFINE sole == best.target # NoRow /\ ~(best.score < Minimum) /\ best.count = 1
        <3>1. answer = [status |-> IF best.target = NoRow THEN "no_target_candidate"
                                   ELSE IF best.score < Minimum THEN "low_score"
                                   ELSE IF best.count = 1 THEN "matched" ELSE "ambiguous",
                        target |-> best.target]
            BY <1>2, <2>3 DEF Match, Answer
        <3>2. SameName(source, targets) = <<>>
            BY <2>3
        <3>3. best.target \in SheetRows \cup {NoRow} /\ nearest = IF sole THEN {best.target.id} ELSE {}
            BY <1>2, <2>1, <3>2, ScoredIs
        <3> HIDE DEF best, nearest, exact, answer
        <3>4. answer.target = best.target
            BY <3>1
        <3>5. CASE sole
            <4>1. answer.status = "matched"
                BY <3>1, <3>5
            <4> HIDE DEF sole
            <4> QED
                BY <3>3, <3>4, <3>5, <4>1 DEF Statuses
        <3>6. CASE ~sole
            <4>1. answer.status \in {"no_target_candidate", "low_score", "ambiguous"}
                BY <3>1, <3>6
            <4>2. answer.status # "matched" /\ answer.status \in Statuses
                BY <4>1 DEF Statuses
            <4> HIDE DEF sole
            <4> QED
                BY <3>3, <3>4, <3>6, <4>2
        <3> QED
            BY <3>5, <3>6
    <2> QED
        BY <2>2, <2>3
<1> QED
    BY <1>1, <1>2

RowIds == (DOMAIN Sheets) \X Nat \X Nat

MappingRows ==
    [kind : {"ean", "name"}, key : STRING \cup Names, status : Statuses, source : RowIds,
     target : STRING \cup {Absent}, row : RowIds \cup {<<>>}]

\* The row of the table for a row of "jv".
Matched(kind, row, targets) == MappingOf(kind, row, Match(row, targets))

LEMMA MappingIs ==
    ASSUME NEW kind \in {"ean", "name"}, NEW source \in SheetRows, NEW targets \in Seq(NamedRows)
    PROVE  /\ Matched(kind, source, targets) \in MappingRows
           /\ Matched(kind, source, targets).kind = kind
           /\ Matched(kind, source, targets).key = KeyOf(kind, source)
           /\ Matched(kind, source, targets).source = source.id
           /\ Matched(kind, source, targets).status = Match(source, targets).status
           /\ Matched(kind, source, targets).row = Match(source, targets).target.id
<1> DEFINE match == Match(source, targets)
<1>1. match.status \in Statuses /\ match.target \in SheetRows \cup {NoRow}
    BY MatchIs
<1>2. match.target.id \in RowIds \cup {<<>>} /\ match.target.ean \in STRING \cup {Absent}
    <2>1. CASE match.target \in SheetRows
        <3> HIDE DEF match
        <3> QED
            BY <2>1 DEF SheetRows, RowIds
    <2>2. CASE match.target = NoRow
        <3> HIDE DEF match
        <3> QED
            BY <2>2 DEF NoRow
    <2> QED
        BY <1>1, <2>1, <2>2
<1>3. KeyOf(kind, source) \in STRING \cup Names /\ source.id \in RowIds
    BY DEF KeyOf, SheetRows, RowIds
<1>4. Matched(kind, source, targets) =
          [kind |-> kind, key |-> KeyOf(kind, source), status |-> match.status, source |-> source.id,
           target |-> IF match.status = "matched" THEN match.target.ean ELSE Absent, row |-> match.target.id]
    BY DEF Matched, MappingOf
<1> HIDE DEF match
<1> QED
    <2>1. (IF match.status = "matched" THEN match.target.ean ELSE Absent) \in STRING \cup {Absent}
        BY <1>2
    <2>2. Matched(kind, source, targets) \in MappingRows
        BY <1>1, <1>2, <1>3, <1>4, <2>1 DEF MappingRows
    <2> QED
        BY <1>4, <2>2 DEF match

LEMMA ToSetIs == ASSUME NEW S, NEW s \in Seq(S) PROVE ToSet(s) = {s[n] : n \in 1 .. Len(s)} /\ ToSet(s) \subseteq S
<1>1. DOMAIN s = 1 .. Len(s) /\ \A n \in DOMAIN s : s[n] \in S
    BY LenProperties
<1> QED
    BY <1>1 DEF ToSet

\* What a rebuild is to write: a row for each of its sources, or for those that are matched.
LEMMA PayloadsAre ==
    ASSUME NEW kind \in {"ean", "name"}, NEW sources \in Seq(SheetRows), NEW targets \in Seq(NamedRows)
    PROVE  /\ Payloads(kind, sources, targets) \in Seq(MappingRows)
           /\ \A m \in ToSet(Payloads(kind, sources, targets)) :
                 m.kind = kind /\ \E n \in DOMAIN sources : m = Matched(kind, sources[n], targets)
<1> DEFINE all == [n \in DOMAIN sources |-> Matched(kind, sources[n], targets)]
           places == {n \in DOMAIN all : kind = "ean" \/ all[n].status = "matched"}
<1>1. Payloads(kind, sources, targets) = Picked(all, places)
    BY DEF Payloads, Matched
<1>2. Len(sources) \in Nat /\ DOMAIN sources = 1 .. Len(sources) /\ \A n \in DOMAIN sources : sources[n] \in SheetRows
    BY LenProperties
<1>3. all \in [1 .. Len(sources) -> MappingRows]
    BY <1>2, MappingIs
<1>4. all \in Seq(MappingRows) /\ DOMAIN all = DOMAIN sources
    BY <1>2, <1>3, SequenceOf
<1>5. \A n \in DOMAIN all : all[n] = Matched(kind, sources[n], targets)
    OBVIOUS
<1>6. places \in SUBSET DOMAIN all
    OBVIOUS
<1> HIDE DEF all, places
<1>7. /\ Picked(all, places) \in Seq(MappingRows)
      /\ DOMAIN Picked(all, places) = 1 .. Cardinality(places)
      /\ \A i \in 1 .. Cardinality(places) :
                 Nth(places, i) \in places /\ Picked(all, places)[i] = all[Nth(places, i)]
    BY <1>4, <1>6, PickedIs
<1>8. ASSUME NEW m \in ToSet(Picked(all, places))
      PROVE  m.kind = kind /\ \E n \in DOMAIN sources : m = Matched(kind, sources[n], targets)
    <2>1. PICK i \in 1 .. Cardinality(places) : m = Picked(all, places)[i]
        BY <1>7 DEF ToSet
    <2>2. Nth(places, i) \in DOMAIN all /\ m = all[Nth(places, i)]
        BY <1>6, <1>7, <2>1
    <2>3. PICK n \in DOMAIN sources : m = Matched(kind, sources[n], targets)
        BY <1>4, <1>5, <2>2
    <2> QED
        BY <1>2, <2>3, MappingIs
<1> QED
    BY <1>1, <1>7, <1>8

\* The rows of a rebuild: each has an id and a key of its own.
ApartBy(kind, s) ==
    /\ \A m, n \in DOMAIN s : s[m].id = s[n].id => m = n
    /\ \A m, n \in DOMAIN s : KeyOf(kind, s[m]) = KeyOf(kind, s[n]) => m = n

LEMMA FirstAreApart ==
    ASSUME NEW kind, NEW rows \in Seq(SheetRows), \A m, n \in DOMAIN rows : rows[m].id = rows[n].id => m = n
    PROVE  FirstOfEach(kind, rows) \in Seq(SheetRows) /\ ApartBy(kind, FirstOfEach(kind, rows))
<1> DEFINE places == {n \in DOMAIN rows :
                        /\ KeyOf(kind, rows[n]) # Absent
                        /\ \A m \in 1 .. n - 1 : KeyOf(kind, rows[m]) # KeyOf(kind, rows[n])}
<1>1. FirstOfEach(kind, rows) = Picked(rows, places)
    BY DEF FirstOfEach
<1>2. Len(rows) \in Nat /\ DOMAIN rows = 1 .. Len(rows)
    BY LenProperties
<1>3. places \in SUBSET DOMAIN rows /\ places \in SUBSET Nat /\ \A n \in places : n <= Len(rows)
    BY <1>2
<1>4. \A m, n \in places : m < n => KeyOf(kind, rows[m]) # KeyOf(kind, rows[n])
    BY <1>2
<1> HIDE DEF places
<1> DEFINE some == Picked(rows, places)
<1>5. /\ some \in Seq(SheetRows) /\ DOMAIN some = 1 .. Cardinality(places) /\ Cardinality(places) \in Nat
      /\ \A i \in 1 .. Cardinality(places) : Nth(places, i) \in places /\ some[i] = rows[Nth(places, i)]
    BY <1>3, PickedIs
<1>6. \A i, j \in 1 .. Cardinality(places) : i < j => Nth(places, i) < Nth(places, j)
    BY <1>2, <1>3, NthIs
<1>7. \A m, n \in DOMAIN some : some[m].id = some[n].id => m = n
    BY <1>3, PickedApart
<1> HIDE DEF some
<1>8. ASSUME NEW m \in DOMAIN some, NEW n \in DOMAIN some, KeyOf(kind, some[m]) = KeyOf(kind, some[n])
      PROVE  m = n
    <2>1. m \in 1 .. Cardinality(places) /\ n \in 1 .. Cardinality(places) /\ m \in Nat /\ n \in Nat
        BY <1>5
    <2>2. /\ Nth(places, m) \in places /\ some[m] = rows[Nth(places, m)]
          /\ Nth(places, n) \in places /\ some[n] = rows[Nth(places, n)]
        BY <1>5, <2>1
    <2>3. ~(Nth(places, m) < Nth(places, n)) /\ ~(Nth(places, n) < Nth(places, m))
        BY <1>4, <1>8, <2>2
    <2>4. ~(m < n) /\ ~(n < m)
        BY <1>6, <2>1, <2>3
    <2> QED
        BY <2>1, <2>4
<1> QED
    BY <1>1, <1>5, <1>7, <1>8 DEF ApartBy, some

\* The rows to be written have keys of their own.
LEMMA PayloadsApart ==
    ASSUME NEW kind \in {"ean", "name"}, NEW sources \in Seq(SheetRows), NEW targets \in Seq(NamedRows),
           ApartBy(kind, sources)
    PROVE  \A x, y \in ToSet(Payloads(kind, sources, targets)) : x.key = y.key => x = y
<1>1. \A n \in DOMAIN sources : sources[n] \in SheetRows
    BY LenProperties
<1>2. ASSUME NEW x \in ToSet(Payloads(kind, sources, targets)),
             NEW y \in ToSet(Payloads(kind, sources, targets)), x.key = y.key
      PROVE  x = y
    <2>1. PICK m \in DOMAIN sources : x = Matched(kind, sources[m], targets)
        BY PayloadsAre
    <2>2. PICK n \in DOMAIN sources : y = Matched(kind, sources[n], targets)
        BY PayloadsAre
    <2>3. KeyOf(kind, sources[m]) = KeyOf(kind, sources[n])
        BY <1>1, <1>2, <2>1, <2>2, MappingIs
    <2>4. m = n
        BY <2>3 DEF ApartBy
    <2> QED
        BY <2>1, <2>2, <2>4
<1> QED
    BY <1>2

RebuildStates ==
    [at : {"idle", "targets", "sources", "upsert", "ended", "raised", "killed"}, targets : Seq(NamedRows),
     sources : Seq(SheetRows), todo : Seq(MappingRows), mixed : BOOLEAN]

Works(b) == rebuildAt[b].at \in {"targets", "sources", "upsert"}
OfKind(kind) == {m \in mappings : m.kind = kind}
AllOf(kind, rebuild) == ToSet(Payloads(kind, rebuild.sources, rebuild.targets))

\* The rows of a rebuild are written or still to be written, unless another one has
\* touched them; and what one has finished stays until it is touched.
MappingInv ==
    /\ rebuildAt \in [DOMAIN Rebuilds -> RebuildStates]
    /\ mappings \subseteq MappingRows /\ \A m \in mappings : Refers(m)
    /\ \A b \in DOMAIN Rebuilds : ApartBy(Rebuilds[b], rebuildAt[b].sources)
    /\ \A b \in DOMAIN Rebuilds : rebuildAt[b].at = "upsert" =>
          ToSet(rebuildAt[b].todo) \subseteq AllOf(Rebuilds[b], rebuildAt[b])
    /\ \A b, c \in DOMAIN Rebuilds :
          Works(b) /\ ~rebuildAt[b].mixed /\ Works(c) /\ Rebuilds[c] = Rebuilds[b] => c = b
    /\ \A b \in DOMAIN Rebuilds : Works(b) /\ ~rebuildAt[b].mixed =>
          IF rebuildAt[b].at = "upsert"
          THEN OfKind(Rebuilds[b]) \cup ToSet(rebuildAt[b].todo) = AllOf(Rebuilds[b], rebuildAt[b])
          ELSE OfKind(Rebuilds[b]) = {}
    /\ freshBy \in [{"ean", "name"} -> DOMAIN Rebuilds \cup {"none"}]
    /\ \A kind \in {"ean", "name"} : freshBy[kind] # "none" =>
          /\ Rebuilds[freshBy[kind]] = kind /\ rebuildAt[freshBy[kind]].at = "ended"
          /\ \A c \in DOMAIN Rebuilds : Rebuilds[c] = kind => ~Works(c)
          /\ OfKind(kind) = AllOf(kind, rebuildAt[freshBy[kind]])

LEMMA MappingStarts == SheetInit => MappingInv
<1> SUFFICES ASSUME SheetInit PROVE MappingInv
    OBVIOUS
<1>1. /\ mappings = {} /\ rebuildAt = [b \in DOMAIN Rebuilds |-> NoRebuild]
      /\ freshBy = [kind \in {"ean", "name"} |-> "none"]
    BY DEF SheetInit
<1>2. NoRebuild \in RebuildStates /\ NoRebuild.at = "idle" /\ NoRebuild.sources = <<>>
    <2>1. <<>> \in Seq(NamedRows) /\ <<>> \in Seq(SheetRows) /\ <<>> \in Seq(MappingRows)
        OBVIOUS
    <2> QED
        BY <2>1 DEF NoRebuild, RebuildStates
<1>3. \A kind : ApartBy(kind, <<>>)
    BY DEF ApartBy
<1>4. \A b \in DOMAIN Rebuilds : rebuildAt[b] = NoRebuild
    BY <1>1
<1>5. \A b \in DOMAIN Rebuilds : ~Works(b) /\ rebuildAt[b].at # "upsert" /\ ApartBy(Rebuilds[b], rebuildAt[b].sources)
    BY <1>2, <1>3, <1>4 DEF Works
<1> QED
    BY <1>1, <1>2, <1>5 DEF MappingInv

\* No row that stays loses its id.
LEMMA StoredStays ==
    ASSUME RowsInv, enrichAt \in EnrichStates, SheetAct, \A i \in DOMAIN ImportRuns : ~ReplaceRows(i)
    PROVE  Stored \subseteq Stored'
<1>1. CASE UNCHANGED importRows
    BY <1>1 DEF Stored
<1>2. CASE \E i \in DOMAIN ImportRuns : UpsertSheetRows(i)
    <2>1. PICK i \in DOMAIN ImportRuns : UpsertSheetRows(i)
        BY <1>2
    <2> DEFINE account == ImportRuns[i].account
               first == sheetAt[i].next
    <2>2. PICK last \in Nat :
              /\ \A n \in first .. last : n \in Nat /\ n <= Len(Sheet(i)) /\ Sheet(i)[n] \in Lines
              /\ \A row : row \in importRows' <=>
                    \/ row \in importRows /\ ~(row.account = account /\ row.at \in first .. last)
                    \/ \E n \in first .. last : row = RowOf(account, n, Sheet(i)[n])
        BY <2>1, UpsertIs
    <2>3. account \in DOMAIN Sheets
        BY SheetAssumption
    <2> HIDE DEF account, first
    <2>4. ASSUME NEW row \in importRows PROVE row.id \in Stored'
        <3>1. CASE row.account = account /\ row.at \in first .. last
            <4> DEFINE new == RowOf(account, row.at, Sheet(i)[row.at])
            <4>1. new \in importRows'
                BY <2>2, <3>1
            <4>2. new.id = <<account, epoch[account], row.at>>
                BY <2>2, <2>3, <3>1, RowOfIs DEF RowsInv
            <4>3. row.id = <<account, epoch[account], row.at>>
                BY <3>1 DEF RowsInv
            <4> HIDE DEF new
            <4> QED
                BY <4>1, <4>2, <4>3 DEF Stored
        <3>2. CASE ~(row.account = account /\ row.at \in first .. last)
            BY <2>2, <3>2 DEF Stored
        <3> QED
            BY <3>1, <3>2
    <2> QED
        BY <2>4 DEF Stored
<1>3. CASE FetchNames
    <2>1. CASE enrichAt.page > Len(ApiPages)
        BY <1>3, <2>1 DEF FetchNames, Stored
    <2>2. CASE enrichAt.page <= Len(ApiPages)
        <3> DEFINE page == ApiPages[enrichAt.page]
        <3>1. /\ page \in Seq(PagesTyped)
              /\ \A row : row \in importRows' <=>
                    \/ row \in importRows /\ ~(row.account = "jv" /\ Misses(row) /\ NameOfRow(page, row) # Absent)
                    \/ \E old \in importRows :
                          /\ old.account = "jv" /\ Misses(old) /\ NameOfRow(page, old) # Absent
                          /\ row = [old EXCEPT !.name = NameOfRow(page, old), !.byApi = TRUE]
            <4>1. enrichAt.page \in Nat \ {0}
                BY DEF EnrichStates
            <4> QED
                BY <1>3, <2>2, <4>1, FetchIs
        <3> HIDE DEF page
        <3>2. ASSUME NEW row \in importRows PROVE row.id \in Stored'
            <4>1. CASE row.account = "jv" /\ Misses(row) /\ NameOfRow(page, row) # Absent
                <5> DEFINE new == [row EXCEPT !.name = NameOfRow(page, row), !.byApi = TRUE]
                <5>1. new \in importRows'
                    BY <3>1, <4>1
                <5>2. new.id = row.id
                    BY <3>1, NamedIs, NameOfRowIs DEF RowsInv
                <5> HIDE DEF new
                <5> QED
                    BY <5>1, <5>2 DEF Stored
            <4>2. CASE ~(row.account = "jv" /\ Misses(row) /\ NameOfRow(page, row) # Absent)
                BY <3>1, <4>2 DEF Stored
            <4> QED
                BY <4>1, <4>2
        <3> QED
            BY <3>2 DEF Stored
    <2>3. enrichAt.page \in Nat /\ Len(ApiPages) \in Nat
        BY PagesTypedAre DEF EnrichStates
    <2> QED
        BY <2>1, <2>2, <2>3
<1> QED
    BY <1>1, <1>2, <1>3
       DEF SheetAct, ImportStep, KeepRows, ImportKilled, EnrichStep, BeginEnrichment, ApiIsBusy,
           RebuildStep, DeleteMappings, ReadTargets, ReadSources, UpsertMappings, RebuildKilled,
           CopyStep, ReadSheet, UpsertProducts

LEMMA RefersStays ==
    ASSUME NEW m, Refers(m), Stored \subseteq Stored'
    PROVE  Refers(m)'
BY DEF Refers

LEMMA MappingSame ==
    ASSUME MappingInv, Stored \subseteq Stored', UNCHANGED <<mappings, rebuildAt, freshBy>>
    PROVE  MappingInv'
<1>1. \A m \in mappings : Refers(m)'
    BY RefersStays DEF MappingInv
<1> QED
    BY <1>1 DEF MappingInv, Works, OfKind

LEMMA KindOf == \A b \in DOMAIN Rebuilds : Rebuilds[b] \in {"ean", "name"} /\ b # "none"
BY SheetAssumption

\* Deleted source rows take their mappings with them.
LEMMA DeletionIs ==
    ASSUME MappingInv, NEW gone, NEW left, Stored \subseteq gone \cup left, left \cap gone = {}
    PROVE  /\ AfterDeletion(gone) \subseteq MappingRows
           /\ \A m \in AfterDeletion(gone) : m.source \in left /\ m.row \in left \cup {NoRow.id}
<1>1. ASSUME NEW m \in AfterDeletion(gone)
      PROVE  m \in MappingRows /\ m.source \in left /\ m.row \in left \cup {NoRow.id}
    <2>1. PICK x \in mappings : x.source \notin gone /\ m = [x EXCEPT !.row = IF @ \in gone THEN NoRow.id ELSE @]
        BY DEF AfterDeletion
    <2>2. x \in MappingRows /\ x.source \in Stored /\ x.row \in Stored \cup {NoRow.id}
        BY DEF MappingInv, Refers
    <2>3. NoRow.id = <<>>
        BY DEF NoRow
    <2>4. m.source = x.source /\ m.row = (IF x.row \in gone THEN NoRow.id ELSE x.row) /\ m \in MappingRows
        BY <2>1, <2>2, <2>3 DEF MappingRows
    <2> QED
        BY <2>1, <2>2, <2>4
<1> QED
    BY <1>1

LEMMA ReplaceKept ==
    ASSUME RowsInv, MappingInv, NEW i \in DOMAIN ImportRuns, ReplaceRows(i)
    PROVE  MappingInv'
<1> DEFINE account == ImportRuns[i].account
           old     == {row \in importRows : row.account = account}
           gone    == {row.id : row \in old}
<1>1. /\ importRows' = importRows \ old
      /\ mappings' = AfterDeletion(gone)
      /\ freshBy' = [kind \in DOMAIN freshBy |-> "none"]
      /\ rebuildAt' = [b \in DOMAIN Rebuilds |-> [rebuildAt[b] EXCEPT !.mixed = rebuildAt[b].at # "idle"]]
    BY DEF ReplaceRows
<1>2. \A row, other \in importRows : row.id = other.id => row.account = other.account
    BY DEF RowsInv
<1> HIDE DEF account
<1>3. Stored \subseteq gone \cup Stored' /\ Stored' \cap gone = {}
    BY <1>1, <1>2 DEF Stored
<1> HIDE DEF gone, old
<1>4. mappings' \subseteq MappingRows /\ \A m \in mappings' : Refers(m)'
    <2>1. /\ AfterDeletion(gone) \subseteq MappingRows
          /\ \A m \in AfterDeletion(gone) : m.source \in Stored' /\ m.row \in Stored' \cup {NoRow.id}
        BY <1>3, DeletionIs
    <2>2. NoRow.id = <<>> /\ NoRow.id' = NoRow.id
        BY DEF NoRow
    <2> QED
        BY <1>1, <2>1, <2>2 DEF Refers
<1>5. ASSUME NEW b \in DOMAIN Rebuilds
      PROVE  /\ rebuildAt'[b] \in RebuildStates /\ rebuildAt'[b].at = rebuildAt[b].at
             /\ rebuildAt'[b].targets = rebuildAt[b].targets /\ rebuildAt'[b].sources = rebuildAt[b].sources
             /\ rebuildAt'[b].todo = rebuildAt[b].todo /\ rebuildAt'[b].mixed = (rebuildAt[b].at # "idle")
    <2>1. rebuildAt[b] \in RebuildStates
        BY DEF MappingInv
    <2>2. rebuildAt'[b] = [rebuildAt[b] EXCEPT !.mixed = rebuildAt[b].at # "idle"]
        BY <1>1
    <2>3. (rebuildAt[b].at # "idle") \in BOOLEAN
        OBVIOUS
    <2> QED
        BY <2>1, <2>2, <2>3 DEF RebuildStates
<1>6. rebuildAt' \in [DOMAIN Rebuilds -> RebuildStates]
    BY <1>1, <1>5
<1>7. \A b \in DOMAIN Rebuilds : Works(b)' => rebuildAt'[b].mixed
    BY <1>5 DEF Works
<1>8. freshBy' \in [{"ean", "name"} -> DOMAIN Rebuilds \cup {"none"}]
      /\ \A kind \in {"ean", "name"} : freshBy'[kind] = "none"
    BY <1>1 DEF MappingInv
<1>9. \A b \in DOMAIN Rebuilds : ApartBy(Rebuilds[b], rebuildAt'[b].sources)
    BY <1>5 DEF MappingInv
<1>10. \A b \in DOMAIN Rebuilds : rebuildAt'[b].at = "upsert" =>
          ToSet(rebuildAt'[b].todo) \subseteq AllOf(Rebuilds[b], rebuildAt'[b])
    BY <1>5 DEF MappingInv, AllOf
<1> QED
    BY <1>4, <1>6, <1>7, <1>8, <1>9, <1>10 DEF MappingInv

LEMMA BatchOf ==
    ASSUME NEW S, NEW s \in Seq(S)
    PROVE  /\ Batch(s) \in Seq(S) /\ Rest(s) \in Seq(S)
           /\ ToSet(Batch(s)) \cup ToSet(Rest(s)) = ToSet(s)
<1> DEFINE k == Shorter(Len(s))
<1>1. Len(s) \in Nat /\ DOMAIN s = 1 .. Len(s) /\ \A n \in DOMAIN s : s[n] \in S
    BY LenProperties
<1>2. k \in Nat /\ k <= Len(s)
    BY <1>1, SheetAssumption DEF Shorter
<1> HIDE DEF k
<1>3. /\ SubSeq(s, 1, k) = [i \in 1 .. k |-> s[i]]
      /\ SubSeq(s, k + 1, Len(s)) = [i \in 1 .. Len(s) - k |-> s[i + k]]
    <2>1. \A i \in Nat : (1 + i) - 1 = i /\ (k + 1 + i) - 1 = i + k
        BY <1>2
    <2>2. (1 + k) - 1 = k
        BY <1>2
    <2> QED
        BY <1>1, <1>2, <2>1
<1>4. Batch(s) = [i \in 1 .. k |-> s[i]] /\ Rest(s) = [i \in 1 .. Len(s) - k |-> s[i + k]]
    BY <1>3 DEF Batch, Rest, k
<1>5. Batch(s) \in Seq(S)
    <2>1. [i \in 1 .. k |-> s[i]] \in [1 .. k -> S]
        BY <1>1, <1>2
    <2> QED
        BY <1>2, <1>4, <2>1, SequenceOf
<1>6. Rest(s) \in Seq(S)
    <2>1. Len(s) - k \in Nat
        BY <1>1, <1>2
    <2>2. \A i \in 1 .. Len(s) - k : i + k \in 1 .. Len(s)
        BY <1>1, <1>2
    <2>3. [i \in 1 .. Len(s) - k |-> s[i + k]] \in [1 .. Len(s) - k -> S]
        BY <1>1, <2>2
    <2> QED
        BY <1>4, <2>1, <2>3, SequenceOf
<1>7. ToSet(Batch(s)) = {s[i] : i \in 1 .. k}
    BY <1>4 DEF ToSet
<1>8. ToSet(Rest(s)) = {s[i + k] : i \in 1 .. Len(s) - k}
    BY <1>4 DEF ToSet
<1>9. ToSet(s) = {s[i] : i \in 1 .. Len(s)}
    BY <1>1 DEF ToSet
<1>10. ASSUME NEW x \in {s[i] : i \in 1 .. Len(s)}
       PROVE  x \in {s[i] : i \in 1 .. k} \cup {s[i + k] : i \in 1 .. Len(s) - k}
    <2>1. PICK i \in 1 .. Len(s) : x = s[i]
        OBVIOUS
    <2>2. CASE i <= k
        <3>1. i \in 1 .. k
            BY <1>1, <1>2, <2>2
        <3> QED
            BY <2>1, <3>1
    <2>3. CASE ~(i <= k)
        <3>1. i - k \in 1 .. Len(s) - k /\ (i - k) + k = i
            BY <1>1, <1>2, <2>3
        <3> QED
            BY <2>1, <3>1
    <2> QED
        BY <2>2, <2>3
<1>11. \A i \in 1 .. k : i \in 1 .. Len(s)
    BY <1>1, <1>2
<1>12. \A i \in 1 .. Len(s) - k : i + k \in 1 .. Len(s)
    BY <1>1, <1>2
<1>13. {s[i] : i \in 1 .. k} \cup {s[i + k] : i \in 1 .. Len(s) - k} \subseteq {s[i] : i \in 1 .. Len(s)}
    BY <1>11, <1>12
<1>14. {s[i] : i \in 1 .. k} \cup {s[i + k] : i \in 1 .. Len(s) - k} = {s[i] : i \in 1 .. Len(s)}
    BY <1>10, <1>13
<1> QED
    BY <1>5, <1>6, <1>7, <1>8, <1>9, <1>14

\* A step of one rebuild that leaves the tables as they are.
LEMMA RebuildMoves ==
    ASSUME MappingInv, NEW b \in DOMAIN Rebuilds, Works(b), NEW new \in RebuildStates,
           UNCHANGED <<importRows, mappings, freshBy>>,
           rebuildAt' = [rebuildAt EXCEPT ![b] = new], new.mixed = rebuildAt[b].mixed,
           ApartBy(Rebuilds[b], new.sources),
           new.at = "upsert" => ToSet(new.todo) \subseteq AllOf(Rebuilds[b], new),
           new.at \in {"targets", "sources", "upsert"} /\ ~new.mixed =>
              IF new.at = "upsert"
              THEN OfKind(Rebuilds[b]) \cup ToSet(new.todo) = AllOf(Rebuilds[b], new)
              ELSE OfKind(Rebuilds[b]) = {}
    PROVE  MappingInv'
<1>1. rebuildAt \in [DOMAIN Rebuilds -> RebuildStates]
    BY DEF MappingInv
<1>2. /\ rebuildAt' \in [DOMAIN Rebuilds -> RebuildStates] /\ rebuildAt'[b] = new
      /\ \A c \in DOMAIN Rebuilds : c # b => rebuildAt'[c] = rebuildAt[c]
    BY <1>1
<1>3. mappings' = mappings /\ freshBy' = freshBy /\ \A m : Refers(m)' = Refers(m)
    BY DEF Refers, Stored
<1>4. \A kind : OfKind(kind)' = OfKind(kind)
    BY <1>3 DEF OfKind
<1>5. \A c \in DOMAIN Rebuilds : Works(c)' => Works(c) /\ rebuildAt'[c].mixed = rebuildAt[c].mixed
    BY <1>2 DEF Works
<1>6. \A c \in DOMAIN Rebuilds : ApartBy(Rebuilds[c], rebuildAt'[c].sources)
    BY <1>2 DEF MappingInv
<1>7. \A c \in DOMAIN Rebuilds : rebuildAt'[c].at = "upsert" =>
          ToSet(rebuildAt'[c].todo) \subseteq AllOf(Rebuilds[c], rebuildAt'[c])
    BY <1>2 DEF MappingInv
<1>8. \A c, d \in DOMAIN Rebuilds :
          Works(c)' /\ ~rebuildAt'[c].mixed /\ Works(d)' /\ Rebuilds[d] = Rebuilds[c] => d = c
    BY <1>5 DEF MappingInv
<1>9. \A c \in DOMAIN Rebuilds : Works(c)' /\ ~rebuildAt'[c].mixed =>
          IF rebuildAt'[c].at = "upsert"
          THEN OfKind(Rebuilds[c]) \cup ToSet(rebuildAt'[c].todo) = AllOf(Rebuilds[c], rebuildAt'[c])
          ELSE OfKind(Rebuilds[c]) = {}
    <2>1. ASSUME NEW c \in DOMAIN Rebuilds, c # b, Works(c)', ~rebuildAt'[c].mixed
          PROVE  IF rebuildAt'[c].at = "upsert"
                 THEN OfKind(Rebuilds[c]) \cup ToSet(rebuildAt'[c].todo) = AllOf(Rebuilds[c], rebuildAt'[c])
                 ELSE OfKind(Rebuilds[c]) = {}
        <3>1. rebuildAt'[c] = rebuildAt[c]
            BY <1>2, <2>1
        <3> QED
            BY <1>5, <2>1, <3>1 DEF MappingInv
    <2>2. Works(b)' => new.at \in {"targets", "sources", "upsert"}
        BY <1>2 DEF Works
    <2> QED
        BY <1>2, <2>1, <2>2
<1>10. \A kind \in {"ean", "name"} : freshBy[kind] # "none" =>
          /\ Rebuilds[freshBy[kind]] = kind /\ rebuildAt'[freshBy[kind]].at = "ended"
          /\ \A c \in DOMAIN Rebuilds : Rebuilds[c] = kind => ~Works(c)'
          /\ OfKind(kind) = AllOf(kind, rebuildAt'[freshBy[kind]])
    <2>1. ASSUME NEW kind \in {"ean", "name"}, freshBy[kind] # "none"
          PROVE  /\ Rebuilds[freshBy[kind]] = kind /\ rebuildAt'[freshBy[kind]].at = "ended"
                 /\ \A c \in DOMAIN Rebuilds : Rebuilds[c] = kind => ~Works(c)'
                 /\ OfKind(kind) = AllOf(kind, rebuildAt'[freshBy[kind]])
        <3>1. /\ Rebuilds[freshBy[kind]] = kind /\ rebuildAt[freshBy[kind]].at = "ended"
              /\ \A c \in DOMAIN Rebuilds : Rebuilds[c] = kind => ~Works(c)
              /\ OfKind(kind) = AllOf(kind, rebuildAt[freshBy[kind]])
              /\ freshBy[kind] \in DOMAIN Rebuilds
            BY <2>1 DEF MappingInv
        <3>2. freshBy[kind] # b
            BY <3>1 DEF Works
        <3>3. rebuildAt'[freshBy[kind]] = rebuildAt[freshBy[kind]]
            BY <1>2, <3>1, <3>2
        <3> QED
            BY <1>5, <3>1, <3>3
    <2> QED
        BY <2>1
<1>11. mappings' \subseteq MappingRows /\ \A m \in mappings' : Refers(m)'
    BY <1>3 DEF MappingInv
<1>12. freshBy' \in [{"ean", "name"} -> DOMAIN Rebuilds \cup {"none"}]
    BY <1>3 DEF MappingInv
<1> QED
    BY <1>2, <1>3, <1>4, <1>6, <1>7, <1>8, <1>9, <1>10, <1>11, <1>12 DEF MappingInv

\* A rebuild that begins finds no row of its kind, and is not the only one if others go on.
LEMMA DeleteKept ==
    ASSUME MappingInv, NEW b \in DOMAIN Rebuilds, DeleteMappings(b)
    PROVE  MappingInv'
<1> DEFINE kind == Rebuilds[b]
           new == [NoRebuild EXCEPT !.at = "targets", !.mixed = Rebuilding(kind) # {}]
<1>1. /\ rebuildAt[b].at = "idle" /\ importRows' = importRows
      /\ mappings' = {m \in mappings : m.kind # kind}
      /\ freshBy' = [freshBy EXCEPT ![kind] = "none"]
      /\ rebuildAt' = [c \in DOMAIN Rebuilds |->
                IF c = b THEN new
                ELSE IF c \in Rebuilding(kind) THEN [rebuildAt[c] EXCEPT !.mixed = TRUE]
                ELSE rebuildAt[c]]
    BY DEF DeleteMappings
<1>2. /\ new \in RebuildStates /\ new.at = "targets" /\ new.sources = <<>> /\ new.mixed = (Rebuilding(kind) # {})
    <2>1. <<>> \in Seq(NamedRows) /\ <<>> \in Seq(SheetRows) /\ <<>> \in Seq(MappingRows)
        OBVIOUS
    <2>2. (Rebuilding(kind) # {}) \in BOOLEAN
        OBVIOUS
    <2> QED
        BY <2>1, <2>2 DEF NoRebuild, RebuildStates
<1> HIDE DEF new
<1>3. \A c \in DOMAIN Rebuilds : c \in Rebuilding(kind) <=> Rebuilds[c] = kind /\ Works(c)
    BY DEF Rebuilding, Works
<1>4. rebuildAt'[b] = new
    BY <1>1
<1>5. ASSUME NEW c \in DOMAIN Rebuilds, c # b
      PROVE  /\ rebuildAt'[c] \in RebuildStates /\ rebuildAt'[c].at = rebuildAt[c].at
             /\ rebuildAt'[c].targets = rebuildAt[c].targets /\ rebuildAt'[c].sources = rebuildAt[c].sources
             /\ rebuildAt'[c].todo = rebuildAt[c].todo
             /\ rebuildAt'[c].mixed = (IF c \in Rebuilding(kind) THEN TRUE ELSE rebuildAt[c].mixed)
    <2>1. rebuildAt[c] \in RebuildStates
        BY DEF MappingInv
    <2>2. rebuildAt'[c] = IF c \in Rebuilding(kind) THEN [rebuildAt[c] EXCEPT !.mixed = TRUE] ELSE rebuildAt[c]
        BY <1>1, <1>5
    <2>3. CASE c \in Rebuilding(kind)
        BY <2>1, <2>2, <2>3 DEF RebuildStates
    <2>4. CASE c \notin Rebuilding(kind)
        BY <2>1, <2>2, <2>4
    <2> QED
        BY <2>3, <2>4
<1>6. rebuildAt' \in [DOMAIN Rebuilds -> RebuildStates]
    BY <1>1, <1>2, <1>4, <1>5
<1>7. kind \in {"ean", "name"}
    BY KindOf
<1>8. \A other \in {"ean", "name"} : OfKind(other)' = IF other = kind THEN {} ELSE OfKind(other)
    BY <1>1 DEF OfKind
<1>9. mappings' \subseteq MappingRows /\ \A m \in mappings' : Refers(m)'
    <2>1. \A m : Refers(m)' = Refers(m)
        BY <1>1 DEF Refers, Stored
    <2> QED
        BY <1>1, <2>1 DEF MappingInv
<1>10. \A c \in DOMAIN Rebuilds : ApartBy(Rebuilds[c], rebuildAt'[c].sources)
    <2>1. ApartBy(Rebuilds[b], rebuildAt'[b].sources)
        BY <1>2, <1>4 DEF ApartBy
    <2> QED
        BY <1>5, <2>1 DEF MappingInv
<1>11. \A c \in DOMAIN Rebuilds : rebuildAt'[c].at = "upsert" =>
          ToSet(rebuildAt'[c].todo) \subseteq AllOf(Rebuilds[c], rebuildAt'[c])
    <2>1. rebuildAt'[b].at # "upsert"
        BY <1>2, <1>4
    <2> QED
        BY <1>5, <2>1 DEF MappingInv, AllOf
<1>12. \A c \in DOMAIN Rebuilds : c # b => (Works(c)' <=> Works(c))
    BY <1>5 DEF Works
<1>13. \A c \in DOMAIN Rebuilds : c # b /\ Works(c)' /\ ~rebuildAt'[c].mixed =>
          Rebuilds[c] # kind /\ ~rebuildAt[c].mixed /\ Works(c)
    BY <1>3, <1>5, <1>12
<1>14. ~rebuildAt'[b].mixed => \A c \in DOMAIN Rebuilds : c # b /\ Rebuilds[c] = kind => ~Works(c)'
    BY <1>2, <1>3, <1>4, <1>12
<1>15. \A c, d \in DOMAIN Rebuilds :
          Works(c)' /\ ~rebuildAt'[c].mixed /\ Works(d)' /\ Rebuilds[d] = Rebuilds[c] => d = c
    <2>1. ASSUME NEW c \in DOMAIN Rebuilds, NEW d \in DOMAIN Rebuilds,
                 Works(c)', ~rebuildAt'[c].mixed, Works(d)', Rebuilds[d] = Rebuilds[c]
          PROVE  d = c
        <3>1. CASE c = b
            BY <1>14, <2>1, <3>1
        <3>2. CASE c # b
            <4>1. Rebuilds[c] # kind /\ ~rebuildAt[c].mixed /\ Works(c)
                BY <1>13, <2>1, <3>2
            <4>2. d # b /\ Works(d)
                BY <1>12, <2>1, <4>1
            <4> QED
                BY <2>1, <4>1, <4>2 DEF MappingInv
        <3> QED
            BY <3>1, <3>2
    <2> QED
        BY <2>1
<1>16. \A c \in DOMAIN Rebuilds : Works(c)' /\ ~rebuildAt'[c].mixed =>
          IF rebuildAt'[c].at = "upsert"
          THEN OfKind(Rebuilds[c])' \cup ToSet(rebuildAt'[c].todo) = AllOf(Rebuilds[c], rebuildAt'[c])
          ELSE OfKind(Rebuilds[c])' = {}
    <2>1. ASSUME NEW c \in DOMAIN Rebuilds, Works(c)', ~rebuildAt'[c].mixed
          PROVE  IF rebuildAt'[c].at = "upsert"
                 THEN OfKind(Rebuilds[c])' \cup ToSet(rebuildAt'[c].todo) = AllOf(Rebuilds[c], rebuildAt'[c])
                 ELSE OfKind(Rebuilds[c])' = {}
        <3>1. CASE c = b
            <4>1. rebuildAt'[c].at = "targets"
                BY <1>2, <1>4, <3>1
            <4> QED
                BY <1>7, <1>8, <3>1, <4>1
        <3>2. CASE c # b
            <4>1. Rebuilds[c] # kind /\ ~rebuildAt[c].mixed /\ Works(c)
                BY <1>13, <2>1, <3>2
            <4>2. OfKind(Rebuilds[c])' = OfKind(Rebuilds[c])
                BY <1>8, <4>1, KindOf
            <4>3. IF rebuildAt[c].at = "upsert"
                  THEN OfKind(Rebuilds[c]) \cup ToSet(rebuildAt[c].todo) = AllOf(Rebuilds[c], rebuildAt[c])
                  ELSE OfKind(Rebuilds[c]) = {}
                BY <4>1 DEF MappingInv
            <4>4. AllOf(Rebuilds[c], rebuildAt'[c]) = AllOf(Rebuilds[c], rebuildAt[c])
                BY <1>5, <3>2 DEF AllOf
            <4> QED
                BY <1>5, <3>2, <4>2, <4>3, <4>4
        <3> QED
            BY <3>1, <3>2
    <2> QED
        BY <2>1
<1>17. freshBy \in [{"ean", "name"} -> DOMAIN Rebuilds \cup {"none"}]
    BY DEF MappingInv
<1>18. freshBy' \in [{"ean", "name"} -> DOMAIN Rebuilds \cup {"none"}]
       /\ freshBy'[kind] = "none" /\ \A other \in {"ean", "name"} : other # kind => freshBy'[other] = freshBy[other]
    BY <1>1, <1>7, <1>17
<1>19. \A other \in {"ean", "name"} : freshBy'[other] # "none" =>
          /\ Rebuilds[freshBy'[other]] = other /\ rebuildAt'[freshBy'[other]].at = "ended"
          /\ \A c \in DOMAIN Rebuilds : Rebuilds[c] = other => ~Works(c)'
          /\ OfKind(other)' = AllOf(other, rebuildAt'[freshBy'[other]])
    <2>1. ASSUME NEW other \in {"ean", "name"}, freshBy'[other] # "none"
          PROVE  /\ Rebuilds[freshBy'[other]] = other /\ rebuildAt'[freshBy'[other]].at = "ended"
                 /\ \A c \in DOMAIN Rebuilds : Rebuilds[c] = other => ~Works(c)'
                 /\ OfKind(other)' = AllOf(other, rebuildAt'[freshBy'[other]])
        <3> DEFINE d == freshBy[other]
        <3>1. other # kind /\ freshBy'[other] = d /\ d # "none"
            BY <1>18, <2>1
        <3>2. /\ d \in DOMAIN Rebuilds
              /\ Rebuilds[d] = other /\ rebuildAt[d].at = "ended"
              /\ \A c \in DOMAIN Rebuilds : Rebuilds[c] = other => ~Works(c)
              /\ OfKind(other) = AllOf(other, rebuildAt[d])
            BY <3>1 DEF MappingInv
        <3> HIDE DEF d
        <3>3. d # b
            BY <3>1, <3>2
        <3>4. AllOf(other, rebuildAt'[d]) = AllOf(other, rebuildAt[d])
            BY <1>5, <3>2, <3>3 DEF AllOf
        <3>5. \A c \in DOMAIN Rebuilds : Rebuilds[c] = other => ~Works(c)'
            BY <1>12, <3>1, <3>2
        <3> QED
            BY <1>5, <1>8, <3>1, <3>2, <3>3, <3>4, <3>5
    <2> QED
        BY <2>1
<1> QED
    BY <1>6, <1>9, <1>10, <1>11, <1>15, <1>16, <1>18, <1>19 DEF MappingInv

LEMMA ReadTargetsKept ==
    ASSUME RowsInv, MappingInv, NEW b \in DOMAIN Rebuilds, ReadTargets(b)
    PROVE  MappingInv'
<1> DEFINE valid == ValidRows("xl")
           places == {n \in DOMAIN valid : Usable(Rebuilds[b], valid[n])}
           new == [rebuildAt[b] EXCEPT !.at = "sources", !.targets = Picked(valid, places)]
<1>1. /\ rebuildAt[b].at = "targets"
      /\ rebuildAt' = [rebuildAt EXCEPT ![b] = new]
      /\ UNCHANGED <<importRows, mappings, freshBy>>
    BY DEF ReadTargets
<1>2. rebuildAt[b] \in RebuildStates /\ Works(b)
    BY <1>1 DEF MappingInv, Works
<1>3. valid \in Seq(SheetRows)
    BY ValidAre
<1>4. \A n \in places : valid[n] \in NamedRows
    <2>1. \A n \in DOMAIN valid : valid[n] \in SheetRows
        BY <1>3, LenProperties
    <2> HIDE DEF valid
    <2> QED
        BY <2>1 DEF Usable, NamedRows, SheetRows, Names
<1>5. places \in SUBSET DOMAIN valid
    OBVIOUS
<1> HIDE DEF places, valid
<1>6. Picked(valid, places) \in Seq(NamedRows)
    <2>1. /\ Cardinality(places) \in Nat
          /\ \A i \in 1 .. Cardinality(places) : Nth(places, i) \in places
        BY <1>3, <1>5, PickedIs
    <2>2. Picked(valid, places) \in [1 .. Cardinality(places) -> NamedRows]
        BY <1>4, <2>1 DEF Picked
    <2> QED
        BY <2>1, <2>2, SequenceOf
<1>7. /\ new \in RebuildStates /\ new.at = "sources" /\ new.mixed = rebuildAt[b].mixed
      /\ new.sources = rebuildAt[b].sources
    BY <1>2, <1>6 DEF RebuildStates
<1> HIDE DEF new
<1>8. ApartBy(Rebuilds[b], new.sources)
    BY <1>7 DEF MappingInv
<1>9. ~new.mixed => OfKind(Rebuilds[b]) = {}
    BY <1>1, <1>2, <1>7 DEF MappingInv
<1> QED
    BY <1>1, <1>2, <1>7, <1>8, <1>9, RebuildMoves

LEMMA ReadSourcesKept ==
    ASSUME RowsInv, MappingInv, NEW b \in DOMAIN Rebuilds, ReadSources(b)
    PROVE  MappingInv'
<1> DEFINE kind == Rebuilds[b]
           rows == FirstOfEach(kind, ValidRows("jv"))
           todo == Payloads(kind, rows, rebuildAt[b].targets)
           new == [rebuildAt[b] EXCEPT !.at = "upsert", !.sources = rows, !.todo = todo]
<1>1. /\ rebuildAt[b].at = "sources"
      /\ rebuildAt' = [rebuildAt EXCEPT ![b] = new]
      /\ UNCHANGED <<importRows, mappings, freshBy>>
    BY DEF ReadSources
<1>2. rebuildAt[b] \in RebuildStates /\ Works(b)
    BY <1>1 DEF MappingInv, Works
<1>3. rows \in Seq(SheetRows) /\ ApartBy(kind, rows)
    <2>1. /\ ValidRows("jv") \in Seq(SheetRows)
          /\ \A m, n \in DOMAIN ValidRows("jv") : ValidRows("jv")[m].id = ValidRows("jv")[n].id => m = n
        BY ValidAre
    <2> QED
        BY <2>1, FirstAreApart
<1>4. rebuildAt[b].targets \in Seq(NamedRows) /\ kind \in {"ean", "name"}
    BY <1>2, KindOf DEF RebuildStates
<1> HIDE DEF rows
<1>5. todo \in Seq(MappingRows)
    BY <1>3, <1>4, PayloadsAre
<1> HIDE DEF todo
<1>6. /\ new \in RebuildStates /\ new.at = "upsert" /\ new.mixed = rebuildAt[b].mixed
      /\ new.sources = rows /\ new.todo = todo /\ new.targets = rebuildAt[b].targets
    BY <1>2, <1>3, <1>5 DEF RebuildStates
<1> HIDE DEF new
<1>7. ToSet(new.todo) = AllOf(kind, new)
    BY <1>6 DEF AllOf, todo
<1>8. ~new.mixed => OfKind(kind) = {}
    BY <1>1, <1>2, <1>6 DEF MappingInv
<1>9. ApartBy(kind, new.sources)
    BY <1>3, <1>6
<1> QED
    BY <1>1, <1>2, <1>6, <1>7, <1>8, <1>9, RebuildMoves

\* A rebuild that stops.
LEMMA RebuildStops ==
    ASSUME MappingInv, NEW b \in DOMAIN Rebuilds, rebuildAt[b].at = "upsert", NEW place \in {"killed", "raised"},
           rebuildAt' = [rebuildAt EXCEPT ![b].at = place], UNCHANGED <<importRows, mappings, freshBy>>
    PROVE  MappingInv'
<1> DEFINE new == [rebuildAt[b] EXCEPT !.at = place]
<1>1. rebuildAt[b] \in RebuildStates /\ Works(b) /\ rebuildAt' = [rebuildAt EXCEPT ![b] = new]
    BY DEF MappingInv, Works
<1>2. new \in RebuildStates /\ new.at = place /\ new.mixed = rebuildAt[b].mixed /\ new.sources = rebuildAt[b].sources
    BY <1>1 DEF RebuildStates
<1> HIDE DEF new
<1>3. ApartBy(Rebuilds[b], new.sources)
    BY <1>2 DEF MappingInv
<1> QED
    BY <1>1, <1>2, <1>3, RebuildMoves

LEMMA WrittenKept ==
    ASSUME MappingInv, NEW b \in DOMAIN Rebuilds, rebuildAt[b].at = "upsert",
           UNCHANGED <<importRows, freshBy>>,
           \A m \in ToSet(Batch(rebuildAt[b].todo)) : Refers(m),
           mappings' = {m \in mappings : m.kind # Rebuilds[b] \/
                                         \A n \in ToSet(Batch(rebuildAt[b].todo)) : m.key # n.key}
                           \cup ToSet(Batch(rebuildAt[b].todo)),
           rebuildAt' = [rebuildAt EXCEPT ![b].todo = Rest(@)]
    PROVE  MappingInv'
<1> DEFINE kind == Rebuilds[b]
           todo == rebuildAt[b].todo
           batch == ToSet(Batch(todo))
           new == [rebuildAt[b] EXCEPT !.todo = Rest(todo)]
           all == AllOf(kind, rebuildAt[b])
<1>1. rebuildAt[b] \in RebuildStates /\ Works(b) /\ kind \in {"ean", "name"}
    BY KindOf DEF MappingInv, Works
<1>2. todo \in Seq(MappingRows) /\ ToSet(todo) \subseteq all
    BY <1>1 DEF RebuildStates, MappingInv
<1> HIDE DEF todo
<1>3. /\ Batch(todo) \in Seq(MappingRows) /\ Rest(todo) \in Seq(MappingRows)
      /\ batch \cup ToSet(Rest(todo)) = ToSet(todo)
    BY <1>2, BatchOf
<1>4. batch \subseteq MappingRows
    BY <1>3, ToSetIs
<1>5. /\ \A m \in all : m.kind = kind
      /\ \A x, y \in all : x.key = y.key => x = y
    <2>1. /\ rebuildAt[b].sources \in Seq(SheetRows) /\ rebuildAt[b].targets \in Seq(NamedRows)
          /\ ApartBy(kind, rebuildAt[b].sources)
        BY <1>1 DEF RebuildStates, MappingInv
    <2> QED
        BY <1>1, <2>1, PayloadsAre, PayloadsApart DEF AllOf
<1>6. batch \subseteq all /\ \A m \in batch : m.kind = kind
    BY <1>2, <1>3, <1>5
<1>7. /\ new \in RebuildStates /\ new.at = "upsert" /\ new.mixed = rebuildAt[b].mixed
      /\ new.sources = rebuildAt[b].sources /\ new.targets = rebuildAt[b].targets /\ new.todo = Rest(todo)
    BY <1>1, <1>3 DEF RebuildStates
<1>8. rebuildAt' = [rebuildAt EXCEPT ![b] = new]
    BY DEF todo
<1>9. /\ rebuildAt' \in [DOMAIN Rebuilds -> RebuildStates] /\ rebuildAt'[b] = new
      /\ \A c \in DOMAIN Rebuilds : c # b => rebuildAt'[c] = rebuildAt[c]
    BY <1>7, <1>8 DEF MappingInv
<1>10. mappings' = {m \in mappings : m.kind # kind \/ \A n \in batch : m.key # n.key} \cup batch
    BY DEF todo
<1>11. \A m : Refers(m)' = Refers(m)
    BY DEF Refers, Stored
<1>12. mappings' \subseteq MappingRows /\ \A m \in mappings' : Refers(m)'
    <2>1. \A m \in batch : Refers(m)
        BY DEF todo
    <2>2. mappings \subseteq MappingRows /\ \A m \in mappings : Refers(m)
        BY DEF MappingInv
    <2> HIDE DEF batch
    <2> QED
        BY <1>4, <1>10, <1>11, <2>1, <2>2
<1> HIDE DEF new, batch, all
<1>13. \A other \in {"ean", "name"} : other # kind => OfKind(other)' = OfKind(other)
    BY <1>6, <1>10 DEF OfKind
<1>14. OfKind(kind)' = {m \in OfKind(kind) : \A n \in batch : m.key # n.key} \cup batch
    BY <1>6, <1>10 DEF OfKind
<1>15. AllOf(kind, new) = all
    BY <1>7 DEF AllOf, all
<1>16. ToSet(new.todo) \subseteq all
    BY <1>2, <1>3, <1>7
<1>17. ~new.mixed => OfKind(kind)' \cup ToSet(new.todo) = all
    <2>1. ASSUME ~new.mixed PROVE OfKind(kind)' \cup ToSet(new.todo) = all
        <3>1. OfKind(kind) \cup ToSet(todo) = all
            BY <1>1, <1>7, <2>1 DEF MappingInv, all, todo
        <3>2. \A m \in OfKind(kind) : m \in batch \/ \A n \in batch : m.key # n.key
            BY <1>5, <1>6, <3>1
        <3> QED
            BY <1>3, <1>6, <1>7, <1>14, <3>1, <3>2
    <2> QED
        BY <2>1
<1>18. \A c \in DOMAIN Rebuilds : Works(c)' <=> Works(c)
    BY <1>1, <1>7, <1>9 DEF Works
<1>19. \A c \in DOMAIN Rebuilds : rebuildAt'[c].mixed = rebuildAt[c].mixed
    BY <1>7, <1>9
<1>20. \A c \in DOMAIN Rebuilds : ApartBy(Rebuilds[c], rebuildAt'[c].sources)
    BY <1>7, <1>9 DEF MappingInv
<1>21. \A c \in DOMAIN Rebuilds : rebuildAt'[c].at = "upsert" =>
          ToSet(rebuildAt'[c].todo) \subseteq AllOf(Rebuilds[c], rebuildAt'[c])
    BY <1>9, <1>15, <1>16 DEF MappingInv
<1>22. \A c, d \in DOMAIN Rebuilds :
          Works(c)' /\ ~rebuildAt'[c].mixed /\ Works(d)' /\ Rebuilds[d] = Rebuilds[c] => d = c
    BY <1>18, <1>19 DEF MappingInv
<1>23. \A c \in DOMAIN Rebuilds : Works(c)' /\ ~rebuildAt'[c].mixed =>
          IF rebuildAt'[c].at = "upsert"
          THEN OfKind(Rebuilds[c])' \cup ToSet(rebuildAt'[c].todo) = AllOf(Rebuilds[c], rebuildAt'[c])
          ELSE OfKind(Rebuilds[c])' = {}
    <2>1. ASSUME NEW c \in DOMAIN Rebuilds, Works(c)', ~rebuildAt'[c].mixed
          PROVE  IF rebuildAt'[c].at = "upsert"
                 THEN OfKind(Rebuilds[c])' \cup ToSet(rebuildAt'[c].todo) = AllOf(Rebuilds[c], rebuildAt'[c])
                 ELSE OfKind(Rebuilds[c])' = {}
        <3>1. CASE c = b
            BY <1>7, <1>9, <1>15, <1>17, <2>1, <3>1
        <3>2. CASE c # b
            <4>1. Works(c) /\ ~rebuildAt[c].mixed
                BY <1>18, <1>19, <2>1
            <4>2. Rebuilds[c] # kind
                BY <1>1, <3>2, <4>1 DEF MappingInv
            <4>3. OfKind(Rebuilds[c])' = OfKind(Rebuilds[c])
                BY <1>13, <4>2, KindOf
            <4>4. rebuildAt'[c] = rebuildAt[c]
                BY <1>9, <3>2
            <4>5. IF rebuildAt[c].at = "upsert"
                  THEN OfKind(Rebuilds[c]) \cup ToSet(rebuildAt[c].todo) = AllOf(Rebuilds[c], rebuildAt[c])
                  ELSE OfKind(Rebuilds[c]) = {}
                BY <4>1 DEF MappingInv
            <4> QED
                BY <4>3, <4>4, <4>5
        <3> QED
            BY <3>1, <3>2
    <2> QED
        BY <2>1
<1>24. freshBy' = freshBy /\ freshBy \in [{"ean", "name"} -> DOMAIN Rebuilds \cup {"none"}]
    BY DEF MappingInv
<1>25. \A other \in {"ean", "name"} : freshBy[other] # "none" =>
          /\ Rebuilds[freshBy[other]] = other /\ rebuildAt'[freshBy[other]].at = "ended"
          /\ \A c \in DOMAIN Rebuilds : Rebuilds[c] = other => ~Works(c)'
          /\ OfKind(other)' = AllOf(other, rebuildAt'[freshBy[other]])
    <2>1. ASSUME NEW other \in {"ean", "name"}, freshBy[other] # "none"
          PROVE  /\ Rebuilds[freshBy[other]] = other /\ rebuildAt'[freshBy[other]].at = "ended"
                 /\ \A c \in DOMAIN Rebuilds : Rebuilds[c] = other => ~Works(c)'
                 /\ OfKind(other)' = AllOf(other, rebuildAt'[freshBy[other]])
        <3> DEFINE d == freshBy[other]
        <3>1. /\ d \in DOMAIN Rebuilds
              /\ Rebuilds[d] = other /\ rebuildAt[d].at = "ended"
              /\ \A c \in DOMAIN Rebuilds : Rebuilds[c] = other => ~Works(c)
              /\ OfKind(other) = AllOf(other, rebuildAt[d])
            BY <2>1 DEF MappingInv
        <3> HIDE DEF d
        <3>2. other # kind /\ d # b
            BY <1>1, <3>1 DEF Works
        <3> QED
            BY <1>9, <1>13, <1>18, <3>1, <3>2 DEF d
    <2> QED
        BY <2>1
<1> QED
    BY <1>9, <1>12, <1>20, <1>21, <1>22, <1>23, <1>24, <1>25 DEF MappingInv

LEMMA EndKept ==
    ASSUME MappingInv, NEW b \in DOMAIN Rebuilds, rebuildAt[b].at = "upsert", rebuildAt[b].todo = <<>>,
           UNCHANGED <<importRows, mappings>>,
           rebuildAt' = [rebuildAt EXCEPT ![b].at = "ended"],
           freshBy' = [freshBy EXCEPT ![Rebuilds[b]] = IF rebuildAt[b].mixed THEN "none" ELSE b]
    PROVE  MappingInv'
<1> DEFINE kind == Rebuilds[b]
           new == [rebuildAt[b] EXCEPT !.at = "ended"]
<1>1. rebuildAt[b] \in RebuildStates /\ Works(b) /\ kind \in {"ean", "name"}
    BY KindOf DEF MappingInv, Works
<1>2. /\ new \in RebuildStates /\ new.at = "ended" /\ new.mixed = rebuildAt[b].mixed
      /\ new.sources = rebuildAt[b].sources /\ new.targets = rebuildAt[b].targets
    BY <1>1 DEF RebuildStates
<1>3. rebuildAt' = [rebuildAt EXCEPT ![b] = new]
    OBVIOUS
<1>4. /\ rebuildAt' \in [DOMAIN Rebuilds -> RebuildStates] /\ rebuildAt'[b] = new
      /\ \A c \in DOMAIN Rebuilds : c # b => rebuildAt'[c] = rebuildAt[c]
    BY <1>2, <1>3 DEF MappingInv
<1> HIDE DEF new
<1>5. /\ \A m : Refers(m)' = Refers(m)
      /\ \A other : OfKind(other)' = OfKind(other)
    BY DEF Refers, Stored, OfKind
<1>6. mappings' \subseteq MappingRows /\ \A m \in mappings' : Refers(m)'
    BY <1>5 DEF MappingInv
<1>7. \A c \in DOMAIN Rebuilds : Works(c)' <=> c # b /\ Works(c)
    BY <1>2, <1>4 DEF Works
<1>8. \A c \in DOMAIN Rebuilds : ApartBy(Rebuilds[c], rebuildAt'[c].sources)
    BY <1>2, <1>4 DEF MappingInv
<1>9. \A c \in DOMAIN Rebuilds : rebuildAt'[c].at = "upsert" =>
          ToSet(rebuildAt'[c].todo) \subseteq AllOf(Rebuilds[c], rebuildAt'[c])
    BY <1>2, <1>4 DEF MappingInv
<1>10. \A c, d \in DOMAIN Rebuilds :
          Works(c)' /\ ~rebuildAt'[c].mixed /\ Works(d)' /\ Rebuilds[d] = Rebuilds[c] => d = c
    BY <1>4, <1>7 DEF MappingInv
<1>11. \A c \in DOMAIN Rebuilds : Works(c)' /\ ~rebuildAt'[c].mixed =>
          IF rebuildAt'[c].at = "upsert"
          THEN OfKind(Rebuilds[c])' \cup ToSet(rebuildAt'[c].todo) = AllOf(Rebuilds[c], rebuildAt'[c])
          ELSE OfKind(Rebuilds[c])' = {}
    BY <1>4, <1>5, <1>7 DEF MappingInv
<1>12. freshBy \in [{"ean", "name"} -> DOMAIN Rebuilds \cup {"none"}]
    BY DEF MappingInv
<1>13. /\ freshBy' \in [{"ean", "name"} -> DOMAIN Rebuilds \cup {"none"}]
       /\ freshBy'[kind] = IF rebuildAt[b].mixed THEN "none" ELSE b
       /\ \A other \in {"ean", "name"} : other # kind => freshBy'[other] = freshBy[other]
    BY <1>1, <1>12
<1>14. \A other \in {"ean", "name"} : freshBy'[other] # "none" =>
          /\ Rebuilds[freshBy'[other]] = other /\ rebuildAt'[freshBy'[other]].at = "ended"
          /\ \A c \in DOMAIN Rebuilds : Rebuilds[c] = other => ~Works(c)'
          /\ OfKind(other)' = AllOf(other, rebuildAt'[freshBy'[other]])
    <2>1. ASSUME NEW other \in {"ean", "name"}, freshBy'[other] # "none"
          PROVE  /\ Rebuilds[freshBy'[other]] = other /\ rebuildAt'[freshBy'[other]].at = "ended"
                 /\ \A c \in DOMAIN Rebuilds : Rebuilds[c] = other => ~Works(c)'
                 /\ OfKind(other)' = AllOf(other, rebuildAt'[freshBy'[other]])
        <3>1. CASE other = kind
            <4>1. ~rebuildAt[b].mixed /\ freshBy'[other] = b
                BY <1>13, <2>1, <3>1
            <4>2. OfKind(kind) \cup ToSet(<<>>) = AllOf(kind, rebuildAt[b])
                BY <1>1, <4>1 DEF MappingInv
            <4>3. ToSet(<<>>) = {}
                BY DEF ToSet
            <4>4. AllOf(kind, new) = AllOf(kind, rebuildAt[b])
                BY <1>2 DEF AllOf
            <4>5. \A c \in DOMAIN Rebuilds : Rebuilds[c] = kind => ~Works(c)'
                BY <1>1, <1>7, <4>1 DEF MappingInv
            <4> QED
                BY <1>2, <1>4, <1>5, <3>1, <4>1, <4>2, <4>3, <4>4, <4>5
        <3>2. CASE other # kind
            <4> DEFINE d == freshBy[other]
            <4>1. freshBy'[other] = d /\ d # "none"
                BY <1>13, <2>1, <3>2
            <4>2. /\ d \in DOMAIN Rebuilds
                  /\ Rebuilds[d] = other /\ rebuildAt[d].at = "ended"
                  /\ \A c \in DOMAIN Rebuilds : Rebuilds[c] = other => ~Works(c)
                  /\ OfKind(other) = AllOf(other, rebuildAt[d])
                BY <4>1 DEF MappingInv
            <4> HIDE DEF d
            <4>3. d # b
                BY <3>2, <4>2
            <4> QED
                BY <1>4, <1>5, <1>7, <4>1, <4>2, <4>3
        <3> QED
            BY <3>1, <3>2
    <2> QED
        BY <2>1
<1> QED
    BY <1>4, <1>6, <1>8, <1>9, <1>10, <1>11, <1>13, <1>14 DEF MappingInv

LEMMA UpsertKept ==
    ASSUME MappingInv, NEW b \in DOMAIN Rebuilds, UpsertMappings(b)
    PROVE  MappingInv'
<1>1. rebuildAt[b].at = "upsert" /\ importRows' = importRows
    BY DEF UpsertMappings
<1>2. CASE rebuildAt[b].todo = <<>>
    <2>1. /\ rebuildAt' = [rebuildAt EXCEPT ![b].at = "ended"]
          /\ freshBy' = [freshBy EXCEPT ![Rebuilds[b]] = IF rebuildAt[b].mixed THEN "none" ELSE b]
          /\ mappings' = mappings
        BY <1>2 DEF UpsertMappings, IsDone
    <2> QED
        BY <1>1, <1>2, <2>1, EndKept
<1>3. CASE rebuildAt[b].todo # <<>> /\ \A m \in ToSet(Batch(rebuildAt[b].todo)) : Refers(m)
    <2>1. /\ mappings' = {m \in mappings : m.kind # Rebuilds[b] \/
                                           \A n \in ToSet(Batch(rebuildAt[b].todo)) : m.key # n.key}
                             \cup ToSet(Batch(rebuildAt[b].todo))
          /\ rebuildAt' = [rebuildAt EXCEPT ![b].todo = Rest(@)]
          /\ freshBy' = freshBy
        BY <1>3 DEF UpsertMappings, IsDone
    <2> QED
        BY <1>1, <1>3, <2>1, WrittenKept
<1>4. CASE rebuildAt[b].todo # <<>> /\ ~(\A m \in ToSet(Batch(rebuildAt[b].todo)) : Refers(m))
    <2>1. rebuildAt' = [rebuildAt EXCEPT ![b].at = "raised"] /\ UNCHANGED <<mappings, freshBy>>
        BY <1>4 DEF UpsertMappings, IsDone
    <2> QED
        BY <1>1, <2>1, RebuildStops
<1> QED
    BY <1>2, <1>3, <1>4

LEMMA MappingInvKept ==
    ASSUME RowsInv, enrichAt \in EnrichStates, MappingInv, SheetAct
    PROVE  MappingInv'
<1>1. CASE \E i \in DOMAIN ImportRuns : ReplaceRows(i)
    BY <1>1, ReplaceKept
<1>2. CASE UNCHANGED <<mappings, rebuildAt, freshBy>> /\ \A i \in DOMAIN ImportRuns : ~ReplaceRows(i)
    BY <1>2, StoredStays, MappingSame
<1>3. CASE \E b \in DOMAIN Rebuilds : RebuildStep(b)
    <2>1. PICK b \in DOMAIN Rebuilds : RebuildStep(b)
        BY <1>3
    <2>2. CASE RebuildKilled(b)
        <3>1. rebuildAt[b].at = "upsert" /\ rebuildAt' = [rebuildAt EXCEPT ![b].at = "killed"]
              /\ UNCHANGED <<importRows, mappings, freshBy>>
            BY <2>2 DEF RebuildKilled
        <3> QED
            BY <3>1, RebuildStops
    <2> QED
        BY <2>1, <2>2, DeleteKept, ReadTargetsKept, ReadSourcesKept, UpsertKept DEF RebuildStep
<1> QED
    BY <1>1, <1>2, <1>3
       DEF SheetAct, ImportStep, KeepRows, UpsertSheetRows, ImportKilled, EnrichStep, BeginEnrichment,
           FetchNames, ApiIsBusy, CopyStep, ReadSheet, UpsertProducts

\* The products of a page are those that its page adds.
LEMMA ListedGrows ==
    ASSUME NEW p \in Nat \ {0}, p <= Len(ApiPages), IsFiniteSet(Listed(p - 1))
    PROVE  /\ IsFiniteSet(Listed(p)) /\ Cardinality(Listed(p)) = Cardinality(Listed(p - 1)) + Len(ApiPages[p])
           /\ Cardinality(Listed(p - 1)) \in Nat
<1> DEFINE k == Len(ApiPages[p])
           page == {<<p, n>> : n \in 1 .. k}
           f == [n \in 1 .. k |-> <<p, n>>]
           before == Listed(p - 1)
<1>1. p \in DOMAIN ApiPages /\ k \in Nat /\ DOMAIN ApiPages[p] = 1 .. k
    BY PagesTypedAre
<1>2. \A q \in 1 .. p : q = p \/ q \in 1 .. p - 1
    OBVIOUS
<1>3. \A q \in 1 .. p - 1 : q \in 1 .. p /\ q # p
    OBVIOUS
<1>4. p \in 1 .. p
    OBVIOUS
<1>5. Listed(p) = before \cup page
    <2>1. Listed(p) = UNION {{<<q, n>> : n \in DOMAIN ApiPages[q]} : q \in 1 .. p}
        BY DEF Listed
    <2>2. before = UNION {{<<q, n>> : n \in DOMAIN ApiPages[q]} : q \in 1 .. p - 1}
        BY DEF Listed
    <2>3. page = {<<p, n>> : n \in DOMAIN ApiPages[p]}
        BY <1>1
    <2>4. \A x : x \in Listed(p) <=> x \in before \/ x \in page
        <3> HIDE DEF page, before
        <3> QED
            BY <1>2, <1>3, <1>4, <2>1, <2>2, <2>3
    <2> QED
        BY <2>4
<1>6. before \cap page = {}
    <2>1. \A x \in before : \E q \in 1 .. p - 1 : \E n : x = <<q, n>>
        BY DEF Listed
    <2>2. \A x \in page : \E n : x = <<p, n>>
        OBVIOUS
    <2> HIDE DEF before, page
    <2>3. ASSUME NEW x \in before, x \in page PROVE FALSE
        <3>1. PICK q \in 1 .. p - 1 : \E n : x = <<q, n>>
            BY <2>1
        <3>2. PICK n : x = <<q, n>>
            BY <3>1
        <3>3. PICK m : x = <<p, m>>
            BY <2>2, <2>3
        <3>4. q = p
            BY <3>2, <3>3
        <3> QED
            BY <1>3, <3>1, <3>4
    <2> QED
        BY <2>3
<1>7. IsFiniteSet(1 .. k) /\ Cardinality(1 .. k) = k
    <2>1. 1 \in Int /\ k \in Int
        BY <1>1
    <2>2. IsFiniteSet(1 .. k) /\ Cardinality(1 .. k) = IF 1 > k THEN 0 ELSE k - 1 + 1
        BY <2>1, FS_Interval
    <2> HIDE DEF k
    <2> QED
        BY <1>1, <2>2
<1> HIDE DEF k
<1>8. f \in Bijection(1 .. k, page)
    <2>1. f \in [1 .. k -> page] /\ \A x \in page : \E n \in 1 .. k : f[n] = x
        OBVIOUS
    <2>2. \A m, n \in 1 .. k : f[m] = f[n] => m = n
        OBVIOUS
    <2> QED
        BY <2>1, <2>2 DEF Bijection, Injection, Surjection, IsInjective
<1> HIDE DEF f, page, before
<1>9. IsFiniteSet(page) /\ Cardinality(page) = k
    <2>1. ExistsBijection(1 .. k, page)
        BY <1>8 DEF ExistsBijection
    <2> QED
        BY <1>7, <2>1, FS_Bijection
<1>10. IsFiniteSet(before) /\ Cardinality(before) \in Nat
    BY FS_CardinalityType DEF before
<1>11. IsFiniteSet(before \cup page) /\ Cardinality(before \cup page) = Cardinality(before) + Cardinality(page)
    <2>1. Cardinality(before \cup page) = Cardinality(before) + Cardinality(page) - Cardinality(before \cap page)
        BY <1>9, <1>10, FS_Union
    <2>2. Cardinality(before \cap page) = 0
        BY <1>6, FS_EmptySet
    <2>3. IsFiniteSet(before \cup page)
        BY <1>9, <1>10, FS_Union
    <2> QED
        BY <1>1, <1>9, <1>10, <2>1, <2>2, <2>3
<1> QED
    BY <1>5, <1>9, <1>10, <1>11 DEF before, k

LEMMA ListedStarts == Listed(0) = {} /\ IsFiniteSet(Listed(0)) /\ Cardinality(Listed(0)) = 0
<1>1. 1 .. 0 = {}
    OBVIOUS
<1>2. Listed(0) = {}
    BY <1>1 DEF Listed
<1> QED
    BY <1>2, FS_EmptySet

LEMMA ListedAreFinite == \A p \in Nat : p <= Len(ApiPages) => IsFiniteSet(Listed(p))
<1> DEFINE T == {p \in Nat : p <= Len(ApiPages) /\ ~IsFiniteSet(Listed(p))}
<1>1. ASSUME T # {} PROVE FALSE
    <2>1. PICK p \in T : \A q \in T : p <= q
        <3>1. T \in SUBSET Nat
            OBVIOUS
        <3> HIDE DEF T
        <3> QED
            BY <1>1, <3>1, LeastOf
    <2>2. p \in Nat /\ p <= Len(ApiPages) /\ ~IsFiniteSet(Listed(p))
        BY <2>1
    <2>3. p # 0
        BY <2>2, ListedStarts
    <2>4. p - 1 \in Nat /\ p - 1 <= Len(ApiPages) /\ ~(p <= p - 1)
        BY <2>2, <2>3, PagesTypedAre
    <2>5. IsFiniteSet(Listed(p - 1))
        BY <2>1, <2>4
    <2> QED
        BY <2>2, <2>3, <2>5, ListedGrows
<1> QED
    BY <1>1

\* The pages read so far name no row that is left, and are counted.
EnrichInv ==
    /\ enrichAt \in EnrichStates /\ enrichAt.page <= Len(ApiPages) + 1
    /\ enrichAt.seen = Cardinality(Listed(enrichAt.page - 1))
    /\ (\A i \in DOMAIN ImportRuns : sheetAt[i].at = "idle") =>
          \A row \in importRows : row.account = "jv" /\ row.name = Absent =>
              \A p \in DOMAIN ApiPages : p < enrichAt.page => NameOfRow(ApiPages[p], row) = Absent
    /\ enrichAt.at = "ended" => \A p \in DOMAIN ApiPages : enrichAt.page <= p => DOMAIN ApiPages[p] = {}

LEMMA EnrichBegins == SheetInit => EnrichInv
<1> SUFFICES ASSUME SheetInit PROVE EnrichInv
    OBVIOUS
<1>1. enrichAt \in EnrichStates /\ enrichAt.page = 1 /\ enrichAt.seen = 0 /\ enrichAt.at = "idle"
    BY EnrichStarts DEF SheetInit
<1>2. Len(ApiPages) \in Nat /\ DOMAIN ApiPages = 1 .. Len(ApiPages)
    BY PagesTypedAre
<1>3. enrichAt.page - 1 = 0 /\ enrichAt.page <= Len(ApiPages) + 1 /\ \A p \in DOMAIN ApiPages : ~(p < enrichAt.page)
    BY <1>1, <1>2
<1> QED
    BY <1>1, <1>3, ListedStarts DEF EnrichInv

\* Whichever way OTTO says it, there is nothing after the last page.
LEMMA LastIsLast ==
    ASSUME EnrichInv, enrichAt.page <= Len(ApiPages), NoneLeft(ApiPages[enrichAt.page])
    PROVE  \A q \in DOMAIN ApiPages : enrichAt.page + 1 <= q => DOMAIN ApiPages[q] = {}
<1> DEFINE p == enrichAt.page
           page == ApiPages[p]
           all == Len(ApiPages)
<1>1. p \in Nat \ {0} /\ p <= all /\ all \in Nat /\ DOMAIN ApiPages = 1 .. all /\ p \in DOMAIN ApiPages
    BY PagesTypedAre DEF EnrichInv, EnrichStates
<1>2. \A q \in DOMAIN ApiPages : Len(ApiPages[q]) \in Nat /\ DOMAIN ApiPages[q] = 1 .. Len(ApiPages[q])
    BY PagesTypedAre
<1>3. \/ p = all
      \/ enrichAt.seen + Len(page) >= Cardinality(Listed(all))
      \/ Len(page) < ApiPageSize
    BY DEF NoneLeft, IsLastOne
<1> HIDE DEF all
<1>4. CASE p = all
    <2>1. \A q \in DOMAIN ApiPages : ~(p + 1 <= q)
        BY <1>1, <1>4
    <2> QED
        BY <2>1
<1>5. CASE Len(page) < ApiPageSize
    <2>1. ~(p \in 1 .. all - 1)
        <3>1. \A q \in 1 .. all - 1 : Len(ApiPages[q]) = ApiPageSize
            BY SheetAssumption DEF all
        <3>2. Len(page) \in Nat
            BY <1>1, <1>2
        <3>3. ASSUME p \in 1 .. all - 1 PROVE FALSE
            <4>1. Len(page) = ApiPageSize
                BY <3>1, <3>3
            <4>2. Len(page) < Len(page)
                BY <1>5, <4>1
            <4> HIDE DEF page
            <4> QED
                BY <3>2, <4>2
        <3> QED
            BY <3>3
    <2>2. p = all
        BY <1>1, <2>1
    <2> QED
        BY <1>4, <2>2
<1>6. CASE enrichAt.seen + Len(page) >= Cardinality(Listed(all))
    <2>1. IsFiniteSet(Listed(all)) /\ IsFiniteSet(Listed(p - 1))
        <3>1. p - 1 \in Nat /\ p - 1 <= all /\ all <= all
            BY <1>1
        <3> QED
            BY <1>1, <3>1, ListedAreFinite DEF all
    <2>2. IsFiniteSet(Listed(p)) /\ Cardinality(Listed(p)) = Cardinality(Listed(p - 1)) + Len(page)
        BY <1>1, <2>1, ListedGrows DEF all
    <2>3. Cardinality(Listed(p)) >= Cardinality(Listed(all))
        BY <1>6, <2>2 DEF EnrichInv
    <2>4. Listed(p) \subseteq Listed(all)
        <3>1. \A q \in 1 .. p : q \in 1 .. all
            BY <1>1
        <3> QED
            BY <3>1 DEF Listed
    <2>5. Listed(p) = Listed(all)
        <3>1. Cardinality(Listed(p)) <= Cardinality(Listed(all))
            BY <2>1, <2>4, FS_Subset
        <3>2. Cardinality(Listed(p)) \in Nat /\ Cardinality(Listed(all)) \in Nat
            BY <2>1, <2>2, FS_CardinalityType
        <3>3. Cardinality(Listed(p)) = Cardinality(Listed(all))
            BY <2>3, <3>1, <3>2
        <3> QED
            BY <2>1, <2>4, <3>3, FS_Subset
    <2>6. ASSUME NEW q \in DOMAIN ApiPages, p + 1 <= q, NEW n \in DOMAIN ApiPages[q] PROVE FALSE
        <3>1. <<q, n>> \in Listed(all)
            BY <1>1, <2>6 DEF Listed
        <3>2. <<q, n>> \in Listed(p)
            BY <2>5, <3>1
        <3>3. PICK r \in 1 .. p : <<q, n>> \in {<<r, m>> : m \in DOMAIN ApiPages[r]}
            BY <3>2 DEF Listed
        <3>4. q = r
            BY <3>3
        <3>5. ~(p + 1 <= r)
            BY <1>1, <3>3
        <3> QED
            BY <2>6, <3>4, <3>5
    <2> QED
        BY <2>6
<1> QED
    BY <1>3, <1>4, <1>5, <1>6

LEMMA FetchEnrichKept ==
    ASSUME RowsInv, EnrichInv, FetchNames
    PROVE  EnrichInv'
<1>1. enrichAt \in EnrichStates /\ enrichAt' \in EnrichStates
    BY EnrichKept DEF EnrichInv, SheetAct, EnrichStep
<1>2. enrichAt.page \in Nat \ {0} /\ enrichAt.at = "fetch" /\ sheetAt' = sheetAt
    BY <1>1 DEF EnrichStates, FetchNames
<1>3. Len(ApiPages) \in Nat /\ DOMAIN ApiPages = 1 .. Len(ApiPages)
    BY PagesTypedAre
<1>4. CASE enrichAt.page > Len(ApiPages)
    <2>1. importRows' = importRows /\ enrichAt' = [enrichAt EXCEPT !.at = "ended"]
        BY <1>4 DEF FetchNames
    <2>2. enrichAt'.page = enrichAt.page /\ enrichAt'.seen = enrichAt.seen /\ enrichAt'.at = "ended"
        BY <1>1, <2>1 DEF EnrichStates
    <2>3. \A p \in DOMAIN ApiPages : ~(enrichAt.page <= p)
        BY <1>2, <1>3, <1>4
    <2> QED
        BY <1>1, <1>2, <2>1, <2>2, <2>3 DEF EnrichInv
<1>5. CASE enrichAt.page <= Len(ApiPages)
    <2> DEFINE page == ApiPages[enrichAt.page]
    <2>1. /\ \A row : row \in importRows' <=>
                    \/ row \in importRows /\ ~(row.account = "jv" /\ Misses(row) /\ NameOfRow(page, row) # Absent)
                    \/ \E old \in importRows :
                          /\ old.account = "jv" /\ Misses(old) /\ NameOfRow(page, old) # Absent
                          /\ row = [old EXCEPT !.name = NameOfRow(page, old), !.byApi = TRUE]
          /\ enrichAt' = [at |-> IF NoneLeft(page) THEN "ended" ELSE "fetch",
                                page |-> enrichAt.page + 1, attempt |-> 0,
                                seen |-> enrichAt.seen + Len(page)]
          /\ page \in Seq(PagesTyped)
        BY <1>2, <1>5, FetchIs
    <2>2. /\ enrichAt'.page = enrichAt.page + 1 /\ enrichAt'.seen = enrichAt.seen + Len(page)
          /\ enrichAt'.at = "ended" => NoneLeft(page)
        BY <2>1
    <2>3. enrichAt'.page <= Len(ApiPages) + 1 /\ enrichAt'.page - 1 = enrichAt.page
          /\ enrichAt.page - 1 \in Nat /\ enrichAt.page - 1 <= Len(ApiPages)
        BY <1>2, <1>3, <1>5, <2>2
    <2>4. enrichAt'.seen = Cardinality(Listed(enrichAt'.page - 1))
        <3>1. Cardinality(Listed(enrichAt.page)) = Cardinality(Listed(enrichAt.page - 1)) + Len(page)
            <4>1. IsFiniteSet(Listed(enrichAt.page - 1))
                BY <2>3, ListedAreFinite
            <4> QED
                BY <1>2, <1>5, <4>1, ListedGrows
        <3>2. enrichAt.seen = Cardinality(Listed(enrichAt.page - 1))
            BY DEF EnrichInv
        <3> HIDE DEF page
        <3> QED
            BY <2>2, <2>3, <3>1, <3>2
    <2>5. enrichAt'.at = "ended" => \A q \in DOMAIN ApiPages : enrichAt'.page <= q => DOMAIN ApiPages[q] = {}
        BY <1>5, <2>2, LastIsLast
    <2> HIDE DEF page
    <2>6. ASSUME \A i \in DOMAIN ImportRuns : sheetAt'[i].at = "idle", NEW row \in importRows',
                 row.account = "jv", row.name = Absent, NEW p \in DOMAIN ApiPages, p < enrichAt'.page
          PROVE  NameOfRow(ApiPages[p], row) = Absent
        <3>1. row \in importRows /\ NameOfRow(page, row) = Absent
            <4>1. CASE row \in importRows /\ ~(row.account = "jv" /\ Misses(row) /\ NameOfRow(page, row) # Absent)
                BY <2>6, <4>1 DEF Misses
            <4>2. CASE \E old \in importRows :
                          /\ old.account = "jv" /\ Misses(old) /\ NameOfRow(page, old) # Absent
                          /\ row = [old EXCEPT !.name = NameOfRow(page, old), !.byApi = TRUE]
                <5>1. PICK old \in importRows :
                          /\ old.account = "jv" /\ Misses(old) /\ NameOfRow(page, old) # Absent
                          /\ row = [old EXCEPT !.name = NameOfRow(page, old), !.byApi = TRUE]
                    BY <4>2
                <5>2. old \in SheetRows
                    BY <5>1 DEF RowsInv
                <5>3. NameOfRow(page, old) \in Names
                    BY <2>1, <5>2, NameOfRowIs
                <5>4. row.name = NameOfRow(page, old)
                    BY <5>1, <5>2, <5>3, NamedIs
                <5> QED
                    BY <2>6, <5>1, <5>4
            <4> QED
                BY <2>1, <4>1, <4>2
        <3>2. p = enrichAt.page \/ p < enrichAt.page
            BY <1>2, <1>3, <2>2, <2>6
        <3>3. CASE p = enrichAt.page
            BY <3>1, <3>3 DEF page
        <3>4. CASE p < enrichAt.page
            <4>1. \A i \in DOMAIN ImportRuns : sheetAt[i].at = "idle"
                BY <1>2, <2>6
            <4> QED
                BY <2>6, <3>1, <3>4, <4>1 DEF EnrichInv
        <3> QED
            BY <3>2, <3>3, <3>4
    <2> QED
        BY <1>1, <2>3, <2>4, <2>5, <2>6 DEF EnrichInv
<1> QED
    BY <1>2, <1>3, <1>4, <1>5

\* A sheet that is being imported is not idle again.
LEMMA EnrichInvKept ==
    ASSUME RowsInv, EnrichInv, SheetAct
    PROVE  EnrichInv'
<1>1. CASE FetchNames
    BY <1>1, FetchEnrichKept
<1>2. CASE BeginEnrichment \/ ApiIsBusy
    <2>1. enrichAt \in EnrichStates /\ enrichAt' \in EnrichStates
        BY EnrichKept DEF EnrichInv
    <2>2. /\ enrichAt'.page = enrichAt.page /\ enrichAt'.seen = enrichAt.seen /\ enrichAt'.at # "ended"
          /\ UNCHANGED <<importRows, sheetAt>>
        BY <1>2, <2>1 DEF BeginEnrichment, ApiIsBusy, EnrichStates
    <2> QED
        BY <2>1, <2>2 DEF EnrichInv
<1>3. CASE \E i \in DOMAIN ImportRuns : ImportStep(i)
    <2>1. PICK i \in DOMAIN ImportRuns : ImportStep(i)
        BY <1>3
    <2>2. enrichAt' = enrichAt
        BY <2>1 DEF ImportStep, ReplaceRows, KeepRows, UpsertSheetRows, ImportKilled
    <2>3. sheetAt \in [DOMAIN ImportRuns -> SheetRuns]
        BY DEF RowsInv
    <2>4. sheetAt'[i].at # "idle"
        <3>1. CASE ReplaceRows(i) \/ KeepRows(i) \/ ImportKilled(i)
            BY <2>3, <3>1 DEF ReplaceRows, KeepRows, ImportKilled, SheetRuns
        <3>2. CASE UpsertSheetRows(i)
            <4>1. PICK last \in Nat, place \in {"ended", "upsert"} :
                      sheetAt' = [sheetAt EXCEPT ![i] = [at |-> place, next |-> last + 1]]
                BY <3>2, UpsertIs
            <4> QED
                BY <2>3, <4>1
        <3> QED
            BY <2>1, <3>1, <3>2 DEF ImportStep
    <2> QED
        BY <2>2, <2>4 DEF EnrichInv
<1>4. CASE UNCHANGED <<importRows, sheetAt, enrichAt>>
    BY <1>4 DEF EnrichInv
<1> QED
    BY <1>1, <1>2, <1>3, <1>4
       DEF SheetAct, EnrichStep, RebuildStep, DeleteMappings, ReadTargets, ReadSources, UpsertMappings,
           RebuildKilled, CopyStep, ReadSheet, UpsertProducts

LEMMA PagesAreAllRead == EnrichInv => PagesAreRead
<1> SUFFICES ASSUME EnrichInv, enrichAt.at = "ended", \A i \in DOMAIN ImportRuns : sheetAt[i].at = "idle",
                    NEW row \in importRows, row.account = "jv", row.name = Absent, NEW p \in DOMAIN ApiPages
             PROVE  NameOfRow(ApiPages[p], row) = Absent
    BY DEF PagesAreRead
<1>1. enrichAt.page \in Nat /\ p \in Nat
    BY PagesTypedAre DEF EnrichInv, EnrichStates
<1>2. CASE p < enrichAt.page
    BY <1>2 DEF EnrichInv
<1>3. CASE enrichAt.page <= p
    <2>1. DOMAIN ApiPages[p] = {}
        BY <1>3 DEF EnrichInv
    <2>2. \A id : NameFor(ApiPages[p], id) = Absent
        BY <2>1 DEF NameFor
    <2> QED
        BY <2>2 DEF NameOfRow
<1> QED
    BY <1>1, <1>2, <1>3

CopyStates == [at : {"idle", "upsert", "ended"}, rows : Seq(SheetRows), todo : Seq(SheetRows)]

\* The last row of each SKU is copied, or is still to be copied.
CopyInv ==
    /\ copyAt \in CopyStates
    /\ \A x \in ToSet(copyAt.todo) : \E n \in DOMAIN copyAt.rows : x = copyAt.rows[n] /\ Counts(copyAt.rows, n)
    /\ \A n \in DOMAIN copyAt.rows : Counts(copyAt.rows, n) =>
          \/ copyAt.rows[n] \in ToSet(copyAt.todo)
          \/ /\ copyAt.rows[n].sku \in DOMAIN catalogue
             /\ catalogue[copyAt.rows[n].sku].price = copyAt.rows[n].price
    /\ copyAt.at = "ended" => copyAt.todo = <<>>

\* A SKU has one row that counts.
LEMMA CountsAlone ==
    ASSUME NEW rows \in Seq(SheetRows), NEW m \in DOMAIN rows, NEW n \in DOMAIN rows,
           Counts(rows, m), Counts(rows, n), rows[m].sku = rows[n].sku
    PROVE  m = n
<1>1. Len(rows) \in Nat /\ DOMAIN rows = 1 .. Len(rows)
    OBVIOUS
<1>2. m < n => n \in m + 1 .. Len(rows)
    BY <1>1
<1>3. n < m => m \in n + 1 .. Len(rows)
    BY <1>1
<1>4. ~(m < n) /\ ~(n < m)
    BY <1>2, <1>3 DEF Counts
<1> QED
    BY <1>1, <1>4

LEMMA CopyBegins == SheetInit => CopyInv
<1> SUFFICES ASSUME SheetInit PROVE CopyInv
    OBVIOUS
<1>1. copyAt = [at |-> "idle", rows |-> <<>>, todo |-> <<>>] /\ <<>> \in Seq(SheetRows)
    BY DEF SheetInit
<1>2. copyAt \in CopyStates
    BY <1>1 DEF CopyStates
<1>3. copyAt.rows = <<>> /\ copyAt.todo = <<>> /\ ToSet(<<>>) = {}
    BY <1>1 DEF ToSet
<1> QED
    BY <1>2, <1>3 DEF CopyInv

LEMMA ReadSheetKept ==
    ASSUME RowsInv, CopyInv, ReadSheet
    PROVE  CopyInv'
<1> DEFINE valid == ValidRows("jv")
           rows  == Picked(valid, {n \in DOMAIN valid : valid[n].sku # Absent})
           todo  == Picked(rows, {n \in DOMAIN rows : Counts(rows, n)})
<1>1. copyAt' = [at |-> "upsert", rows |-> rows, todo |-> todo]
    BY DEF ReadSheet
<1>2. rows \in Seq(SheetRows)
    <2>1. valid \in Seq(SheetRows)
        BY ValidAre
    <2> HIDE DEF valid
    <2>2. {n \in DOMAIN valid : valid[n].sku # Absent} \in SUBSET DOMAIN valid
        OBVIOUS
    <2> QED
        BY <2>1, <2>2, PickedIs
<1> HIDE DEF rows
<1> DEFINE last == {n \in DOMAIN rows : Counts(rows, n)}
<1>3. /\ todo \in Seq(SheetRows) /\ DOMAIN todo = 1 .. Cardinality(last)
      /\ \A i \in 1 .. Cardinality(last) : Nth(last, i) \in last /\ todo[i] = rows[Nth(last, i)]
      /\ \A n \in last : \E i \in 1 .. Cardinality(last) : todo[i] = rows[n]
    <2>1. last \in SUBSET DOMAIN rows
        OBVIOUS
    <2> HIDE DEF last
    <2> QED
        BY <1>2, <2>1, PickedIs DEF last
<1>4. \A n \in DOMAIN rows : Counts(rows, n) => n \in last
    OBVIOUS
<1>5. \A n \in last : n \in DOMAIN rows /\ Counts(rows, n)
    OBVIOUS
<1> HIDE DEF todo, last
<1>6. copyAt' \in CopyStates /\ copyAt'.rows = rows /\ copyAt'.todo = todo /\ copyAt'.at # "ended"
    BY <1>1, <1>2, <1>3 DEF CopyStates
<1>7. ASSUME NEW x \in ToSet(todo)
      PROVE  \E n \in DOMAIN rows : x = rows[n] /\ Counts(rows, n)
    <2>1. PICK i \in DOMAIN todo : x = todo[i]
        BY <1>7 DEF ToSet
    <2>2. Nth(last, i) \in last /\ x = rows[Nth(last, i)]
        BY <1>3, <2>1
    <2> QED
        BY <1>5, <2>2
<1>8. ASSUME NEW n \in DOMAIN rows, Counts(rows, n)
      PROVE  rows[n] \in ToSet(todo)
    <2>1. PICK i \in 1 .. Cardinality(last) : todo[i] = rows[n]
        BY <1>3, <1>4, <1>8
    <2> QED
        BY <1>3, <2>1 DEF ToSet
<1> QED
    BY <1>6, <1>7, <1>8 DEF CopyInv

\* A batch writes each of its rows to its product, and touches no other.
LEMMA CopiedAre ==
    ASSUME CopyInv, UpsertProducts
    PROVE  LET batch == Batch(copyAt.todo)
           IN  /\ \A row \in ToSet(batch) :
                     row.sku \in DOMAIN catalogue' /\ catalogue'[row.sku].price = row.price
               /\ \A sku \in DOMAIN catalogue : sku \in DOMAIN catalogue'
               /\ \A sku \in DOMAIN catalogue : sku \notin {row.sku : row \in ToSet(batch)} =>
                     catalogue'[sku] = catalogue[sku]
<1> DEFINE batch == Batch(copyAt.todo)
           New(row) == LET cached == IF row.ean \in CachedEans THEN row.ean ELSE Absent
                           old    == IF row.sku \in DOMAIN catalogue
                                     THEN catalogue[row.sku].media ELSE Absent
                       IN  [price |-> row.price, media |-> NewMedia(cached, old)]
           RowWith(sku) == CHOOSE row \in ToSet(batch) : row.sku = sku
           skus == {row.sku : row \in ToSet(batch)}
<1>1. catalogue' = [sku \in DOMAIN catalogue \cup skus |->
                            IF sku \in skus THEN New(RowWith(sku)) ELSE catalogue[sku]]
    BY DEF UpsertProducts
<1>2. \A row : New(row).price = row.price
    OBVIOUS
<1>3. ToSet(batch) \subseteq ToSet(copyAt.todo)
    BY BatchOf DEF CopyInv, CopyStates
<1> HIDE DEF batch, New
<1>4. ASSUME NEW row \in ToSet(batch)
      PROVE  row.sku \in DOMAIN catalogue' /\ catalogue'[row.sku].price = row.price
    <2>1. row.sku \in skus
        OBVIOUS
    <2>2. RowWith(row.sku) \in ToSet(batch) /\ RowWith(row.sku).sku = row.sku
        OBVIOUS
    <2> HIDE DEF skus, RowWith
    <2>3. row.sku \in DOMAIN catalogue' /\ catalogue'[row.sku] = New(RowWith(row.sku))
        BY <1>1, <2>1
    <2>4. RowWith(row.sku).price = row.price
        <3>1. PICK m \in DOMAIN copyAt.rows : row = copyAt.rows[m] /\ Counts(copyAt.rows, m)
            BY <1>3 DEF CopyInv
        <3>2. PICK n \in DOMAIN copyAt.rows : RowWith(row.sku) = copyAt.rows[n] /\ Counts(copyAt.rows, n)
            BY <1>3, <2>2 DEF CopyInv
        <3>3. copyAt.rows \in Seq(SheetRows)
            BY DEF CopyInv, CopyStates
        <3>4. m = n
            BY <2>2, <3>1, <3>2, <3>3, CountsAlone
        <3> QED
            BY <3>1, <3>2, <3>4
    <2> QED
        BY <1>2, <2>3, <2>4
<1> HIDE DEF RowWith
<1>5. \A sku \in DOMAIN catalogue : sku \in DOMAIN catalogue' /\ (sku \notin skus => catalogue'[sku] = catalogue[sku])
    <2> HIDE DEF skus
    <2> QED
        BY <1>1
<1> QED
    BY <1>4, <1>5 DEF batch

LEMMA UpsertProductsKept ==
    ASSUME CopyInv, UpsertProducts
    PROVE  CopyInv'
<1> DEFINE batch == Batch(copyAt.todo)
<1>1. /\ copyAt.rows \in Seq(SheetRows) /\ copyAt.todo \in Seq(SheetRows)
      /\ copyAt = [at |-> copyAt.at, rows |-> copyAt.rows, todo |-> copyAt.todo]
    BY DEF CopyInv, CopyStates
<1>2. ToSet(batch) \cup ToSet(Rest(copyAt.todo)) = ToSet(copyAt.todo) /\ Rest(copyAt.todo) \in Seq(SheetRows)
    BY <1>1, BatchOf
<1>3. /\ copyAt'.rows = copyAt.rows /\ copyAt'.todo = Rest(copyAt.todo)
      /\ copyAt'.at = IF Rest(copyAt.todo) = <<>> THEN "ended" ELSE "upsert"
      /\ copyAt' = [at |-> copyAt'.at, rows |-> copyAt'.rows, todo |-> copyAt'.todo]
    BY <1>1 DEF UpsertProducts
<1>4. copyAt' \in CopyStates
    BY <1>1, <1>2, <1>3 DEF CopyStates
<1>5. /\ \A row \in ToSet(batch) :
             row.sku \in DOMAIN catalogue' /\ catalogue'[row.sku].price = row.price
      /\ \A sku \in DOMAIN catalogue : sku \in DOMAIN catalogue'
      /\ \A sku \in DOMAIN catalogue : sku \notin {row.sku : row \in ToSet(batch)} =>
             catalogue'[sku] = catalogue[sku]
    BY CopiedAre
<1> HIDE DEF batch
<1>6. ASSUME NEW n \in DOMAIN copyAt.rows, Counts(copyAt.rows, n), copyAt.rows[n] \notin ToSet(Rest(copyAt.todo))
      PROVE  /\ copyAt.rows[n].sku \in DOMAIN catalogue'
             /\ catalogue'[copyAt.rows[n].sku].price = copyAt.rows[n].price
    <2>1. CASE copyAt.rows[n] \in ToSet(batch)
        BY <1>5, <2>1
    <2>2. CASE copyAt.rows[n] \notin ToSet(batch)
        <3>1. /\ copyAt.rows[n].sku \in DOMAIN catalogue
              /\ catalogue[copyAt.rows[n].sku].price = copyAt.rows[n].price
            BY <1>2, <1>6, <2>2 DEF CopyInv
        <3>2. ASSUME NEW row \in ToSet(batch), row.sku = copyAt.rows[n].sku PROVE FALSE
            <4>1. row \in ToSet(copyAt.todo)
                BY <1>2
            <4>2. PICK m \in DOMAIN copyAt.rows : row = copyAt.rows[m] /\ Counts(copyAt.rows, m)
                BY <4>1 DEF CopyInv
            <4>3. m = n
                BY <1>1, <1>6, <3>2, <4>2, CountsAlone
            <4> QED
                BY <2>2, <4>2, <4>3
        <3> QED
            BY <1>5, <3>1, <3>2
    <2> QED
        BY <2>1, <2>2
<1>7. \A x \in ToSet(Rest(copyAt.todo)) : \E n \in DOMAIN copyAt.rows : x = copyAt.rows[n] /\ Counts(copyAt.rows, n)
    BY <1>2 DEF CopyInv
<1> QED
    BY <1>3, <1>4, <1>6, <1>7 DEF CopyInv

LEMMA CopyInvKept ==
    ASSUME RowsInv, CopyInv, SheetAct
    PROVE  CopyInv'
<1>1. CASE CopyStep
    BY <1>1, ReadSheetKept, UpsertProductsKept DEF CopyStep
<1>2. CASE UNCHANGED <<copyAt, catalogue>>
    BY <1>2 DEF CopyInv
<1> QED
    BY <1>1, <1>2
       DEF SheetAct, ImportStep, ReplaceRows, KeepRows, UpsertSheetRows, ImportKilled, EnrichStep,
           BeginEnrichment, FetchNames, ApiIsBusy, RebuildStep, DeleteMappings, ReadTargets, ReadSources,
           UpsertMappings, RebuildKilled

LEMMA LastRowIsCopied == CopyInv => LastRowCounts
<1> SUFFICES ASSUME CopyInv, copyAt.at = "ended", NEW n \in DOMAIN copyAt.rows,
                    \A m \in DOMAIN copyAt.rows : copyAt.rows[m].sku = copyAt.rows[n].sku => m <= n
             PROVE  catalogue[copyAt.rows[n].sku].price = copyAt.rows[n].price
    BY DEF LastRowCounts
<1>1. Len(copyAt.rows) \in Nat /\ DOMAIN copyAt.rows = 1 .. Len(copyAt.rows)
    BY DEF CopyInv, CopyStates
<1>2. \A m \in n + 1 .. Len(copyAt.rows) : m \in DOMAIN copyAt.rows /\ ~(m <= n)
    BY <1>1
<1>3. Counts(copyAt.rows, n)
    BY <1>2 DEF Counts
<1>4. copyAt.rows[n] \notin ToSet(copyAt.todo)
    <2>1. copyAt.todo = <<>>
        BY DEF CopyInv
    <2>2. ToSet(<<>>) = {}
        BY DEF ToSet
    <2> QED
        BY <2>1, <2>2
<1> QED
    BY <1>3, <1>4 DEF CopyInv

SheetsInv == RowsInv /\ EnrichInv /\ MappingInv /\ CopyInv

LEMMA SheetsStart == SheetInit => SheetsInv
<1> QED
    BY RowsStart, EnrichBegins, MappingStarts, CopyBegins DEF SheetsInv

LEMMA SheetsKept ==
    ASSUME SheetsInv, SheetAct
    PROVE  SheetsInv'
<1>1. enrichAt \in EnrichStates
    BY DEF SheetsInv, EnrichInv
<1> QED
    BY <1>1, RowsKept, EnrichInvKept, MappingInvKept, CopyInvKept DEF SheetsInv

LEMMA SheetsRest ==
    ASSUME SheetsInv, UNCHANGED sheetVars
    PROVE  SheetsInv'
<1>1. UNCHANGED <<importRows, epoch, sheetAt, enrichAt, mappings, rebuildAt, freshBy, catalogue, copyAt>>
    BY DEF sheetVars
<1>2. RowsInv'
    BY <1>1 DEF SheetsInv, RowsInv, Numbered
<1>3. EnrichInv'
    BY <1>1 DEF SheetsInv, EnrichInv
<1>4. MappingInv'
    <2>1. Stored \subseteq Stored'
        BY <1>1 DEF Stored
    <2> QED
        BY <1>1, <2>1, MappingSame DEF SheetsInv
<1>5. CopyInv'
    BY <1>1 DEF SheetsInv, CopyInv
<1> QED
    BY <1>2, <1>3, <1>4, <1>5 DEF SheetsInv

\* A row is known by its id.
LEMMA SameId ==
    ASSUME RowsInv, NEW row \in importRows, NEW other \in importRows, row.id = other.id
    PROVE  row = other
<1>1. row.id = <<row.account, epoch[row.account], row.at>> /\ other.id = <<other.account, epoch[other.account], other.at>>
    BY DEF RowsInv
<1>2. \A a, b, c, d, e, f : <<a, b, c>> = <<d, e, f>> => a = d /\ c = f
    OBVIOUS
<1>3. <<row.account, epoch[row.account], row.at>> = <<other.account, epoch[other.account], other.at>>
    BY <1>1
<1>4. row.account = other.account /\ row.at = other.at
    BY <1>2, <1>3, Zenon
<1> QED
    BY <1>4 DEF RowsInv

LEMMA SheetsTyped == SheetsInv => SheetTypeOK
<1> SUFFICES ASSUME SheetsInv PROVE SheetTypeOK
    OBVIOUS
<1>1. \A a, b \in importRows : a.id = b.id => a = b
    BY SameId DEF SheetsInv
<1>2. \A m \in mappings : m \in MappingRows /\ Refers(m)
    BY DEF SheetsInv, MappingInv
<1>3. \A m \in mappings : m.status \in Statuses
    BY <1>2 DEF MappingRows
<1> QED
    BY <1>1, <1>2, <1>3 DEF SheetTypeOK, Statuses

SourceOf(rows, id) == CHOOSE r \in ToSet(rows) : r.id = id

\* The row that a mapping is for is found again by its id.
LEMMA MatchedTarget ==
    ASSUME NEW kind \in {"ean", "name"}, NEW sources \in Seq(SheetRows), NEW targets \in Seq(NamedRows),
           ApartBy(kind, sources), NEW m \in ToSet(Payloads(kind, sources, targets))
    PROVE  {targets[k].id : k \in NearestOf(SourceOf(sources, m.source), targets)} =
               IF m.status = "matched" THEN {m.row} ELSE {}
<1>1. PICK n \in DOMAIN sources : m = Matched(kind, sources[n], targets)
    BY PayloadsAre
<1>2. sources[n] \in SheetRows
    OBVIOUS
<1>3. m.source = sources[n].id /\ m.status = Match(sources[n], targets).status
      /\ m.row = Match(sources[n], targets).target.id
    BY <1>1, <1>2, MappingIs
<1>4. SourceOf(sources, m.source) = sources[n]
    <2>1. sources[n] \in ToSet(sources)
        BY DEF ToSet
    <2>2. \A r \in ToSet(sources) : r.id = sources[n].id => r = sources[n]
        BY DEF ToSet, ApartBy
    <2> QED
        BY <1>3, <2>1, <2>2 DEF SourceOf
<1> QED
    BY <1>2, <1>3, <1>4, MatchIs

LEMMA MatchedIsNearest == MappingInv => MatchedIsTheNearest
<1> SUFFICES ASSUME MappingInv, NEW b \in DOMAIN Rebuilds, rebuildAt[b].at = "upsert",
                    NEW n \in DOMAIN rebuildAt[b].todo
             PROVE  {rebuildAt[b].targets[k].id :
                        k \in NearestOf(SourceOf(rebuildAt[b].sources, rebuildAt[b].todo[n].source),
                                        rebuildAt[b].targets)} =
                        IF rebuildAt[b].todo[n].status = "matched" THEN {rebuildAt[b].todo[n].row} ELSE {}
    BY DEF MatchedIsTheNearest, NearestOf, SourceOf
<1>1. /\ rebuildAt[b].targets \in Seq(NamedRows) /\ rebuildAt[b].sources \in Seq(SheetRows)
      /\ ApartBy(Rebuilds[b], rebuildAt[b].sources) /\ Rebuilds[b] \in {"ean", "name"}
    BY KindOf DEF MappingInv, RebuildStates
<1>2. rebuildAt[b].todo[n] \in ToSet(rebuildAt[b].todo)
    BY DEF ToSet
<1>3. rebuildAt[b].todo[n] \in ToSet(Payloads(Rebuilds[b], rebuildAt[b].sources, rebuildAt[b].targets))
    BY <1>2 DEF MappingInv, AllOf
<1> DEFINE kind == Rebuilds[b]
           rows == rebuildAt[b].sources
           others == rebuildAt[b].targets
           m == rebuildAt[b].todo[n]
<1>4. kind \in {"ean", "name"} /\ rows \in Seq(SheetRows) /\ others \in Seq(NamedRows) /\ ApartBy(kind, rows)
      /\ m \in ToSet(Payloads(kind, rows, others))
    BY <1>1, <1>3
<1> HIDE DEF kind, rows, others, m
<1>5. {others[k].id : k \in NearestOf(SourceOf(rows, m.source), others)} =
          IF m.status = "matched" THEN {m.row} ELSE {}
    BY <1>4, MatchedTarget
<1> QED
    BY <1>5 DEF rows, others, m

LEMMA MappingIsDone == MappingInv => MappingIsWhole
<1> SUFFICES ASSUME MappingInv, NEW kind \in DOMAIN freshBy, freshBy[kind] # "none"
             PROVE  {m \in mappings : m.kind = kind} =
                        ToSet(Payloads(kind, rebuildAt[freshBy[kind]].sources, rebuildAt[freshBy[kind]].targets))
    BY DEF MappingIsWhole
<1>1. kind \in {"ean", "name"}
    BY DEF MappingInv
<1> QED
    BY <1>1 DEF MappingInv, OfKind, AllOf

SheetSafety == MatchedIsTheNearest /\ MappingIsWhole /\ PagesAreRead /\ LastRowCounts

LEMMA SheetsSafe == SheetsInv => SheetSafety
<1> QED
    BY MatchedIsNearest, MappingIsDone, PagesAreAllRead, LastRowIsCopied DEF SheetsInv, SheetSafety

\* No step but that of a sheet takes a name from a row, and the sheet goes on by it.
LEMMA NameStays ==
    ASSUME SheetsInv, SheetAct, NEW row \in importRows, NEW new \in importRows',
           row.id = new.id, row.name # Absent, new.name # row.name
    PROVE  \E i \in DOMAIN ImportRuns : sheetAt'[i].next # sheetAt[i].next
<1>1. RowsInv /\ enrichAt.page \in Nat \ {0}
    BY DEF SheetsInv, EnrichInv, EnrichStates
<1>2. new \notin importRows
    BY <1>1, SameId
<1>3. ~FetchNames
    <2>1. ASSUME FetchNames PROVE FALSE
        <3>1. PICK old \in importRows : new.id = old.id /\ (new = old \/ old.name = Absent)
            BY <1>1, <2>1, FetchKeeps
        <3>2. old = row
            BY <1>1, <3>1, SameId
        <3> QED
            BY <3>1, <3>2
    <2> QED
        BY <2>1
<1>4. \A i \in DOMAIN ImportRuns : ~ReplaceRows(i)
    BY <1>2 DEF ReplaceRows
<1>5. PICK i \in DOMAIN ImportRuns : UpsertSheetRows(i)
    BY <1>2, <1>3, <1>4
       DEF SheetAct, ImportStep, KeepRows, ImportKilled, EnrichStep, BeginEnrichment, ApiIsBusy, RebuildStep,
           DeleteMappings, ReadTargets, ReadSources, UpsertMappings, RebuildKilled, CopyStep, ReadSheet,
           UpsertProducts
<1>6. PICK last \in Nat :
          /\ \A x : x \in importRows' <=>
                \/ x \in importRows /\ ~(x.account = ImportRuns[i].account /\ x.at \in sheetAt[i].next .. last)
                \/ \E n \in sheetAt[i].next .. last : x = RowOf(ImportRuns[i].account, n, Sheet(i)[n])
          /\ \E place \in {"ended", "upsert"} : sheetAt' = [sheetAt EXCEPT ![i] = [at |-> place, next |-> last + 1]]
    BY <1>1, <1>5, UpsertIs
<1>7. sheetAt \in [DOMAIN ImportRuns -> SheetRuns] /\ sheetAt[i].next \in Nat
    BY <1>1 DEF RowsInv, SheetRuns
<1>8. sheetAt'[i].next = last + 1
    BY <1>6, <1>7
<1>9. sheetAt[i].next <= last
    <2>1. PICK n \in sheetAt[i].next .. last : TRUE
        BY <1>2, <1>6
    <2> QED
        BY <1>7, <2>1
<1> QED
    BY <1>7, <1>8, <1>9

LEMMA NamesStay ==
    ASSUME SheetsInv, SheetAct \/ UNCHANGED sheetVars
    PROVE  [\A row \in importRows, new \in importRows' :
                row.id = new.id /\ row.name # Absent /\ new.name # row.name
                  => \E i \in DOMAIN ImportRuns : sheetAt'[i].next # sheetAt[i].next]_sheetVars
<1> QED
    BY NameStays

LEMMA ImagesStay ==
    ASSUME SheetsInv, SheetAct \/ UNCHANGED sheetVars
    PROVE  [\A sku \in DOMAIN catalogue :
                catalogue[sku].media # Absent => catalogue'[sku].media # Absent]_sheetVars
<1>1. CASE UpsertProducts
    <2> DEFINE batch == Batch(copyAt.todo)
               New(row) == LET cached == IF row.ean \in CachedEans THEN row.ean ELSE Absent
                               old    == IF row.sku \in DOMAIN catalogue
                                         THEN catalogue[row.sku].media ELSE Absent
                           IN  [price |-> row.price, media |-> NewMedia(cached, old)]
               RowWith(sku) == CHOOSE row \in ToSet(batch) : row.sku = sku
               skus == {row.sku : row \in ToSet(batch)}
    <2>1. catalogue' = [sku \in DOMAIN catalogue \cup skus |->
                                IF sku \in skus THEN New(RowWith(sku)) ELSE catalogue[sku]]
        BY <1>1 DEF UpsertProducts
    <2>2. \A row : row.sku \in DOMAIN catalogue /\ catalogue[row.sku].media # Absent => New(row).media # Absent
        BY DEF NewMedia
    <2>3. \A sku \in skus : RowWith(sku).sku = sku
        OBVIOUS
    <2> HIDE DEF batch, New, RowWith, skus
    <2>4. ASSUME NEW sku \in DOMAIN catalogue, catalogue[sku].media # Absent
          PROVE  catalogue'[sku].media # Absent
        <3>1. catalogue'[sku] = IF sku \in skus THEN New(RowWith(sku)) ELSE catalogue[sku]
            BY <2>1
        <3>2. CASE sku \in skus
            <4>1. RowWith(sku).sku = sku
                BY <2>3, <3>2
            <4>2. New(RowWith(sku)).media # Absent
                BY <2>2, <2>4, <4>1
            <4> QED
                BY <3>1, <3>2, <4>2
        <3> QED
            BY <2>4, <3>1, <3>2
    <2> QED
        BY <2>4
<1>2. CASE catalogue' = catalogue
    BY <1>2
<1>3. UNCHANGED sheetVars \/ UpsertProducts \/ catalogue' = catalogue
    BY DEF SheetAct, ImportStep, ReplaceRows, KeepRows, UpsertSheetRows, ImportKilled, EnrichStep,
           BeginEnrichment, FetchNames, ApiIsBusy, RebuildStep, DeleteMappings, ReadTargets, ReadSources,
           UpsertMappings, RebuildKilled, CopyStep, ReadSheet, UpsertProducts
<1> QED
    BY <1>1, <1>2, <1>3

-----------------------------------------------------------------------------
(* Counterpart: what the maps of EANs say, and what is written from them.  *)

CloneSafety == SheetInit /\ CloneInit /\ [][CloneNext]_<<scene, cloneVars>>

NameMapIsRight(products, rows, byName) ==
    \A ean \in {products[n].ean : n \in DOMAIN products} :
        LET named == UNION {NearestEans(products[m], rows) :
                        m \in {n \in DOMAIN products : HasWords(products[n]) /\ products[n].ean = ean}}
        IN  IF ean \in DOMAIN byName THEN byName[ean] \in named ELSE named = {}

IndexMapIsRight(products, theirs, byIndex) ==
    \A ean \in {products[n].ean : n \in DOMAIN products} :
        LET placed == {theirs[m] : m \in {n \in DOMAIN products \cap DOMAIN theirs :
                                            products[n].ean = ean /\ theirs[n] # Absent}}
        IN  IF ean \in DOMAIN byIndex THEN byIndex[ean] \in placed ELSE placed = {}

ClonesOf(of, known) ==
    [n \in DOMAIN Submissions[of].products |-> CloneOf(Submissions[of].products[n], known)]

BodiesOf(of, xl) ==
    LET jv == [n \in DOMAIN Submissions[of].products |-> OwnBody(Submissions[of].products[n])]
    IN  [jv |-> jv, xl |-> xl, availability |-> Availability("jv", jv) \o Availability("xl", xl)]

CloneInv ==
    /\ clones = [of |-> clones.of, at |-> clones.at, rows |-> clones.rows, byName |-> clones.byName,
                  byIndex |-> clones.byIndex, items |-> clones.items, written |-> clones.written]
    /\ clones.of \in DOMAIN Submissions
    /\ clones.at \in {"begin", "index", "profiles", "ended", "raised"}
    /\ clones.at \in {"index", "profiles"} => Submissions[clones.of].dual
    /\ NameMapIsRight(Products, clones.rows, clones.byName)
    /\ IndexMapIsRight(Products, clones.items, clones.byIndex)
    /\ clones.at # "ended" => clones.written = NothingWritten
    /\ clones.at = "ended" =>
          IF Submissions[clones.of].dual
          THEN AllMapped /\ clones.written =
                    BodiesOf(clones.of, ClonesOf(clones.of, MappedEans(clones.byName, clones.byIndex)))
          ELSE clones.written = BodiesOf(clones.of, <<>>)

\* The rows of "xl" that can be matched.
Usables == {row \in importRows : row.ean # Absent /\ row.name \in DOMAIN Tokens}

LEMMA RowsRead ==
    ASSUME RowsInv
    PROVE  RowsOfCategories(TargetRows) \in Seq(Usables)
<1> DEFINE valid == ValidRows("xl")
           named == {n \in DOMAIN valid : valid[n].ean # Absent /\ valid[n].name # Absent}
           target == Picked(valid, named)
           categories == {Products[n].category : n \in Named} \ {Absent}
           those == {n \in DOMAIN target : target[n].category \in categories}
           some == Picked(target, those)
<1>1. TargetRows = target /\ RowsOfCategories(target) = IF some = <<>> THEN target ELSE some
    BY DEF TargetRows, RowsOfCategories
<1>2. valid \in Seq(importRows) /\ \A n \in DOMAIN valid : valid[n].name \in Names
    <2>1. valid \in Seq(importRows) /\ valid \in Seq(SheetRows)
        BY ValidAre
    <2> HIDE DEF valid
    <2>2. \A n \in DOMAIN valid : valid[n] \in SheetRows
        BY <2>1, LenProperties
    <2>3. \A row \in SheetRows : row.name \in Names
        BY DEF SheetRows
    <2> QED
        BY <2>1, <2>2, <2>3
<1>3. \A n \in DOMAIN valid : valid[n] \in importRows
    BY <1>2, LenProperties
<1> HIDE DEF valid
<1>4. named \in SUBSET DOMAIN valid /\ \A n \in named : valid[n] \in Usables
    BY <1>2, <1>3 DEF Usables, Names
<1> HIDE DEF named
<1>5. /\ Cardinality(named) \in Nat
      /\ \A i \in 1 .. Cardinality(named) : Nth(named, i) \in named
    BY <1>2, <1>4, PickedIs
<1>6. target \in [1 .. Cardinality(named) -> Usables]
    BY <1>4, <1>5 DEF Picked
<1>7. target \in Seq(Usables)
    BY <1>5, <1>6, SequenceOf
<1> HIDE DEF target
<1>8. those \in SUBSET DOMAIN target
    OBVIOUS
<1> HIDE DEF those
<1>9. some \in Seq(Usables)
    BY <1>7, <1>8, PickedIs
<1> QED
    BY <1>1, <1>7, <1>9

\* The comparison goes through the rows.
LEMMA NearestLoop ==
    ASSUME NEW product, NEW these, Len(these) \in Nat
    PROVE  \E after :
              /\ after[0] = NoneYet
              /\ \A n \in 1 .. Len(these) : after[n] = Compared(after[n - 1], product, these[n])
              /\ NearestRow(product, these) = after[Len(these)]
<1> DEFINE size == Len(these)
           Next1(x, n) == Compared(x, product, these[n])
           Goes(f, k) == f = [n \in 0 .. k |-> IF n = 0 THEN NoneYet ELSE Next1(f[n - 1], n)]
           T == {k \in Nat : ~ \E f : Goes(f, k)}
           after == CHOOSE f : Goes(f, size)
<1>6. NearestRow(product, these) = after[size]
    BY DEF NearestRow
<1>7. size \in Nat
    OBVIOUS
<1> HIDE DEF after, size
<1> HIDE DEF Next1
<1>1. ASSUME T # {} PROVE FALSE
    <2>1. PICK k \in T : \A i \in T : k <= i
        <3>1. T \in SUBSET Nat
            OBVIOUS
        <3> HIDE DEF T
        <3> QED
            BY <1>1, <3>1, LeastOf
    <2>2. k \in Nat /\ ~ \E f : Goes(f, k)
        BY <2>1
    <2>3. CASE k = 0
        <3> DEFINE f == [n \in 0 .. 0 |-> NoneYet]
        <3>1. f = [n \in 0 .. 0 |-> IF n = 0 THEN NoneYet ELSE Next1(f[n - 1], n)]
            OBVIOUS
        <3> HIDE DEF f
        <3>2. Goes(f, k)
            BY <2>3, <3>1
        <3> HIDE DEF Goes
        <3> QED
            BY <2>2, <3>2
    <2>4. CASE k # 0
        <3>1. k - 1 \in Nat /\ ~(k <= k - 1)
            BY <2>2, <2>4
        <3>2. PICK g : Goes(g, k - 1)
            BY <2>1, <3>1
        <3> DEFINE f == [n \in 0 .. k |-> IF n = k THEN Next1(g[k - 1], k) ELSE g[n]]
                   again == [n \in 0 .. k |-> IF n = 0 THEN NoneYet ELSE Next1(f[n - 1], n)]
        <3>3. \A n \in 0 .. k : n # k => n \in 0 .. (k - 1)
            BY <2>2
        <3>4. \A n \in 0 .. (k - 1) : g[n] = IF n = 0 THEN NoneYet ELSE Next1(g[n - 1], n)
            BY <3>2
        <3>5. ASSUME NEW n \in 0 .. k PROVE f[n] = again[n]
            <4>1. n # 0 => n - 1 \in 0 .. k /\ n - 1 # k
                BY <2>2
            <4>2. n # 0 => f[n - 1] = g[n - 1]
                BY <4>1
            <4>3. CASE n = k
                <5>1. f[n] = Next1(g[k - 1], k)
                    BY <4>3
                <5>2. again[n] = Next1(f[k - 1], k)
                    BY <2>4, <4>3
                <5> HIDE DEF f, again
                <5> QED
                    BY <2>4, <4>2, <4>3, <5>1, <5>2
            <4>4. CASE n # k
                <5>1. f[n] = g[n] /\ g[n] = IF n = 0 THEN NoneYet ELSE Next1(g[n - 1], n)
                    BY <3>3, <3>4, <4>4
                <5>2. again[n] = IF n = 0 THEN NoneYet ELSE Next1(f[n - 1], n)
                    OBVIOUS
                <5> HIDE DEF f, again
                <5> QED
                    BY <4>2, <5>1, <5>2
            <4> QED
                BY <4>3, <4>4
        <3>6. f = again
            BY <3>5
        <3>7. Goes(f, k)
            <4> HIDE DEF f
            <4> QED
                BY <3>6
        <3> HIDE DEF Goes, f
        <3> QED
            BY <2>2, <3>7
    <2> QED
        BY <2>3, <2>4
<1>2. Goes(after, size)
    <2>1. \E f : Goes(f, size)
        BY <1>1, <1>7
    <2> HIDE DEF Goes
    <2> QED
        BY <2>1 DEF after
<1>3. \A n \in 0 .. size : after[n] = IF n = 0 THEN NoneYet ELSE Next1(after[n - 1], n)
    BY <1>2
<1>4. 0 \in 0 .. size /\ \A n \in 1 .. size : n \in 0 .. size /\ n # 0
    BY <1>7
<1>5. after[0] = NoneYet /\ \A n \in 1 .. size : after[n] = Next1(after[n - 1], n)
    BY <1>3, <1>4
<1> QED
    BY <1>5, <1>6 DEF Next1, size

\* After the first n rows: the best of them, and whether another is as good.
IsBestOf(best, product, these, n) ==
    /\ best.score \in Nat /\ best = [target |-> best.target, score |-> best.score, tie |-> best.tie]
    /\ \A i \in 1 .. n : NameScore(product, these[i]) <= best.score
    /\ \/ best.score = 0 /\ best.target = NoRow
       \/ /\ best.score > 0
          /\ \E i \in 1 .. n :
                /\ best.target = these[i] /\ NameScore(product, these[i]) = best.score
                /\ best.tie <=> \E j \in 1 .. n : j # i /\ NameScore(product, these[j]) = best.score

LEMMA ComparedIs ==
    ASSUME NEW product, NEW these, NEW n \in Nat, NEW best, IsBestOf(best, product, these, n),
           \A i \in 1 .. (n + 1) : NameScore(product, these[i]) \in Nat /\ these[i].ean # Absent
    PROVE  IsBestOf(Compared(best, product, these[n + 1]), product, these, n + 1)
<1> DEFINE k == n + 1
           S(i) == NameScore(product, these[i])
           row == these[k]
           new == Compared(best, product, row)
<1>1. k \in 1 .. k /\ (\A i \in 1 .. k : i = k \/ i \in 1 .. n) /\ (\A i \in 1 .. n : i \in 1 .. k /\ i # k)
    OBVIOUS
<1>2. /\ best.score \in Nat /\ best = [target |-> best.target, score |-> best.score, tie |-> best.tie]
      /\ \A i \in 1 .. n : S(i) <= best.score
      /\ \/ best.score = 0 /\ best.target = NoRow
         \/ /\ best.score > 0
            /\ \E i \in 1 .. n :
                  /\ best.target = these[i] /\ S(i) = best.score
                  /\ best.tie <=> \E j \in 1 .. n : j # i /\ S(j) = best.score
    BY DEF IsBestOf
<1>3. S(k) \in Nat /\ \A i \in 1 .. n : S(i) \in Nat
    BY <1>1
<1>4. \A i \in 1 .. n : these[i] # NoRow
    BY <1>1 DEF NoRow
<1>5. new = IF S(k) > best.score THEN [target |-> row, score |-> S(k), tie |-> FALSE]
            ELSE IF S(k) = best.score /\ best.target # NoRow THEN [best EXCEPT !.tie = TRUE]
            ELSE best
    BY DEF Compared
<1> SUFFICES
        /\ new.score \in Nat /\ new = [target |-> new.target, score |-> new.score, tie |-> new.tie]
        /\ \A i \in 1 .. k : S(i) <= new.score
        /\ \/ new.score = 0 /\ new.target = NoRow
           \/ /\ new.score > 0
              /\ \E i \in 1 .. k :
                    /\ new.target = these[i] /\ S(i) = new.score
                    /\ new.tie <=> \E j \in 1 .. k : j # i /\ S(j) = new.score
    BY DEF IsBestOf
<1> HIDE DEF S, k, row, new
<1>6. CASE S(k) > best.score
    <2>1. /\ new.target = row /\ new.score = S(k) /\ new.tie = FALSE
          /\ new = [target |-> new.target, score |-> new.score, tie |-> new.tie]
        BY <1>5, <1>6
    <2>2. \A i \in 1 .. n : S(i) < S(k)
        BY <1>2, <1>3, <1>6
    <2>3. \A j \in 1 .. k : j # k => S(j) # S(k)
        BY <1>1, <1>3, <2>2
    <2>4. ~(\E j \in 1 .. k : j # k /\ S(j) = new.score)
        BY <2>1, <2>3
    <2>5. \A i \in 1 .. k : S(i) <= new.score
        BY <1>1, <1>3, <2>1, <2>2
    <2>6. new.score > 0 /\ new.target = these[k] /\ S(k) = new.score
        BY <1>2, <1>3, <1>6, <2>1 DEF row
    <2>7. new.tie <=> \E j \in 1 .. k : j # k /\ S(j) = new.score
        BY <2>1, <2>4
    <2> QED
        BY <1>1, <1>3, <2>1, <2>5, <2>6, <2>7
<1>7. CASE ~(S(k) > best.score) /\ best.score = 0
    <2>1. best.target = NoRow
        BY <1>2, <1>7
    <2>2. new = best
        BY <1>5, <1>7, <2>1
    <2>3. S(k) <= best.score
        BY <1>2, <1>3, <1>7
    <2> QED
        BY <1>1, <1>2, <1>7, <2>1, <2>2, <2>3
<1>8. CASE ~(S(k) > best.score) /\ best.score # 0
    <2>1. PICK i \in 1 .. n :
              /\ best.target = these[i] /\ S(i) = best.score
              /\ best.tie <=> \E j \in 1 .. n : j # i /\ S(j) = best.score
        BY <1>2, <1>8
    <2>2. best.score > 0 /\ best.target # NoRow /\ i \in 1 .. k /\ i # k
        BY <1>1, <1>2, <1>4, <1>8, <2>1
    <2>3. CASE S(k) = best.score
        <3>1. new = [best EXCEPT !.tie = TRUE]
            BY <1>5, <1>8, <2>2, <2>3
        <3>2. /\ new.score = best.score /\ new.target = best.target /\ new.tie = TRUE
              /\ new = [target |-> new.target, score |-> new.score, tie |-> new.tie]
            BY <1>2, <3>1
        <3>3. new.tie <=> \E j \in 1 .. k : j # i /\ S(j) = new.score
            <4>1. \E j \in 1 .. k : j # i /\ S(j) = new.score
                BY <1>1, <2>2, <2>3, <3>2
            <4>2. new.tie
                BY <3>2
            <4> QED
                BY <4>1, <4>2
        <3>4. \A m \in 1 .. k : S(m) <= new.score
            BY <1>1, <1>2, <1>3, <2>3, <3>2
        <3> QED
            BY <1>2, <2>1, <2>2, <3>2, <3>3, <3>4
    <2>4. CASE S(k) # best.score
        <3>1. new = best
            BY <1>5, <1>8, <2>4
        <3>2. best.tie <=> \E j \in 1 .. k : j # i /\ S(j) = best.score
            BY <1>1, <2>1, <2>4
        <3>3. \A m \in 1 .. k : S(m) <= best.score
            BY <1>1, <1>2, <1>3, <1>8
        <3> QED
            BY <1>2, <2>1, <2>2, <3>1, <3>2, <3>3
    <2> QED
        BY <2>3, <2>4
<1> QED
    BY <1>2, <1>3, <1>6, <1>7, <1>8

LEMMA NearestIsBest ==
    ASSUME NEW product, NEW these, Len(these) \in Nat,
           \A i \in 1 .. Len(these) : NameScore(product, these[i]) \in Nat /\ these[i].ean # Absent
    PROVE  IsBestOf(NearestRow(product, these), product, these, Len(these))
<1> DEFINE size == Len(these)
<1>1. PICK after :
          /\ after[0] = NoneYet
          /\ \A n \in 1 .. Len(these) : after[n] = Compared(after[n - 1], product, these[n])
          /\ NearestRow(product, these) = after[Len(these)]
    BY NearestLoop
<1>2. IsBestOf(NoneYet, product, these, 0)
    BY DEF IsBestOf, NoneYet
<1> DEFINE T == {n \in Nat : n <= size /\ ~IsBestOf(after[n], product, these, n)}
<1>3. ASSUME T # {} PROVE FALSE
    <2>1. PICK n \in T : \A i \in T : n <= i
        <3>1. T \in SUBSET Nat
            OBVIOUS
        <3> HIDE DEF T
        <3> QED
            BY <1>3, <3>1, LeastOf
    <2>2. n \in Nat /\ n <= size /\ ~IsBestOf(after[n], product, these, n)
        BY <2>1
    <2>3. n # 0
        BY <1>1, <1>2, <2>2
    <2> DEFINE m == n - 1
    <2>4. n \in 1 .. size /\ m \in Nat /\ m <= size /\ ~(n <= m) /\ m + 1 = n
        BY <2>2, <2>3
    <2>5. IsBestOf(after[m], product, these, m)
        BY <2>1, <2>4
    <2>6. \A i \in 1 .. (m + 1) : NameScore(product, these[i]) \in Nat /\ these[i].ean # Absent
        <3>1. \A i \in 1 .. n : i \in 1 .. size
            BY <2>4
        <3> QED
            BY <2>4, <3>1
    <2>7. IsBestOf(Compared(after[m], product, these[m + 1]), product, these, m + 1)
        <3> HIDE DEF m
        <3> QED
            BY <2>4, <2>5, <2>6, ComparedIs
    <2>8. after[n] = Compared(after[m], product, these[n])
        BY <1>1, <2>4
    <2> QED
        <3> HIDE DEF m
        <3> QED
            BY <2>2, <2>4, <2>7, <2>8
<1>4. IsBestOf(after[size], product, these, size)
    <2>1. size <= size
        OBVIOUS
    <2> HIDE DEF size
    <2>2. size \in Nat
        BY DEF size
    <2> QED
        BY <1>3, <2>1, <2>2
<1> QED
    BY <1>1, <1>4

\* The comparison finds the one row that is nearest, or that there is none.
LEMMA NearestIs ==
    ASSUME NEW product, product.name \in DOMAIN Tokens, NEW these \in Seq(Usables)
    PROVE  IF SoleBest(NearestRow(product, these))
           THEN NearestRow(product, these).target.ean \in NearestEans(product, these)
           ELSE NearestEans(product, these) = {}
<1> DEFINE S(i) == NameScore(product, these[i])
           best == NearestRow(product, these)
           near == {n \in DOMAIN these : S(n) >= Minimum}
           nearest == {n \in near : \A m \in near : m # n => S(m) < S(n)}
<1>1. Len(these) \in Nat /\ DOMAIN these = 1 .. Len(these) /\ \A n \in DOMAIN these : these[n] \in Usables
    BY LenProperties
<1>2. \A i \in DOMAIN these : S(i) \in Nat /\ these[i].ean # Absent
    BY <1>1, ScoreIs DEF NameScore, Usables
<1>3. IsBestOf(best, product, these, Len(these))
    BY <1>1, <1>2, NearestIsBest
<1>4. /\ best.score \in Nat
      /\ \A i \in DOMAIN these : S(i) <= best.score
      /\ \/ best.score = 0 /\ best.target = NoRow
         \/ /\ best.score > 0
            /\ \E i \in DOMAIN these :
                  /\ best.target = these[i] /\ S(i) = best.score
                  /\ best.tie <=> \E j \in DOMAIN these : j # i /\ S(j) = best.score
    BY <1>1, <1>3 DEF IsBestOf
<1>5. NearestEans(product, these) = {these[n].ean : n \in nearest}
    BY DEF NearestEans
<1>6. Minimum \in Nat /\ Minimum > 0
    <2>1. Minimum \in 1 .. 300
        BY SheetAssumption
    <2> QED
        BY <2>1
<1>7. SoleBest(best) <=> best.target # NoRow /\ best.score >= Minimum /\ ~best.tie
    BY DEF SoleBest
<1>8. \A i \in DOMAIN these : these[i] # NoRow
    BY <1>2 DEF NoRow
<1> HIDE DEF S, best
<1>9. CASE SoleBest(best)
    <2>1. PICK i \in DOMAIN these :
              /\ best.target = these[i] /\ S(i) = best.score
              /\ best.tie <=> \E j \in DOMAIN these : j # i /\ S(j) = best.score
        BY <1>4, <1>7, <1>9
    <2>2. \A j \in DOMAIN these : j # i => S(j) < S(i)
        BY <1>2, <1>4, <1>7, <1>9, <2>1
    <2>3. i \in nearest
        BY <1>7, <1>9, <2>1, <2>2
    <2> QED
        BY <1>5, <1>9, <2>1, <2>3 DEF best
<1>10. CASE ~SoleBest(best)
    <2>1. ASSUME NEW n \in nearest PROVE FALSE
        <3>1. n \in DOMAIN these /\ S(n) >= Minimum /\ \A m \in near : m # n => S(m) < S(n)
            OBVIOUS
        <3>2. best.score >= Minimum /\ best.score > 0
            BY <1>2, <1>4, <1>6, <3>1
        <3>3. PICK i \in DOMAIN these :
                  /\ best.target = these[i] /\ S(i) = best.score
                  /\ best.tie <=> \E j \in DOMAIN these : j # i /\ S(j) = best.score
            BY <1>4, <3>2
        <3>4. best.tie
            BY <1>7, <1>8, <1>10, <3>2, <3>3
        <3>5. PICK j \in DOMAIN these : j # i /\ S(j) = best.score
            BY <3>3, <3>4
        <3>6. i \in near /\ j \in near
            BY <3>2, <3>3, <3>5
        <3>7. S(n) <= best.score
            BY <1>4, <3>1
        <3>8. \E m \in near : m # n /\ S(m) = best.score
            BY <3>3, <3>5, <3>6
        <3> QED
            BY <1>2, <1>4, <3>1, <3>7, <3>8
    <2> QED
        BY <1>5, <1>10, <2>1 DEF best
<1> QED
    BY <1>9, <1>10

LEMMA ProductsTyped ==
    ASSUME clones.of \in DOMAIN Submissions
    PROVE  /\ Len(Products) \in Nat /\ DOMAIN Products = 1 .. Len(Products)
           /\ \A n \in DOMAIN Products : Products[n].ean # Absent /\ Products[n].name \in Names
<1> DEFINE kinds == [ean : STRING \ {Absent}, name : Names, category : STRING, profile : STRING, profileName : STRING]
<1>1. Products \in Seq(kinds)
    BY CloneAssumption DEF Products
<1>2. \A n \in DOMAIN Products : Products[n] \in kinds
    BY <1>1, LenProperties
<1> QED
    BY <1>1, <1>2, LenProperties

LEMMA NamesAreRight ==
    ASSUME clones.of \in DOMAIN Submissions, NEW these \in Seq(Usables)
    PROVE  NameMapIsRight(Products, these, EansByName(these))
<1> DEFINE found == {n \in Named : SoleBest(NearestRow(Products[n], these))}
           LastFound(ean) == CHOOSE n \in found : Products[n].ean = ean
                              /\ \A m \in found : Products[m].ean = ean => m <= n
           byName == EansByName(these)
           WithEan(ean) == {n \in DOMAIN Products : HasWords(Products[n]) /\ Products[n].ean = ean}
           Nearest(n) == NearestEans(Products[n], these)
<1>1. /\ DOMAIN byName = {Products[n].ean : n \in found}
      /\ \A ean \in DOMAIN byName : byName[ean] = NearestRow(Products[LastFound(ean)], these).target.ean
    BY DEF EansByName
<1>2. Len(Products) \in Nat /\ DOMAIN Products = 1 .. Len(Products)
      /\ \A n \in DOMAIN Products : Products[n].ean # Absent /\ Products[n].name \in Names
    BY ProductsTyped
<1>3. \A n \in DOMAIN Products : n \in Named <=> HasWords(Products[n])
    BY <1>2 DEF Named
<1>4. \A n \in Named : n \in DOMAIN Products /\ Products[n].name \in DOMAIN Tokens
    BY <1>2 DEF Named, HasWords, Names
<1>5. \A n \in Named : IF n \in found THEN NearestRow(Products[n], these).target.ean \in Nearest(n)
                       ELSE Nearest(n) = {}
    <2>1. ASSUME NEW n \in Named
          PROVE  IF SoleBest(NearestRow(Products[n], these))
                 THEN NearestRow(Products[n], these).target.ean \in NearestEans(Products[n], these)
                 ELSE NearestEans(Products[n], these) = {}
        <3> DEFINE product == Products[n]
        <3>1. product.name \in DOMAIN Tokens
            BY <1>4
        <3> HIDE DEF product
        <3>2. IF SoleBest(NearestRow(product, these))
              THEN NearestRow(product, these).target.ean \in NearestEans(product, these)
              ELSE NearestEans(product, these) = {}
            BY <3>1, NearestIs
        <3> QED
            BY <3>2 DEF product
    <2> QED
        BY <2>1
<1>6. ASSUME NEW ean \in DOMAIN byName
      PROVE  LastFound(ean) \in found /\ Products[LastFound(ean)].ean = ean
    <2> DEFINE of == {n \in found : Products[n].ean = ean}
    <2>1. of # {}
        BY <1>1
    <2>2. of \in SUBSET Nat /\ \A n \in of : n <= Len(Products)
        BY <1>2, <1>4
    <2>3. PICK x \in of : \A y \in of : y <= x
        <3> HIDE DEF of
        <3> QED
            BY <1>2, <2>1, <2>2, GreatestOf
    <2>4. \E n \in found : Products[n].ean = ean /\ \A m \in found : Products[m].ean = ean => m <= n
        BY <2>3
    <2> HIDE DEF found
    <2> QED
        BY <2>4
<1> HIDE DEF found, LastFound, Nearest, byName
<1>7. ASSUME NEW ean \in DOMAIN byName
      PROVE  byName[ean] \in UNION {Nearest(m) : m \in WithEan(ean)}
    <2> DEFINE n == LastFound(ean)
    <2>1. n \in found /\ Products[n].ean = ean
        BY <1>6
    <2>2. n \in Named /\ n \in WithEan(ean)
        BY <1>3, <1>4, <2>1 DEF found
    <2>3. byName[ean] \in Nearest(n)
        BY <1>1, <1>5, <2>1, <2>2
    <2> HIDE DEF n
    <2> QED
        BY <2>2, <2>3
<1>8. ASSUME NEW ean, ean \notin DOMAIN byName
      PROVE  UNION {Nearest(m) : m \in WithEan(ean)} = {}
    <2>1. ASSUME NEW m \in WithEan(ean) PROVE Nearest(m) = {}
        <3>1. m \in Named /\ m \notin found
            BY <1>1, <1>3, <1>8
        <3> QED
            BY <1>5, <3>1
    <2> QED
        BY <2>1
<1>9. \A ean : IF ean \in DOMAIN byName THEN byName[ean] \in UNION {Nearest(m) : m \in WithEan(ean)}
               ELSE UNION {Nearest(m) : m \in WithEan(ean)} = {}
    BY <1>7, <1>8
<1> QED
    BY <1>9 DEF NameMapIsRight, Nearest, byName

LEMMA PlacesAreRight ==
    ASSUME clones.of \in DOMAIN Submissions, NEW theirs \in Seq(STRING)
    PROVE  IndexMapIsRight(Products, theirs, EansByIndex(theirs))
<1> DEFINE sources == Submissions[clones.of].sources
           Current(n) == CurrentEan(Products[n], IF n <= Len(sources) THEN sources[n] ELSE Absent)
           paired == {n \in 1 .. Smaller(Len(Products), Len(theirs)) : Current(n) # Absent /\ theirs[n] # Absent}
           LastPaired(ean) == CHOOSE n \in paired : Current(n) = ean
                                 /\ \A m \in paired : Current(m) = ean => m <= n
           byIndex == EansByIndex(theirs)
           WithEan(ean) == {n \in DOMAIN Products \cap DOMAIN theirs : Products[n].ean = ean /\ theirs[n] # Absent}
<1>1. /\ DOMAIN byIndex = {Current(n) : n \in paired}
      /\ \A ean \in DOMAIN byIndex : byIndex[ean] = theirs[LastPaired(ean)]
    BY DEF EansByIndex
<1>2. Len(Products) \in Nat /\ DOMAIN Products = 1 .. Len(Products)
      /\ \A n \in DOMAIN Products : Products[n].ean # Absent
    BY ProductsTyped
<1>3. Len(theirs) \in Nat /\ DOMAIN theirs = 1 .. Len(theirs)
    BY LenProperties
<1>4. \A n : n \in 1 .. Smaller(Len(Products), Len(theirs)) <=> n \in DOMAIN Products /\ n \in DOMAIN theirs
    BY <1>2, <1>3 DEF Smaller
<1>5. \A n \in DOMAIN Products : Current(n) = Products[n].ean
    BY <1>2 DEF CurrentEan
<1> HIDE DEF Current
<1>6. \A ean, n : n \in WithEan(ean) <=> n \in paired /\ Current(n) = ean
    BY <1>2, <1>4, <1>5
<1>7. paired \in SUBSET Nat /\ \A n \in paired : n <= Len(Products)
    BY <1>2, <1>4
<1> HIDE DEF paired, WithEan
<1>8. ASSUME NEW ean \in DOMAIN byIndex
      PROVE  byIndex[ean] \in {theirs[m] : m \in WithEan(ean)}
    <2> DEFINE of == {n \in paired : Current(n) = ean}
    <2>1. of # {}
        BY <1>1
    <2>2. of \in SUBSET Nat /\ \A n \in of : n <= Len(Products)
        BY <1>7
    <2>3. PICK x \in of : \A y \in of : y <= x
        <3> HIDE DEF of
        <3> QED
            BY <1>2, <2>1, <2>2, GreatestOf
    <2>4. \E n \in paired : Current(n) = ean /\ \A m \in paired : Current(m) = ean => m <= n
        BY <2>3
    <2>5. LastPaired(ean) \in paired /\ Current(LastPaired(ean)) = ean
        BY <2>4
    <2> HIDE DEF LastPaired
    <2> QED
        BY <1>1, <1>6, <2>5
<1>9. ASSUME NEW ean, ean \notin DOMAIN byIndex
      PROVE  {theirs[m] : m \in WithEan(ean)} = {}
    BY <1>1, <1>6, <1>9
<1> HIDE DEF byIndex
<1>10. \A ean : IF ean \in DOMAIN byIndex THEN byIndex[ean] \in {theirs[m] : m \in WithEan(ean)}
                ELSE {theirs[m] : m \in WithEan(ean)} = {}
    BY <1>8, <1>9
<1> QED
    BY <1>10 DEF IndexMapIsRight, WithEan, byIndex

LEMMA CounterpartIs ==
    ASSUME NEW factory
    PROVE  \/ CounterpartOf(factory) = 0
           \/ FactoryItems[CounterpartOf(factory)] \in Seq(STRING)
<1> DEFINE same == {id \in DOMAIN FactoryTable :
                    /\ FactoryTable[id].account = "xl"
                    /\ FactoryTable[id].name = FactoryTable[factory].name}
           largest == {id \in same : \A other \in same : FactoryTable[other].count <= FactoryTable[id].count}
           first == CHOOSE id \in largest \cup {0} : (id = 0 <=> largest = {}) /\ \A other \in largest : id <= other
<1>1. CounterpartOf(factory) = first
    BY DEF CounterpartOf
<1>2. \A id \in largest : id \in Nat \ {0} /\ FactoryItems[id] \in Seq(STRING)
    BY CloneAssumption
<1> HIDE DEF largest
<1>3. \E id \in largest \cup {0} : (id = 0 <=> largest = {}) /\ \A other \in largest : id <= other
    <2>1. CASE largest = {}
        BY <2>1
    <2>2. CASE largest # {}
        <3>1. largest \in SUBSET Nat
            BY <1>2
        <3>2. PICK id \in largest : \A other \in largest : id <= other
            BY <2>2, <3>1, LeastOf
        <3> QED
            BY <1>2, <2>2, <3>2
    <2> QED
        BY <2>1, <2>2
<1>4. first \in largest \cup {0}
    BY <1>3
<1> HIDE DEF first
<1> QED
    BY <1>1, <1>2, <1>4

LEMMA CloneStarts == CloneInit => CloneInv
<1> SUFFICES ASSUME CloneInit PROVE CloneInv
    OBVIOUS
<1>1. /\ clones.of \in DOMAIN Submissions /\ clones.at = "begin" /\ clones.rows = <<>>
      /\ clones.byName = NoMap /\ clones.byIndex = NoMap /\ clones.items = <<>>
      /\ clones.written = NothingWritten
      /\ clones = [of |-> clones.of, at |-> clones.at, rows |-> clones.rows, byName |-> clones.byName,
                    byIndex |-> clones.byIndex, items |-> clones.items, written |-> clones.written]
    BY DEF CloneInit
<1>2. \A product : NearestEans(product, <<>>) = {}
    BY DEF NearestEans
<1>3. NameMapIsRight(Products, <<>>, NoMap)
    BY <1>2 DEF NameMapIsRight, NoMap
<1>4. IndexMapIsRight(Products, <<>>, NoMap)
    BY DEF IndexMapIsRight, NoMap
<1> QED
    BY <1>1, <1>3, <1>4 DEF CloneInv

LEMMA ClonesSame ==
    ASSUME clones'.of = clones.of
    PROVE  Products' = Products /\ AllMapped' = AllMapped
BY DEF Products, AllMapped

LEMMA WrittenAre == \A xl : Written(xl) = BodiesOf(clones.of, xl)
BY DEF Written, BodiesOf, Products

\* A step that only goes on.
LEMMA CloneGoesOn ==
    ASSUME CloneInv, NEW place \in {"index", "profiles", "raised"}, clones.at # "ended",
           Submissions[clones.of].dual, clones' = [clones EXCEPT !.at = place]
    PROVE  CloneInv'
<1>1. /\ clones'.of = clones.of /\ clones'.at = place /\ clones'.rows = clones.rows
      /\ clones'.byName = clones.byName /\ clones'.byIndex = clones.byIndex
      /\ clones'.items = clones.items /\ clones'.written = clones.written
      /\ clones' = [of |-> clones'.of, at |-> clones'.at, rows |-> clones'.rows, byName |-> clones'.byName,
                    byIndex |-> clones'.byIndex, items |-> clones'.items, written |-> clones'.written]
    BY DEF CloneInv
<1> QED
    BY <1>1, ClonesSame DEF CloneInv

LEMMA OneAccountKept ==
    ASSUME CloneInv, OneAccountOnly
    PROVE  CloneInv'
<1>1. /\ clones'.of = clones.of /\ clones'.at = "ended" /\ clones'.rows = clones.rows
      /\ clones'.byName = clones.byName /\ clones'.byIndex = clones.byIndex
      /\ clones'.items = clones.items /\ clones'.written = BodiesOf(clones.of, <<>>)
      /\ clones' = [of |-> clones'.of, at |-> clones'.at, rows |-> clones'.rows, byName |-> clones'.byName,
                    byIndex |-> clones'.byIndex, items |-> clones'.items, written |-> clones'.written]
    BY WrittenAre DEF CloneInv, OneAccountOnly
<1>2. ~Submissions[clones.of].dual
    BY DEF OneAccountOnly
<1> QED
    BY <1>1, <1>2, ClonesSame DEF CloneInv

LEMMA ReadRowsKept ==
    ASSUME RowsInv, CloneInv, ReadRows
    PROVE  CloneInv'
<1> DEFINE these == RowsOfCategories(TargetRows)
<1>1. NameMapIsRight(Products, these, EansByName(these))
    <2>1. these \in Seq(Usables)
        BY RowsRead
    <2>2. clones.of \in DOMAIN Submissions
        BY DEF CloneInv
    <2> HIDE DEF these
    <2> QED
        BY <2>1, <2>2, NamesAreRight
<1>2. clones' = [clones EXCEPT !.at = "index", !.rows = these, !.byName = EansByName(these)] /\ clones.at = "begin"
      /\ Submissions[clones.of].dual
    BY DEF ReadRows
<1> HIDE DEF these
<1>3. /\ clones'.of = clones.of /\ clones'.at = "index" /\ clones'.rows = these
      /\ clones'.byName = EansByName(these) /\ clones'.byIndex = clones.byIndex
      /\ clones'.items = clones.items /\ clones'.written = clones.written
      /\ clones' = [of |-> clones'.of, at |-> clones'.at, rows |-> clones'.rows, byName |-> clones'.byName,
                    byIndex |-> clones'.byIndex, items |-> clones'.items, written |-> clones'.written]
    BY <1>2 DEF CloneInv
<1> QED
    BY <1>1, <1>2, <1>3, ClonesSame DEF CloneInv

LEMMA AskFactoryKept ==
    ASSUME CloneInv, AskFactory
    PROVE  CloneInv'
<1> DEFINE target == CounterpartOf(Submissions[clones.of].factory)
           theirs  == IF target = 0 THEN <<>> ELSE FactoryItems[target]
<1>1. IndexMapIsRight(Products, theirs, EansByIndex(theirs))
    <2>1. target = 0 \/ FactoryItems[target] \in Seq(STRING)
        BY CounterpartIs
    <2>2. <<>> \in Seq(STRING)
        OBVIOUS
    <2>3. theirs \in Seq(STRING)
        <3> HIDE DEF target
        <3> QED
            BY <2>1, <2>2
    <2>4. clones.of \in DOMAIN Submissions
        BY DEF CloneInv
    <2> HIDE DEF theirs
    <2> QED
        BY <2>3, <2>4, PlacesAreRight
<1>2. clones' = [clones EXCEPT !.at = "profiles", !.items = theirs, !.byIndex = EansByIndex(theirs)] /\ clones.at = "index"
    BY DEF AskFactory
<1> HIDE DEF theirs
<1>3. /\ clones'.of = clones.of /\ clones'.at = "profiles" /\ clones'.rows = clones.rows
      /\ clones'.byName = clones.byName /\ clones'.byIndex = EansByIndex(theirs)
      /\ clones'.items = theirs /\ clones'.written = clones.written
      /\ clones' = [of |-> clones'.of, at |-> clones'.at, rows |-> clones'.rows, byName |-> clones'.byName,
                    byIndex |-> clones'.byIndex, items |-> clones'.items, written |-> clones'.written]
    BY <1>2 DEF CloneInv
<1> QED
    BY <1>1, <1>2, <1>3, ClonesSame DEF CloneInv

LEMMA MapProfilesKept ==
    ASSUME CloneInv, MapProfiles
    PROVE  CloneInv'
<1> DEFINE known == MappedEans(clones.byName, clones.byIndex)
           bodies == ClonesOf(clones.of, known)
<1>1. CASE AllMapped
    <2>1. bodies = [n \in DOMAIN Products |-> CloneOf(Products[n], known)]
        BY DEF ClonesOf, Products
    <2>2. clones' = [clones EXCEPT !.at = "ended", !.written = Written(bodies)]
        BY <1>1, <2>1 DEF MapProfiles
    <2>3. /\ clones'.of = clones.of /\ clones'.at = "ended" /\ clones'.rows = clones.rows
          /\ clones'.byName = clones.byName /\ clones'.byIndex = clones.byIndex
          /\ clones'.items = clones.items /\ clones'.written = BodiesOf(clones.of, bodies)
          /\ clones' = [of |-> clones'.of, at |-> clones'.at, rows |-> clones'.rows, byName |-> clones'.byName,
                        byIndex |-> clones'.byIndex, items |-> clones'.items, written |-> clones'.written]
        <3> HIDE DEF bodies
        <3> QED
            BY <2>2, WrittenAre DEF CloneInv
    <2>4. clones'.written =
              BodiesOf(clones'.of, ClonesOf(clones'.of, MappedEans(clones'.byName, clones'.byIndex)))
        BY <2>3
    <2>5. /\ NameMapIsRight(Products, clones.rows, clones.byName)
          /\ IndexMapIsRight(Products, clones.items, clones.byIndex)
          /\ clones.of \in DOMAIN Submissions
        BY DEF CloneInv
    <2>6. Products' = Products /\ AllMapped' = AllMapped
        BY <2>3, ClonesSame
    <2>7. Submissions[clones.of].dual
        BY DEF CloneInv, MapProfiles
    <2> HIDE DEF bodies, known
    <2> QED
        BY <1>1, <2>3, <2>4, <2>5, <2>6, <2>7 DEF CloneInv
<1>2. CASE ~AllMapped
    <2>1. /\ clones.at = "profiles" /\ clones' = [clones EXCEPT !.at = "raised"]
          /\ Submissions[clones.of].dual
        BY <1>2 DEF MapProfiles, CloneInv
    <2> QED
        BY <2>1, CloneGoesOn
<1> QED
    BY <1>1, <1>2

LEMMA CloneKept ==
    ASSUME RowsInv, CloneInv, [CloneNext]_<<scene, cloneVars>>
    PROVE  CloneInv'
<1>1. CASE UNCHANGED clones
    <2>1. clones'.of = clones.of
        BY <1>1
    <2>2. Products' = Products /\ AllMapped' = AllMapped
        BY <2>1, ClonesSame
    <2> QED
        BY <1>1, <2>2 DEF CloneInv
<1>2. CASE Plays("clones") /\ CloneStep
    <2>1. CASE OneAccountOnly
        BY <2>1, OneAccountKept
    <2>2. CASE ReadRows
        BY <2>2, ReadRowsKept
    <2>3. CASE ReadRowsFails
        BY <2>3, CloneGoesOn DEF ReadRowsFails, CloneGoes
    <2>4. CASE AskFactory
        BY <2>4, AskFactoryKept
    <2>5. CASE AskFactoryFails
        BY <2>5, CloneGoesOn DEF AskFactoryFails, CloneGoes, CloneInv
    <2>6. CASE MapProfiles
        BY <2>6, MapProfilesKept
    <2>7. CASE MapProfilesFails
        BY <2>7, CloneGoesOn DEF MapProfilesFails, CloneGoes, CloneInv
    <2> QED
        BY <1>2, <2>1, <2>2, <2>3, <2>4, <2>5, <2>6, <2>7 DEF CloneStep
<1> QED
    BY <1>1, <1>2 DEF CloneNext, cloneVars

LEMMA CloneSafe == CloneSafety => [](SheetsInv /\ CloneInv)
<1>1. SheetInit /\ CloneInit => SheetsInv /\ CloneInv
    BY SheetsStart, CloneStarts
<1>2. SheetsInv /\ CloneInv /\ [CloneNext]_<<scene, cloneVars>> => SheetsInv' /\ CloneInv'
    <2> SUFFICES ASSUME SheetsInv, CloneInv, [CloneNext]_<<scene, cloneVars>> PROVE SheetsInv' /\ CloneInv'
        OBVIOUS
    <2>1. SheetAct \/ UNCHANGED sheetVars
        BY SheetMoves
    <2>2. SheetsInv'
        BY <2>1, SheetsKept, SheetsRest
    <2>3. CloneInv'
        BY CloneKept DEF SheetsInv
    <2> QED
        BY <2>2, <2>3
<1> QED
    BY <1>1, <1>2, PTL DEF CloneSafety

LEMMA LastOfIs ==
    ASSUME NEW account \in {"jv", "xl"}, NEW key \in {"id", "name"}, NEW value
    PROVE  LET p == LastOf(account, key, value)
           IN  \/ /\ p.id = Absent /\ p.name = Absent
                  /\ \A n \in DOMAIN Profiles[account] : Profiles[account][n][key] # value
               \/ \E n \in DOMAIN Profiles[account] :
                     p = Profiles[account][n] /\ p[key] = value /\ p.id # Absent /\ p.name # Absent
<1> DEFINE listed == Profiles[account]
           at == {n \in DOMAIN listed : listed[n][key] = value}
           last == CHOOSE n \in at : \A m \in at : m <= n
           kinds == [id : STRING \ {Absent}, name : STRING \ {Absent}]
<1>1. LastOf(account, key, value) = IF at = {} THEN [id |-> Absent, name |-> Absent] ELSE listed[last]
    BY DEF LastOf
<1>2. listed \in Seq(kinds)
    BY CloneAssumption
<1>3. Len(listed) \in Nat /\ DOMAIN listed = 1 .. Len(listed) /\ \A n \in DOMAIN listed : listed[n] \in kinds
    <2> HIDE DEF kinds, listed
    <2> QED
        BY <1>2, LenProperties
<1> HIDE DEF listed
<1>4. CASE at = {}
    <2>1. \A n \in DOMAIN listed : listed[n][key] # value
        BY <1>4
    <2> QED
        BY <1>1, <1>4, <2>1 DEF listed
<1>5. CASE at # {}
    <2>1. at \in SUBSET Nat /\ \A n \in at : n <= Len(listed)
        BY <1>3
    <2>2. \E x \in at : \A y \in at : y <= x
        <3> HIDE DEF at
        <3> QED
            BY <1>3, <1>5, <2>1, GreatestOf
    <2>3. last \in at
        <3> HIDE DEF at
        <3> QED
            BY <2>2
    <2> HIDE DEF last
    <2>4. last \in DOMAIN listed /\ listed[last][key] = value /\ listed[last] \in kinds
        BY <1>3, <2>3
    <2>5. listed[last].id # Absent /\ listed[last].name # Absent
        BY <2>4
    <2>6. LastOf(account, key, value) = listed[last]
        BY <1>1, <1>5
    <2> QED
        BY <2>4, <2>5, <2>6 DEF listed
<1> QED
    BY <1>4, <1>5

LEMMA ClonesAreTrue ==
    ASSUME CloneInv
    PROVE  CloneHasTheRightEan
<1> SUFFICES ASSUME clones.at = "ended", NEW n \in DOMAIN clones.written.xl
             PROVE  LET product == Products[n]
                        again   == {m \in DOMAIN Products : Products[m].ean = product.ean}
                        named   == UNION {NearestEans(Products[m], clones.rows) : m \in again \cap Named}
                        placed  == {clones.items[m] : m \in again \cap DOMAIN clones.items} \ {Absent}
                    IN  clones.written.xl[n].ean \in
                            IF named # {} THEN named ELSE IF placed # {} THEN placed ELSE {product.ean}
    BY DEF CloneHasTheRightEan
<1> DEFINE ean == Products[n].ean
           again == {m \in DOMAIN Products : Products[m].ean = ean}
           named == UNION {NearestEans(Products[m], clones.rows) : m \in again \cap Named}
           placed == {clones.items[m] : m \in again \cap DOMAIN clones.items} \ {Absent}
           byName == clones.byName
           byIndex == clones.byIndex
           known == MappedEans(byName, byIndex)
<1>1. CASE ~Submissions[clones.of].dual
    <2>1. clones.written.xl = <<>>
        BY <1>1 DEF CloneInv, BodiesOf
    <2> QED
        BY <2>1
<1>2. CASE Submissions[clones.of].dual
    <2>1. clones.of \in DOMAIN Submissions /\ clones.written.xl = ClonesOf(clones.of, known)
        BY <1>2 DEF CloneInv, BodiesOf
    <2>2. n \in DOMAIN Products /\ clones.written.xl[n] = CloneOf(Products[n], known)
        BY <2>1 DEF ClonesOf, Products
    <2>3. clones.written.xl[n].ean = IF ean \in DOMAIN known THEN known[ean] ELSE ean
        BY <2>2 DEF CloneOf
    <2>4. /\ DOMAIN known = DOMAIN byName \cup DOMAIN byIndex
          /\ \A e \in DOMAIN known : known[e] = IF e \in DOMAIN byName THEN byName[e] ELSE byIndex[e]
        BY DEF MappedEans
    <2>5. IF ean \in DOMAIN byName THEN byName[ean] \in named ELSE named = {}
        <3>1. \A m \in DOMAIN Products : Products[m].ean # Absent
            BY <2>1, ProductsTyped
        <3>2. {m \in DOMAIN Products : HasWords(Products[m]) /\ Products[m].ean = ean} = again \cap Named
            BY <3>1 DEF Named
        <3>3. LET those == UNION {NearestEans(Products[m], clones.rows) :
                        m \in {k \in DOMAIN Products : HasWords(Products[k]) /\ Products[k].ean = ean}}
              IN  IF ean \in DOMAIN byName THEN byName[ean] \in those ELSE those = {}
            BY <2>2 DEF CloneInv, NameMapIsRight
        <3> QED
            BY <3>2, <3>3
    <2>6. IF ean \in DOMAIN byIndex THEN byIndex[ean] \in placed ELSE placed = {}
        <3>1. LET those == {clones.items[m] : m \in {k \in DOMAIN Products \cap DOMAIN clones.items :
                                            Products[k].ean = ean /\ clones.items[k] # Absent}}
              IN  IF ean \in DOMAIN byIndex THEN byIndex[ean] \in those ELSE those = {}
            BY <2>2 DEF CloneInv, IndexMapIsRight
        <3>2. {clones.items[m] : m \in {k \in DOMAIN Products \cap DOMAIN clones.items :
                                            Products[k].ean = ean /\ clones.items[k] # Absent}} = placed
            OBVIOUS
        <3> QED
            BY <3>1, <3>2
    <2> HIDE DEF ean, named, placed, known, byName, byIndex
    <2>7. clones.written.xl[n].ean \in IF named # {} THEN named ELSE IF placed # {} THEN placed ELSE {ean}
        BY <2>3, <2>4, <2>5, <2>6
    <2> QED
        BY <2>7 DEF ean, named, placed
<1> QED
    BY <1>1, <1>2

LEMMA ProfilesAreRight ==
    ASSUME NEW product, ProfileFor(product).id # Absent
    PROVE  \E p \in ToSet(Profiles["xl"]) :
              /\ p.id = ProfileFor(product).id
              /\ \A q \in ToSet(Profiles["jv"]) : q.id = product.profile => q.name = p.name
<1>1. PICK n \in DOMAIN Profiles["xl"] :
          ProfileFor(product) = Profiles["xl"][n] /\ Profiles["xl"][n].name = ProfileName(product)
    <2> DEFINE value == ProfileName(product)
    <2>1. ProfileFor(product) = LastOf("xl", "name", value)
        BY DEF ProfileFor
    <2> HIDE DEF value
    <2> QED
        BY <2>1, LastOfIs DEF value
<1>2. Profiles["xl"][n] \in ToSet(Profiles["xl"])
    BY DEF ToSet
<1>3. ASSUME NEW q \in ToSet(Profiles["jv"]), q.id = product.profile
      PROVE  q.name = ProfileName(product)
    <2>1. PICK m \in DOMAIN Profiles["jv"] : q = Profiles["jv"][m]
        BY DEF ToSet
    <2> DEFINE own == LastOf("jv", "id", product.profile)
    <2>2. PICK k \in DOMAIN Profiles["jv"] :
              own = Profiles["jv"][k] /\ own.id = product.profile /\ own.name # Absent
        <3>1. "jv" \in {"jv", "xl"} /\ "id" \in {"id", "name"} /\ Profiles["jv"][m]["id"] = product.profile
            BY <1>3, <2>1
        <3> QED
            BY <3>1, LastOfIs
    <2>3. k = m
        BY <1>3, <2>1, <2>2, CloneAssumption
    <2> QED
        BY <2>1, <2>2, <2>3 DEF ProfileName
<1> QED
    BY <1>1, <1>2, <1>3

\* The products of the other account are in the availability job, after the own ones.
LEMMA AvailabilityHas ==
    ASSUME NEW k \in Nat, NEW own, NEW their, DOMAIN own = 1 .. k, DOMAIN their = 1 .. k, NEW n \in 1 .. k
    PROVE  [account |-> "xl", sku |-> their[n].ean, profile |-> their[n].profile]
               \in ToSet(Availability("jv", own) \o Availability("xl", their))
<1> DEFINE first == Availability("jv", own)
           second == Availability("xl", their)
           S == {first[i] : i \in 1 .. k} \cup {second[i] : i \in 1 .. k}
<1>1. DOMAIN first = 1 .. k /\ DOMAIN second = 1 .. k
    BY DEF Availability
<1>2. first \in [1 .. k -> S] /\ second \in [1 .. k -> S]
    BY <1>1 DEF Availability
<1>3. second[n] = [account |-> "xl", sku |-> their[n].ean, profile |-> their[n].profile]
    BY DEF Availability
<1> HIDE DEF first, second, S
<1>4. first \in Seq(S) /\ Len(first) = k /\ second \in Seq(S) /\ Len(second) = k
    BY <1>2, SequenceOf
<1>5. /\ first \o second \in Seq(S) /\ Len(first \o second) = k + k
      /\ \A i \in 1 .. (k + k) : (first \o second)[i] = IF i <= k THEN first[i] ELSE second[i - k]
    <2>1. /\ first \o second \in Seq(S) /\ Len(first \o second) = Len(first) + Len(second)
          /\ \A i \in 1 .. (Len(first) + Len(second)) :
                (first \o second)[i] = IF i <= Len(first) THEN first[i] ELSE second[i - Len(first)]
        BY <1>4, ConcatProperties
    <2> QED
        BY <1>4, <2>1
<1>6. DOMAIN (first \o second) = 1 .. (k + k)
    BY <1>5, LenProperties
<1>7. k + n \in 1 .. (k + k) /\ ~(k + n <= k) /\ (k + n) - k = n
    OBVIOUS
<1>8. (first \o second)[k + n] = second[n] /\ k + n \in DOMAIN (first \o second)
    BY <1>5, <1>6, <1>7
<1> QED
    BY <1>3, <1>8 DEF ToSet, first, second

LEMMA BothAreWritten ==
    ASSUME CloneInv
    PROVE  BothAccountsOrNone
<1> SUFFICES ASSUME clones.written # NothingWritten
             PROVE  /\ Submissions[clones.of].dual => Len(clones.written.xl) = Len(clones.written.jv)
                    /\ \A n \in DOMAIN clones.written.xl :
                          \E p \in ToSet(Profiles["xl"]) :
                             /\ p.id = clones.written.xl[n].profile
                             /\ \A q \in ToSet(Profiles["jv"]) :
                                   q.id = clones.written.jv[n].profile => q.name = p.name
                             /\ [account |-> "xl", sku |-> clones.written.xl[n].ean, profile |-> p.id]
                                    \in ToSet(clones.written.availability)
    BY DEF BothAccountsOrNone
<1>1. clones.at = "ended" /\ clones.of \in DOMAIN Submissions
    BY DEF CloneInv
<1>2. CASE ~Submissions[clones.of].dual
    <2>1. clones.written.xl = <<>>
        BY <1>1, <1>2 DEF CloneInv, BodiesOf
    <2> QED
        BY <1>2, <2>1
<1>3. CASE Submissions[clones.of].dual
    <2> DEFINE their == ClonesOf(clones.of, MappedEans(clones.byName, clones.byIndex))
               own == [n \in DOMAIN Products |-> OwnBody(Products[n])]
               k == Len(Products)
    <2>1. AllMapped /\ clones.written = BodiesOf(clones.of, their)
        BY <1>1, <1>3 DEF CloneInv
    <2>2. /\ clones.written.xl = their /\ clones.written.jv = own
          /\ clones.written.availability = Availability("jv", own) \o Availability("xl", their)
        <3> HIDE DEF their
        <3> QED
            BY <2>1 DEF BodiesOf, Products
    <2>3. k \in Nat /\ DOMAIN Products = 1 .. k
        BY <1>1, ProductsTyped
    <2>4. /\ DOMAIN their = 1 .. k /\ DOMAIN own = 1 .. k
          /\ \A n \in 1 .. k : own[n].profile = Products[n].profile
                               /\ their[n].profile = ProfileFor(Products[n]).id
        BY <2>3 DEF ClonesOf, Products, OwnBody, CloneOf
    <2>5. Len(their) = Len(own)
        <3> DEFINE S == {their[n] : n \in 1 .. k} \cup {own[n] : n \in 1 .. k}
        <3>1. their \in [1 .. k -> S] /\ own \in [1 .. k -> S]
            BY <2>4 DEF ClonesOf
        <3> HIDE DEF their, own, S, k
        <3> QED
            BY <2>3, <3>1, SequenceOf
    <2> HIDE DEF their, own, k
    <2>6. ASSUME NEW n \in 1 .. k
          PROVE  \E p \in ToSet(Profiles["xl"]) :
                    /\ p.id = their[n].profile
                    /\ \A q \in ToSet(Profiles["jv"]) : q.id = own[n].profile => q.name = p.name
                    /\ [account |-> "xl", sku |-> their[n].ean, profile |-> p.id]
                           \in ToSet(Availability("jv", own) \o Availability("xl", their))
        <3>1. ProfileFor(Products[n]).id # Absent
            BY <2>1, <2>3 DEF AllMapped
        <3>2. PICK p \in ToSet(Profiles["xl"]) :
                  /\ p.id = ProfileFor(Products[n]).id
                  /\ \A q \in ToSet(Profiles["jv"]) : q.id = Products[n].profile => q.name = p.name
            <4> DEFINE product == Products[n]
            <4> HIDE DEF product
            <4>1. ProfileFor(product).id # Absent
                BY <3>1 DEF product
            <4>2. \E p \in ToSet(Profiles["xl"]) :
                     /\ p.id = ProfileFor(product).id
                     /\ \A q \in ToSet(Profiles["jv"]) : q.id = product.profile => q.name = p.name
                BY <4>1, ProfilesAreRight
            <4> QED
                BY <4>2 DEF product
        <3>3. [account |-> "xl", sku |-> their[n].ean, profile |-> their[n].profile]
                  \in ToSet(Availability("jv", own) \o Availability("xl", their))
            BY <2>3, <2>4, AvailabilityHas
        <3> QED
            BY <2>4, <3>2, <3>3
    <2> QED
        BY <2>2, <2>4, <2>5, <2>6
<1> QED
    BY <1>2, <1>3

-----------------------------------------------------------------------------
(* A sequence of sequences, put together.                                  *)

LEMMA Within ==
    \A a, b \in Nat : /\ a + b \in Nat /\ a <= a + b
                      /\ \A m \in 1 .. a : m \in 1 .. a + b
                      /\ \A m \in 1 .. b : a + m \in 1 .. a + b /\ ~(a + m <= a) /\ (a + m) - a = m
                      /\ \A k \in 1 .. a + b : k \notin 1 .. a => k - a \in 1 .. b /\ k = a + (k - a)
OBVIOUS

\* FlattenSeq, step by step.
LEMMA FlattenIs ==
    ASSUME NEW T, NEW s \in Seq(Seq(T))
    PROVE  \E f \in [0 .. Len(s) -> Seq(T)] :
              /\ f[0] = <<>> /\ \A n \in 1 .. Len(s) : f[n] = f[n - 1] \o s[n]
              /\ FlattenSeq(s) = f[Len(s)]
<1>1. Len(s) \in Nat /\ \A n \in 1 .. Len(s) : s[n] \in Seq(T)
    BY LenProperties
<1>2. CASE Len(s) = 0
    <2>1. s = <<>>
        BY <1>2, EmptySeq
    <2>2. FlattenSeq(s) = <<>>
        BY <1>2, <2>1 DEF FlattenSeq
    <2>3. <<>> \in Seq(T)
        OBVIOUS
    <2> DEFINE f == [n \in 0 .. 0 |-> <<>>]
    <2>4. f \in [0 .. 0 -> Seq(T)] /\ f[0] = <<>>
        BY <2>3
    <2> HIDE DEF f
    <2> QED
        BY <1>2, <2>2, <2>4
<1>3. CASE Len(s) # 0
    <2> DEFINE size == Len(s)
               Goes(g) == g = [i \in 1 .. size |-> IF i = 1 THEN s[i] ELSE g[i - 1] \o s[i]]
               next == [x \in Seq(T) |-> [n \in Nat |-> IF n \in 1 .. size THEN x \o s[n] ELSE <<>>]]
               flat == CHOOSE g : Goes(g)
    <2>1. FlattenSeq(s) = flat[size]
        BY <1>3 DEF FlattenSeq
    <2>2. next \in [Seq(T) -> [Nat -> Seq(T)]]
        BY <1>1
    <2>3. ASSUME NEW x \in Seq(T), NEW n \in 1 .. size PROVE next[x][n] = x \o s[n]
        <3>1. n \in Nat
            BY <1>1
        <3> QED
            BY <3>1
    <2>4. <<>> \in Seq(T) /\ size \in Nat /\ size # 0 /\ size \in 0 .. size
        BY <1>1, <1>3
    <2> HIDE DEF next, size
    <2>5. PICK f \in [0 .. size -> Seq(T)] : f[0] = <<>> /\ \A n \in 1 .. size : f[n] = next[f[n - 1]][n]
        <3> DEFINE S == Seq(T)
                   zero == <<>>
        <3>1. zero \in S /\ next \in [S -> [Nat -> S]]
            BY <2>2, <2>4
        <3> HIDE DEF S, zero
        <3>2. \E f : IsLoop(f, S, zero, next, size)
            BY <2>4, <3>1, LoopRuns
        <3> QED
            BY <3>2 DEF IsLoop, S, zero
    <2>6. \A n \in 1 .. size : n - 1 \in 0 .. size /\ f[n - 1] \in Seq(T)
        BY <2>4
    <2>7. \A n \in 1 .. size : f[n] = f[n - 1] \o s[n]
        BY <2>3, <2>5, <2>6
    <2>8. f[1] = s[1]
        <3>1. 1 \in 1 .. size /\ s[1] \in Seq(T)
            BY <1>1, <2>4 DEF size
        <3>2. \A n \in 1 .. size : n = 1 => f[n] = f[0] \o s[n]
            <4>1. \A n \in 1 .. size : n = 1 => n - 1 = 0
                OBVIOUS
            <4> QED
                BY <2>7, <4>1
        <3>3. f[1] = <<>> \o s[1]
            BY <2>5, <3>1, <3>2
        <3> QED
            BY <3>1, <3>3
    <2> DEFINE g == [i \in 1 .. size |-> f[i]]
               again == [i \in 1 .. size |-> IF i = 1 THEN s[i] ELSE g[i - 1] \o s[i]]
    <2>9. ASSUME NEW i \in 1 .. size PROVE g[i] = again[i]
        <3>1. CASE i = 1
            BY <2>8, <3>1
        <3>2. CASE i # 1
            <4>1. i - 1 \in 1 .. size
                BY <2>4, <3>2
            <4>2. g[i - 1] = f[i - 1] /\ f[i] = f[i - 1] \o s[i]
                BY <2>7, <4>1
            <4> QED
                BY <3>2, <4>2
        <3> QED
            BY <3>1, <3>2
    <2>10. g = again
        BY <2>9
    <2>11. Goes(g)
        <3> HIDE DEF g
        <3> QED
            BY <2>10
    <2>12. Goes(flat)
        <3> HIDE DEF Goes, g
        <3> QED
            BY <2>11
    <2> HIDE DEF flat, g, again
    <2>13. \A i \in 1 .. size : flat[i] = IF i = 1 THEN s[i] ELSE flat[i - 1] \o s[i]
        BY <2>12
    <2> DEFINE all == {n \in 0 .. size : n = 0 \/ flat[n] = f[n]}
    <2>14. 0 \in all
        BY <2>4
    <2>15. ASSUME NEW n \in 1 .. size, n - 1 \in all PROVE n \in all
        <3>1. n \in 0 .. size
            BY <2>4
        <3>2. CASE n = 1
            BY <2>8, <2>13, <3>1, <3>2
        <3>3. CASE n # 1
            <4>1. flat[n - 1] = f[n - 1]
                BY <2>4, <2>15, <3>3
            <4> QED
                BY <2>7, <2>13, <3>1, <3>3, <4>1
        <3> QED
            BY <3>2, <3>3
    <2>16. flat[size] = f[size]
        <3>1. size \in all
            <4> HIDE DEF all
            <4>1. \A n \in 0 .. size : n \in all
                BY <2>4, <2>14, <2>15, Reaches
            <4> QED
                BY <2>4, <4>1
        <3> QED
            BY <2>4, <3>1
    <2> QED
        BY <2>1, <2>5, <2>7, <2>16 DEF size
<1> QED
    BY <1>2, <1>3

\* The length of what comes before the i-th.
Before(s, i) == Len(FlattenSeq(SubSeq(s, 1, i - 1)))

LEMMA FlattenedTo ==
    ASSUME NEW T, NEW s \in Seq(Seq(T)), NEW f \in [0 .. Len(s) -> Seq(T)],
           f[0] = <<>>, \A n \in 1 .. Len(s) : f[n] = f[n - 1] \o s[n], NEW j \in 0 .. Len(s)
    PROVE  FlattenSeq(SubSeq(s, 1, j)) = f[j]
<1> DEFINE part == SubSeq(s, 1, j)
<1>1. Len(s) \in Nat
    BY LenProperties
<1>2. part \in Seq(Seq(T)) /\ Len(part) = j /\ \A n \in 1 .. j : part[n] = s[n]
    BY <1>1, SubSeqProperties
<1> HIDE DEF part
<1>3. PICK g \in [0 .. Len(part) -> Seq(T)] :
              /\ g[0] = <<>> /\ \A n \in 1 .. Len(part) : g[n] = g[n - 1] \o part[n]
              /\ FlattenSeq(part) = g[Len(part)]
    BY <1>2, FlattenIs
<1> DEFINE same == {n \in 0 .. j : g[n] = f[n]}
<1>4. 0 \in same /\ j \in Nat
    BY <1>1, <1>3
<1>5. ASSUME NEW n \in 1 .. j, n - 1 \in same PROVE n \in same
    <2>1. n \in 1 .. Len(s) /\ n \in 1 .. Len(part) /\ n \in 0 .. j
        BY <1>1, <1>2
    <2>2. g[n] = g[n - 1] \o part[n] /\ f[n] = f[n - 1] \o s[n]
        BY <1>3, <2>1
    <2> QED
        BY <1>2, <1>5, <2>1, <2>2
<1>6. j \in same
    <2> HIDE DEF same
    <2>1. \A n \in 0 .. j : n \in same
        BY <1>4, <1>5, Reaches
    <2>2. j \in 0 .. j
        BY <1>4
    <2> QED
        BY <2>1, <2>2
<1> QED
    BY <1>2, <1>3, <1>6 DEF part

LEMMA FlattenedAt ==
    ASSUME NEW T, NEW s \in Seq(Seq(T))
    PROVE  /\ FlattenSeq(s) \in Seq(T)
           /\ \A i \in DOMAIN s : Before(s, i) \in Nat
           /\ \A i \in DOMAIN s : \A m \in DOMAIN s[i] :
                 Before(s, i) + m \in DOMAIN FlattenSeq(s) /\ FlattenSeq(s)[Before(s, i) + m] = s[i][m]
           /\ \A n \in DOMAIN FlattenSeq(s) : \E i \in DOMAIN s : \E m \in DOMAIN s[i] : n = Before(s, i) + m
           /\ \A i, j \in DOMAIN s : i < j => Before(s, i) + Len(s[i]) <= Before(s, j)
<1>1. Len(s) \in Nat /\ DOMAIN s = 1 .. Len(s) /\ \A n \in 1 .. Len(s) : s[n] \in Seq(T)
    BY LenProperties
<1>2. PICK f \in [0 .. Len(s) -> Seq(T)] :
              /\ f[0] = <<>> /\ \A n \in 1 .. Len(s) : f[n] = f[n - 1] \o s[n]
              /\ FlattenSeq(s) = f[Len(s)]
    BY FlattenIs
<1>3. \A n \in 0 .. Len(s) : f[n] \in Seq(T) /\ Len(f[n]) \in Nat /\ DOMAIN f[n] = 1 .. Len(f[n])
    BY LenProperties
<1>4. ASSUME NEW n \in 1 .. Len(s)
      PROVE  /\ n - 1 \in 0 .. Len(s) /\ n \in 0 .. Len(s)
             /\ Before(s, n) = Len(f[n - 1])
             /\ Len(s[n]) \in Nat /\ DOMAIN s[n] = 1 .. Len(s[n])
             /\ Len(f[n]) = Len(f[n - 1]) + Len(s[n])
             /\ \A m \in 1 .. Len(f[n - 1]) : f[n][m] = f[n - 1][m]
             /\ \A m \in DOMAIN s[n] : f[n][Len(f[n - 1]) + m] = s[n][m]
    <2>1. n - 1 \in 0 .. Len(s) /\ n \in 0 .. Len(s)
        BY <1>1
    <2>2. Before(s, n) = Len(f[n - 1])
        BY <1>2, <2>1, FlattenedTo DEF Before
    <2>3. f[n - 1] \in Seq(T) /\ s[n] \in Seq(T) /\ f[n] = f[n - 1] \o s[n]
        BY <1>1, <1>2, <2>1
    <2>4. Len(s[n]) \in Nat /\ DOMAIN s[n] = 1 .. Len(s[n])
        BY <2>3, LenProperties
    <2>5. Len(f[n]) = Len(f[n - 1]) + Len(s[n])
        BY <2>3
    <2>6. \A m \in 1 .. Len(f[n - 1]) : f[n][m] = f[n - 1][m]
        BY <1>3, <2>1, <2>3, <2>4
    <2>7. ASSUME NEW m \in DOMAIN s[n] PROVE f[n][Len(f[n - 1]) + m] = s[n][m]
        <3> DEFINE a == Len(f[n - 1])
                   b == Len(s[n])
        <3>1. a \in Nat /\ b \in Nat /\ m \in 1 .. b
            BY <1>3, <2>1, <2>4
        <3>3. \A k \in 1 .. a + b :
                  (f[n - 1] \o s[n])[k] = IF k <= a THEN f[n - 1][k] ELSE s[n][k - a]
            BY <2>3
        <3> HIDE DEF a, b
        <3>2. a + m \in 1 .. a + b /\ ~(a + m <= a) /\ (a + m) - a = m
            BY <3>1, Within
        <3>4. (f[n - 1] \o s[n])[a + m] = s[n][(a + m) - a]
            BY <3>2, <3>3
        <3> QED
            BY <2>3, <3>2, <3>4 DEF a
    <2> QED
        BY <2>1, <2>2, <2>4, <2>5, <2>6, <2>7
<1> DEFINE Has(n) == \A i \in 1 .. n : \A m \in DOMAIN s[i] :
                        Before(s, i) + m \in DOMAIN f[n] /\ f[n][Before(s, i) + m] = s[i][m]
           Only(n) == \A k \in DOMAIN f[n] : \E i \in 1 .. n : \E m \in DOMAIN s[i] : k = Before(s, i) + m
           Grows(n) == \A i \in 1 .. n : Len(f[i]) <= Len(f[n])
           good == {n \in 0 .. Len(s) : Has(n) /\ Only(n) /\ Grows(n)}
<1>5. 0 \in good
    <2>1. DOMAIN f[0] = {} /\ 1 .. 0 = {}
        BY <1>2
    <2> QED
        BY <1>1, <2>1
<1>6. ASSUME NEW n \in 1 .. Len(s), n - 1 \in good PROVE n \in good
    <2> HIDE DEF Has, Only, Grows
    <2>1. Has(n - 1) /\ Only(n - 1) /\ Grows(n - 1)
        BY <1>6
    <2>2. n \in 0 .. Len(s) /\ n - 1 \in 0 .. Len(s) /\ \A i \in 1 .. n : i = n \/ i \in 1 .. n - 1
        BY <1>1
    <2>3. DOMAIN f[n] = 1 .. Len(f[n - 1]) + Len(s[n]) /\ DOMAIN f[n - 1] = 1 .. Len(f[n - 1])
        BY <1>3, <1>4, <2>2
    <2>4. Len(f[n - 1]) \in Nat /\ Len(s[n]) \in Nat /\ DOMAIN s[n] = 1 .. Len(s[n])
        BY <1>3, <1>4, <2>2
    <2>8. /\ \A m \in 1 .. Len(f[n - 1]) : m \in 1 .. Len(f[n - 1]) + Len(s[n])
          /\ \A m \in 1 .. Len(s[n]) : Len(f[n - 1]) + m \in 1 .. Len(f[n - 1]) + Len(s[n])
          /\ \A k \in 1 .. Len(f[n - 1]) + Len(s[n]) : k \notin 1 .. Len(f[n - 1])
                => k - Len(f[n - 1]) \in 1 .. Len(s[n]) /\ k = Len(f[n - 1]) + (k - Len(f[n - 1]))
          /\ Len(f[n - 1]) <= Len(f[n])
        <3> DEFINE a == Len(f[n - 1])
                   b == Len(s[n])
        <3>1. a \in Nat /\ b \in Nat
            BY <2>4
        <3>2. Len(f[n]) = a + b
            BY <1>4
        <3> HIDE DEF a, b
        <3>3. /\ a <= a + b
              /\ \A m \in 1 .. a : m \in 1 .. a + b
              /\ \A m \in 1 .. b : a + m \in 1 .. a + b
              /\ \A k \in 1 .. a + b : k \notin 1 .. a => k - a \in 1 .. b /\ k = a + (k - a)
            BY <3>1, Within
        <3>4. a <= Len(f[n])
            BY <3>2, <3>3
        <3> QED
            BY <3>3, <3>4 DEF a, b
    <2>5. Has(n)
        <3> SUFFICES ASSUME NEW i \in 1 .. n, NEW m \in DOMAIN s[i]
                     PROVE  Before(s, i) + m \in DOMAIN f[n] /\ f[n][Before(s, i) + m] = s[i][m]
            BY DEF Has
        <3>1. CASE i = n
            <4>1. Before(s, i) = Len(f[n - 1]) /\ m \in 1 .. Len(s[n])
                BY <1>4, <3>1
            <4>2. Len(f[n - 1]) + m \in 1 .. Len(f[n - 1]) + Len(s[n])
                BY <2>8, <4>1
            <4> QED
                BY <1>4, <2>3, <3>1, <4>1, <4>2
        <3>2. CASE i \in 1 .. n - 1
            <4>1. Before(s, i) + m \in DOMAIN f[n - 1] /\ f[n - 1][Before(s, i) + m] = s[i][m]
                BY <2>1, <3>2 DEF Has
            <4>2. \A k \in 1 .. Len(f[n - 1]) : k \in 1 .. Len(f[n - 1]) + Len(s[n])
                BY <2>8
            <4> QED
                BY <1>4, <2>3, <4>1, <4>2
        <3> QED
            BY <2>2, <3>1, <3>2
    <2>6. Only(n)
        <3> SUFFICES ASSUME NEW k \in DOMAIN f[n]
                     PROVE  \E i \in 1 .. n : \E m \in DOMAIN s[i] : k = Before(s, i) + m
            BY DEF Only
        <3>1. CASE k \in DOMAIN f[n - 1]
            <4>1. PICK i \in 1 .. n - 1 : \E m \in DOMAIN s[i] : k = Before(s, i) + m
                BY <2>1, <3>1 DEF Only
            <4>2. i \in 1 .. n
                OBVIOUS
            <4> QED
                BY <4>1, <4>2
        <3>2. CASE k \notin DOMAIN f[n - 1]
            <4>1. k - Len(f[n - 1]) \in 1 .. Len(s[n]) /\ k = Len(f[n - 1]) + (k - Len(f[n - 1]))
                BY <2>3, <2>8, <3>2
            <4>2. n \in 1 .. n
                OBVIOUS
            <4> QED
                BY <1>4, <2>4, <4>1, <4>2
        <3> QED
            BY <3>1, <3>2
    <2>7. Grows(n)
        <3> SUFFICES ASSUME NEW i \in 1 .. n PROVE Len(f[i]) <= Len(f[n])
            BY DEF Grows
        <3>1. i \in 0 .. Len(s) /\ Len(f[i]) \in Nat /\ Len(f[n]) \in Nat
            BY <1>1, <1>3, <2>2
        <3>2. i \in 1 .. n - 1 => Len(f[i]) <= Len(f[n - 1])
            BY <2>1 DEF Grows
        <3>3. Len(f[i]) <= Len(f[n - 1]) => Len(f[i]) <= Len(f[n])
            BY <2>4, <2>8, <3>1, AtMost
        <3>4. CASE i = n
            BY <3>1, <3>4
        <3> QED
            BY <2>2, <3>2, <3>3, <3>4
    <2> QED
        BY <2>2, <2>5, <2>6, <2>7
<1>7. \A n \in 0 .. Len(s) : n \in good
    <2> HIDE DEF good
    <2> QED
        BY <1>1, <1>5, <1>6, Reaches
<1>8. Has(Len(s)) /\ Only(Len(s))
    <2>1. Len(s) \in good
        <3> HIDE DEF good
        <3>1. Len(s) \in 0 .. Len(s)
            BY <1>1
        <3> QED
            BY <1>7, <3>1
    <2> QED
        BY <2>1
<1>9. \A i \in DOMAIN s : Before(s, i) \in Nat
    BY <1>1, <1>3, <1>4
<1>10. ASSUME NEW i \in DOMAIN s, NEW j \in DOMAIN s, i < j
       PROVE  Before(s, i) + Len(s[i]) <= Before(s, j)
    <2>1. i \in 1 .. j - 1 /\ j - 1 \in 0 .. Len(s) /\ i \in 1 .. Len(s) /\ j \in 1 .. Len(s)
        BY <1>1, <1>10
    <2>2. Grows(j - 1)
        BY <1>7, <2>1
    <2>3. Len(f[i]) <= Len(f[j - 1])
        BY <2>1, <2>2
    <2> QED
        BY <1>4, <2>1, <2>3
<1> HIDE DEF Has, Only
<1>11. FlattenSeq(s) \in Seq(T)
    BY <1>1, <1>2
<1> QED
    BY <1>1, <1>2, <1>8, <1>9, <1>10, <1>11 DEF Has, Only

-----------------------------------------------------------------------------
(* Variations: the combinations of the values of a product.                *)

\* Places are picked in their order, each once.
LEMMA PickedPlaces ==
    ASSUME NEW S, NEW s \in Seq(S), NEW places \in SUBSET DOMAIN s
    PROVE  /\ \A i, j \in 1 .. Cardinality(places) : Nth(places, i) = Nth(places, j) => i = j
           /\ \A p \in places : \E i \in 1 .. Cardinality(places) : Nth(places, i) = p
<1>1. Len(s) \in Nat /\ DOMAIN s = 1 .. Len(s)
    BY LenProperties
<1>2. places \in SUBSET Nat /\ \A n \in places : n <= Len(s)
    BY <1>1
<1>3. /\ Cardinality(places) \in Nat
      /\ \A i \in 1 .. Cardinality(places) : Nth(places, i) \in places
      /\ \A i, j \in 1 .. Cardinality(places) : i < j => Nth(places, i) < Nth(places, j)
      /\ \A p \in places : \E i \in 1 .. Cardinality(places) : Nth(places, i) = p
    BY <1>1, <1>2, NthIs
<1>4. ASSUME NEW i \in 1 .. Cardinality(places), NEW j \in 1 .. Cardinality(places),
             Nth(places, i) = Nth(places, j)
      PROVE  i = j
    <2>1. i \in Nat /\ j \in Nat /\ Nth(places, i) \in Nat
        BY <1>2, <1>3
    <2>2. ~(i < j) /\ ~(j < i)
        BY <1>3, <1>4, <2>1
    <2> QED
        BY <2>1, <2>2
<1> QED
    BY <1>3, <1>4

\* If the values at the places differ, those picked differ.
LEMMA PickedDiffer ==
    ASSUME NEW S, NEW s \in Seq(S), NEW places \in SUBSET DOMAIN s,
           \A m, n \in places : s[m] = s[n] => m = n
    PROVE  \A i, j \in DOMAIN Picked(s, places) : Picked(s, places)[i] = Picked(s, places)[j] => i = j
<1>1. /\ DOMAIN Picked(s, places) = 1 .. Cardinality(places)
      /\ \A i \in 1 .. Cardinality(places) :
            Nth(places, i) \in places /\ Picked(s, places)[i] = s[Nth(places, i)]
    BY PickedIs
<1>2. \A i, j \in 1 .. Cardinality(places) : Nth(places, i) = Nth(places, j) => i = j
    BY PickedPlaces
<1> QED
    BY <1>1, <1>2

LEMMA FirstOf ==
    ASSUME NEW S, NEW s \in Seq(S), NEW n \in DOMAIN s
    PROVE  \E m \in DOMAIN s : s[m] = s[n] /\ \A k \in 1 .. m - 1 : s[k] # s[m]
<1> DEFINE T == {m \in DOMAIN s : s[m] = s[n]}
<1>1. Len(s) \in Nat /\ DOMAIN s = 1 .. Len(s)
    BY LenProperties
<1>2. T \in SUBSET Nat /\ T # {}
    BY <1>1
<1>3. PICK m \in T : \A k \in T : m <= k
    <2> HIDE DEF T
    <2> QED
        BY <1>2, LeastOf
<1>4. ASSUME NEW k \in 1 .. m - 1 PROVE s[k] # s[m]
    <2>1. k \in DOMAIN s /\ ~(m <= k)
        BY <1>1, <1>3
    <2> QED
        BY <1>3, <2>1
<1> QED
    BY <1>3, <1>4

VersionIs == version \in DOMAIN AttributeRows

ProductValues == DOMAIN Normal

LEMMA ValuesAre ==
    ASSUME VersionIs, NEW name
    PROVE  ValuesOf(name) \in Seq(ProductValues)
<1> DEFINE rows == AttributeRows[version]
           parts == [n \in DOMAIN rows |-> IF rows[n].name = name THEN SplitValues(rows[n].values) ELSE <<>>]
           all == FlattenSeq(parts)
           places == {n \in DOMAIN all : \A m \in 1 .. n - 1 : all[m] # all[n]}
<1>1. rows \in Seq([name : STRING, values : Seq(ProductValues)])
    BY VariationAssumption, LenProperties DEF VersionIs, ProductValues
<1>2. ValuesOf(name) = Picked(all, places)
    BY DEF ValuesOf
<1> HIDE DEF rows
<1>3. Len(rows) \in Nat /\ DOMAIN rows = 1 .. Len(rows)
      /\ \A n \in DOMAIN rows : rows[n].values \in Seq(ProductValues)
    <2> DEFINE R == [name : STRING, values : Seq(ProductValues)]
    <2>1. \A row \in R : row.values \in Seq(ProductValues)
        OBVIOUS
    <2>2. rows \in Seq(R)
        BY <1>1
    <2> HIDE DEF R
    <2>3. Len(rows) \in Nat /\ DOMAIN rows = 1 .. Len(rows) /\ \A n \in DOMAIN rows : rows[n] \in R
        BY <2>2, LenProperties
    <2> QED
        BY <2>1, <2>3
<1>4. ASSUME NEW values \in Seq(ProductValues) PROVE SplitValues(values) \in Seq(ProductValues)
    <2> DEFINE firsts == {n \in DOMAIN values : \A m \in 1 .. n - 1 : Normal[values[m]] # Normal[values[n]]}
    <2>1. SplitValues(values) = Picked(values, firsts) /\ firsts \in SUBSET DOMAIN values
        BY DEF SplitValues
    <2> HIDE DEF firsts
    <2> QED
        BY <2>1, PickedIs
<1>5. <<>> \in Seq(ProductValues)
    OBVIOUS
<1>6. parts \in [1 .. Len(rows) -> Seq(ProductValues)]
    BY <1>3, <1>4, <1>5
<1> HIDE DEF parts
<1>7. parts \in Seq(Seq(ProductValues))
    <2> DEFINE S == Seq(ProductValues)
    <2>1. parts \in [1 .. Len(rows) -> S]
        BY <1>6
    <2> HIDE DEF S
    <2>2. parts \in Seq(S)
        BY <1>3, <2>1, SequenceOf
    <2> QED
        BY <2>2 DEF S
<1>8. all \in Seq(ProductValues)
    BY <1>7, FlattenedAt
<1>9. places \in SUBSET DOMAIN all
    OBVIOUS
<1> HIDE DEF all, places
<1> QED
    BY <1>2, <1>8, <1>9, PickedIs

LEMMA DimensionsAre == Dimensions \in Seq(STRING)
<1> DEFINE places == {n \in DOMAIN Themes : ValuesOf(Themes[n]) # <<>>}
<1>1. Dimensions = Picked(Themes, places) /\ places \in SUBSET DOMAIN Themes
    BY DEF Dimensions
<1> HIDE DEF places
<1>2. Themes \in Seq(STRING)
    BY VariationAssumption
<1> QED
    BY <1>1, <1>2, PickedIs

NamesTo(d) == {Dimensions[i] : i \in 1 .. d}

\* The choices of a value for each of the first d dimensions.
ChoicesTo(d) ==
    {c \in [NamesTo(d) -> ProductValues] : \A x \in NamesTo(d) : c[x] \in ToSet(ValuesOf(x))}

AnyChoices == UNION {[names -> ProductValues] : names \in SUBSET STRING}

Extended(c, name, value) == [x \in DOMAIN c \cup {name} |-> IF x = name THEN value ELSE c[x]]

\* Spread makes one choice more of each choice and each value.
LEMMA SpreadHas ==
    ASSUME VersionIs, NEW choices \in Seq(AnyChoices), NEW name \in STRING
    PROVE  /\ Spread(choices, name) \in Seq(AnyChoices)
           /\ \A n \in DOMAIN choices, m \in DOMAIN ValuesOf(name) : \E k \in DOMAIN Spread(choices, name) :
                 Spread(choices, name)[k] = Extended(choices[n], name, ValuesOf(name)[m])
           /\ \A k \in DOMAIN Spread(choices, name) : \E n \in DOMAIN choices, m \in DOMAIN ValuesOf(name) :
                 Spread(choices, name)[k] = Extended(choices[n], name, ValuesOf(name)[m])
<1> DEFINE values == ValuesOf(name)
           part(n) == [m \in DOMAIN values |-> Extended(choices[n], name, values[m])]
           parts == [n \in DOMAIN choices |-> part(n)]
           spread == FlattenSeq(parts)
<1>1. Spread(choices, name) = spread
    BY DEF Spread, Extended
<1>2. values \in Seq(ProductValues)
    BY ValuesAre
<1> HIDE DEF values
<1>3. Len(values) \in Nat /\ DOMAIN values = 1 .. Len(values) /\ \A m \in DOMAIN values : values[m] \in ProductValues
    BY <1>2, LenProperties
<1>4. Len(choices) \in Nat /\ DOMAIN choices = 1 .. Len(choices) /\ \A n \in DOMAIN choices : choices[n] \in AnyChoices
    BY LenProperties
<1>5. ASSUME NEW c \in AnyChoices, NEW value \in ProductValues PROVE Extended(c, name, value) \in AnyChoices
    <2>1. PICK names \in SUBSET STRING : c \in [names -> ProductValues]
        BY DEF AnyChoices
    <2>2. Extended(c, name, value) \in [names \cup {name} -> ProductValues]
        BY <2>1 DEF Extended
    <2>3. names \cup {name} \in SUBSET STRING
        BY <2>1
    <2> QED
        BY <2>2, <2>3 DEF AnyChoices
<1>6. ASSUME NEW n \in DOMAIN choices PROVE part(n) \in Seq(AnyChoices) /\ DOMAIN part(n) = DOMAIN values
    <2>1. part(n) \in [1 .. Len(values) -> AnyChoices]
        BY <1>3, <1>4, <1>5
    <2> HIDE DEF part
    <2> QED
        BY <1>3, <2>1, SequenceOf
<1>7. parts \in Seq(Seq(AnyChoices)) /\ DOMAIN parts = DOMAIN choices
    <2> DEFINE S == Seq(AnyChoices)
    <2>1. parts \in [1 .. Len(choices) -> S]
        <3> HIDE DEF part
        <3> QED
            BY <1>4, <1>6
    <2> HIDE DEF S, parts
    <2>2. parts \in Seq(S) /\ DOMAIN parts = 1 .. Len(choices)
        BY <1>4, <2>1, SequenceOf
    <2> QED
        BY <1>4, <2>2 DEF S
<1>8. /\ spread \in Seq(AnyChoices)
      /\ \A n \in DOMAIN parts : \A m \in DOMAIN parts[n] :
            Before(parts, n) + m \in DOMAIN spread /\ spread[Before(parts, n) + m] = parts[n][m]
      /\ \A k \in DOMAIN spread : \E n \in DOMAIN parts : \E m \in DOMAIN parts[n] : k = Before(parts, n) + m
    <2> HIDE DEF parts
    <2> QED
        BY <1>7, FlattenedAt
<1>9. \A n \in DOMAIN choices : DOMAIN parts[n] = DOMAIN values
            /\ \A m \in DOMAIN values : parts[n][m] = Extended(choices[n], name, values[m])
    OBVIOUS
<1> HIDE DEF parts, spread, part
<1>10. ASSUME NEW n \in DOMAIN choices, NEW m \in DOMAIN values
       PROVE  \E k \in DOMAIN spread : spread[k] = Extended(choices[n], name, values[m])
    <2>1. n \in DOMAIN parts /\ m \in DOMAIN parts[n]
        BY <1>7, <1>9
    <2>2. Before(parts, n) + m \in DOMAIN spread /\ spread[Before(parts, n) + m] = parts[n][m]
        BY <1>8, <2>1
    <2>3. parts[n][m] = Extended(choices[n], name, values[m])
        BY <1>9
    <2> QED
        BY <2>2, <2>3
<1>11. ASSUME NEW k \in DOMAIN spread
       PROVE  \E n \in DOMAIN choices, m \in DOMAIN values : spread[k] = Extended(choices[n], name, values[m])
    <2>1. PICK n \in DOMAIN parts : \E m \in DOMAIN parts[n] : k = Before(parts, n) + m
        BY <1>8
    <2>2. PICK m \in DOMAIN parts[n] : k = Before(parts, n) + m
        BY <2>1
    <2> QED
        BY <1>7, <1>8, <1>9, <2>1, <2>2
<1> QED
    BY <1>1, <1>8, <1>10, <1>11 DEF values

\* A sequence of the choices for the first d dimensions.
Covers(choices, d) ==
    /\ choices \in Seq(AnyChoices)
    /\ \A n \in DOMAIN choices : choices[n] \in ChoicesTo(d)
    /\ \A c \in ChoicesTo(d) : \E n \in DOMAIN choices : choices[n] = c

LEMMA SpreadCovers ==
    ASSUME VersionIs, NEW d \in 1 .. Len(Dimensions), NEW choices, Covers(choices, d - 1)
    PROVE  Covers(Spread(choices, Dimensions[d]), d)
<1> DEFINE name == Dimensions[d]
           values == ValuesOf(name)
           spread == Spread(choices, name)
<1>0. /\ choices \in Seq(AnyChoices)
      /\ \A n \in DOMAIN choices : choices[n] \in ChoicesTo(d - 1)
      /\ \A c \in ChoicesTo(d - 1) : \E n \in DOMAIN choices : choices[n] = c
    BY DEF Covers
<1>1. Len(Dimensions) \in Nat /\ name \in STRING
    BY DimensionsAre, LenProperties
<1>2. NamesTo(d) = NamesTo(d - 1) \cup {name} /\ NamesTo(d - 1) \in SUBSET STRING
    <2>1. \A i \in 1 .. d : i = d \/ i \in 1 .. d - 1
        BY <1>1
    <2>2. \A i \in 1 .. d - 1 : i \in 1 .. d
        BY <1>1
    <2>3. d \in 1 .. d /\ \A i \in 1 .. d : i \in 1 .. Len(Dimensions)
        BY <1>1
    <2>4. \A i \in 1 .. Len(Dimensions) : Dimensions[i] \in STRING
        BY DimensionsAre, LenProperties
    <2>5. NamesTo(d) = NamesTo(d - 1) \cup {name}
        BY <2>1, <2>2, <2>3 DEF NamesTo
    <2> QED
        BY <2>2, <2>3, <2>4, <2>5 DEF NamesTo
<1>3. /\ spread \in Seq(AnyChoices)
      /\ \A n \in DOMAIN choices, m \in DOMAIN values : \E k \in DOMAIN spread :
            spread[k] = Extended(choices[n], name, values[m])
      /\ \A k \in DOMAIN spread : \E n \in DOMAIN choices, m \in DOMAIN values :
            spread[k] = Extended(choices[n], name, values[m])
    BY <1>0, <1>1, SpreadHas
<1>4. values \in Seq(ProductValues)
    BY ValuesAre
<1>9. \A m \in DOMAIN values : values[m] \in ProductValues /\ values[m] \in ToSet(values)
    BY <1>4, LenProperties DEF ToSet
<1> HIDE DEF spread
<1>5. ASSUME NEW k \in DOMAIN spread PROVE spread[k] \in ChoicesTo(d)
    <2>1. PICK n \in DOMAIN choices, m \in DOMAIN values : spread[k] = Extended(choices[n], name, values[m])
        BY <1>3
    <2> DEFINE c == choices[n]
               e == spread[k]
    <2>2. c \in [NamesTo(d - 1) -> ProductValues] /\ \A x \in NamesTo(d - 1) : c[x] \in ToSet(ValuesOf(x))
        BY <1>0 DEF ChoicesTo
    <2>3. e = [x \in NamesTo(d) |-> IF x = name THEN values[m] ELSE c[x]]
        BY <1>2, <2>1, <2>2 DEF Extended
    <2>4. values[m] \in ProductValues /\ values[m] \in ToSet(values)
        BY <1>9
    <2> HIDE DEF c, e, name
    <2>5. e \in [NamesTo(d) -> ProductValues]
        BY <1>2, <2>2, <2>3, <2>4
    <2>6. \A x \in NamesTo(d) : e[x] \in ToSet(ValuesOf(x))
        BY <1>2, <2>2, <2>3, <2>4
    <2> QED
        BY <2>5, <2>6 DEF ChoicesTo, e
<1>6. ASSUME NEW c \in ChoicesTo(d) PROVE \E k \in DOMAIN spread : spread[k] = c
    <2> DEFINE b == [x \in NamesTo(d - 1) |-> c[x]]
    <2>1. c \in [NamesTo(d) -> ProductValues] /\ \A x \in NamesTo(d) : c[x] \in ToSet(ValuesOf(x))
        BY DEF ChoicesTo
    <2>2. b \in ChoicesTo(d - 1)
        <3> HIDE DEF name
        <3> QED
            BY <1>2, <2>1 DEF ChoicesTo
    <2>3. PICK n \in DOMAIN choices : choices[n] = b
        <3> HIDE DEF b
        <3> QED
            BY <1>0, <2>2
    <2>4. c[name] \in ToSet(values)
        BY <1>2, <2>1
    <2>5. PICK m \in DOMAIN values : values[m] = c[name]
        BY <2>4 DEF ToSet
    <2>6. Extended(b, name, c[name]) = c
        <3> HIDE DEF name
        <3>1. DOMAIN b = NamesTo(d - 1) /\ \A x \in NamesTo(d - 1) : b[x] = c[x]
            OBVIOUS
        <3> HIDE DEF b
        <3>2. Extended(b, name, c[name]) = [x \in NamesTo(d) |-> IF x = name THEN c[name] ELSE b[x]]
            BY <1>2, <3>1 DEF Extended
        <3>3. \A x \in NamesTo(d) : (IF x = name THEN c[name] ELSE b[x]) = c[x]
            BY <1>2, <3>1
        <3> QED
            BY <2>1, <3>2, <3>3
    <2> HIDE DEF name, values, b
    <2>7. PICK k \in DOMAIN spread : spread[k] = Extended(choices[n], name, values[m])
        BY <1>3, <2>3, <2>5
    <2> QED
        BY <2>3, <2>5, <2>6, <2>7
<1> QED
    BY <1>3, <1>5, <1>6 DEF spread, Covers

\* The choices are those of every dimension, each of them at some place.
LEMMA CombinedAre ==
    ASSUME VersionIs, Dimensions # <<>>
    PROVE  /\ Combined \in Seq(AnyChoices)
           /\ \A c \in ChoicesTo(Len(Dimensions)) : \E n \in DOMAIN Combined : Combined[n] = c
<1> DEFINE size == Len(Dimensions)
           zero == <<[x \in {} |-> NoValue]>>
           Goes(g) == g = [d \in 0 .. size |-> IF d = 0 THEN zero ELSE Spread(g[d - 1], Dimensions[d])]
           made == CHOOSE g : Goes(g)
           S == Seq(AnyChoices)
           next == [x \in S |-> [d \in Nat |-> IF d \in 1 .. size THEN Spread(x, Dimensions[d]) ELSE <<>>]]
<1>1. Combined = made[size]
    BY DEF Combined
<1>2. size \in Nat /\ \A d \in 1 .. size : Dimensions[d] \in STRING
    BY DimensionsAre, LenProperties
<1>3. zero \in S /\ Len(zero) = 1 /\ DOMAIN zero = 1 .. 1 /\ zero[1] = [x \in {} |-> NoValue]
    <2>1. [x \in {} |-> NoValue] \in [{} -> ProductValues]
        OBVIOUS
    <2>2. {} \in SUBSET STRING
        OBVIOUS
    <2>3. [x \in {} |-> NoValue] \in AnyChoices
        BY <2>1, <2>2 DEF AnyChoices
    <2> DEFINE empty == [x \in {} |-> NoValue]
    <2>4. zero = <<empty>> /\ empty \in AnyChoices
        BY <2>3
    <2> HIDE DEF empty, zero
    <2>5. zero \in S /\ Len(zero) = 1 /\ DOMAIN zero = 1 .. 1 /\ zero[1] = empty
        BY <2>4
    <2> QED
        BY <2>5 DEF empty
<1>4. <<>> \in S
    OBVIOUS
<1>5. ASSUME NEW x \in S, NEW d \in 1 .. size PROVE Spread(x, Dimensions[d]) \in S
    BY <1>2, SpreadHas
<1> HIDE DEF S
<1>6. next \in [S -> [Nat -> S]]
    BY <1>4, <1>5
<1>7. ASSUME NEW x \in S, NEW d \in 1 .. size PROVE next[x][d] = Spread(x, Dimensions[d])
    <2>1. d \in Nat
        BY <1>2
    <2> QED
        BY <2>1
<1> HIDE DEF size, next, zero
<1>8. PICK f : IsLoop(f, S, zero, next, size)
    BY <1>2, <1>3, <1>6, LoopRuns
<1>9. f \in [0 .. size -> S] /\ f[0] = zero /\ \A d \in 1 .. size : f[d] = next[f[d - 1]][d]
    BY <1>8 DEF IsLoop
<1>10. \A d \in 1 .. size : d - 1 \in 0 .. size /\ d \in 0 .. size
    BY <1>2
<1>11. \A d \in 1 .. size : f[d] = Spread(f[d - 1], Dimensions[d])
    BY <1>7, <1>9, <1>10
<1>12. Goes(f)
    <2> DEFINE again == [d \in 0 .. size |-> IF d = 0 THEN zero ELSE Spread(f[d - 1], Dimensions[d])]
    <2>1. \A d \in 0 .. size : d = 0 \/ d \in 1 .. size
        BY <1>2
    <2>2. \A d \in 0 .. size : f[d] = again[d]
        BY <1>9, <1>11, <2>1
    <2> QED
        BY <1>9, <2>2
<1>13. Goes(made)
    <2> HIDE DEF Goes
    <2> QED
        BY <1>12
<1> HIDE DEF made
<1>14. made[0] = zero /\ \A d \in 1 .. size : made[d] = Spread(made[d - 1], Dimensions[d])
    <2>1. \A d \in 0 .. size : made[d] = IF d = 0 THEN zero ELSE Spread(made[d - 1], Dimensions[d])
        BY <1>13
    <2>2. 0 \in 0 .. size /\ \A d \in 1 .. size : d # 0
        BY <1>2
    <2> QED
        BY <1>10, <2>1, <2>2
<1> DEFINE Right(d) == Covers(made[d], d)
           right == {d \in 0 .. size : Right(d)}
<1>15. Right(0)
    <2>1. NamesTo(0) = {}
        BY DEF NamesTo
    <2>2. \A c : c \in ChoicesTo(0) <=> c = [x \in {} |-> NoValue]
        BY <2>1 DEF ChoicesTo
    <2>3. made[0] = zero /\ zero \in Seq(AnyChoices)
        BY <1>3, <1>14 DEF S
    <2> QED
        BY <1>3, <2>2, <2>3 DEF Covers
<1>16. ASSUME NEW d \in 1 .. size, Right(d - 1) PROVE Right(d)
    <2>1. d \in 1 .. Len(Dimensions)
        BY DEF size
    <2>2. Covers(Spread(made[d - 1], Dimensions[d]), d)
        BY <1>16, <2>1, SpreadCovers
    <2> QED
        BY <1>14, <2>2
<1>17. \A d \in 0 .. size : d \in right
    <2> HIDE DEF Right
    <2>1. 0 \in right
        BY <1>2, <1>15
    <2>2. ASSUME NEW d \in 1 .. size, d - 1 \in right PROVE d \in right
        BY <1>10, <1>16, <2>2
    <2> HIDE DEF right
    <2> QED
        BY <1>2, <2>1, <2>2, Reaches
<1>18. Right(size)
    <2>1. size \in 0 .. size
        BY <1>2
    <2> HIDE DEF Right
    <2> QED
        BY <1>17, <2>1
<1> QED
    BY <1>1, <1>18 DEF size, Covers

NormalForms == {Normal[v] : v \in ProductValues}

AllKeys == UNION {[names -> NormalForms] : names \in SUBSET STRING}

\* Each way to choose a form for each dimension has a key.
LEMMA KeysCover ==
    ASSUME VersionIs, Dimensions # <<>>
    PROVE  /\ Keys \in Seq(AllKeys)
           /\ \A f \in [ToSet(Dimensions) -> NormalForms] :
                 (\A x \in ToSet(Dimensions) : f[x] \in {Normal[v] : v \in ToSet(ValuesOf(x))})
                     => \E n \in DOMAIN Keys : Keys[n] = f
<1>1. Combined \in Seq(AnyChoices) /\ \A c \in ChoicesTo(Len(Dimensions)) : \E n \in DOMAIN Combined : Combined[n] = c
    BY CombinedAre
<1>2. Len(Combined) \in Nat /\ DOMAIN Combined = 1 .. Len(Combined) /\ \A n \in DOMAIN Combined : Combined[n] \in AnyChoices
    BY <1>1, LenProperties
<1>3. ASSUME NEW c \in AnyChoices PROVE KeyOfChoice(c) \in AllKeys
    <2>1. PICK names \in SUBSET STRING : c \in [names -> ProductValues]
        BY DEF AnyChoices
    <2>2. KeyOfChoice(c) \in [names -> NormalForms]
        BY <2>1 DEF KeyOfChoice, NormalForms
    <2> QED
        BY <2>2 DEF AllKeys
<1>4. Keys \in Seq(AllKeys) /\ DOMAIN Keys = DOMAIN Combined /\ \A n \in DOMAIN Combined : Keys[n] = KeyOfChoice(Combined[n])
    <2> DEFINE keys == [n \in DOMAIN Combined |-> KeyOfChoice(Combined[n])]
    <2>1. Keys = keys
        BY DEF Keys
    <2>2. keys \in [1 .. Len(Combined) -> AllKeys] /\ \A n \in DOMAIN Combined : keys[n] = KeyOfChoice(Combined[n])
        BY <1>2, <1>3
    <2> HIDE DEF keys
    <2> QED
        BY <1>2, <2>1, <2>2, SequenceOf
<1>5. NamesTo(Len(Dimensions)) = ToSet(Dimensions)
    BY DimensionsAre, LenProperties DEF NamesTo, ToSet
<1>6. ASSUME NEW f \in [ToSet(Dimensions) -> NormalForms],
             \A x \in ToSet(Dimensions) : f[x] \in {Normal[v] : v \in ToSet(ValuesOf(x))}
      PROVE  \E n \in DOMAIN Keys : Keys[n] = f
    <2> DEFINE Pick(x) == CHOOSE v \in ToSet(ValuesOf(x)) : Normal[v] = f[x]
               c == [x \in ToSet(Dimensions) |-> Pick(x)]
    <2>1. ASSUME NEW x \in ToSet(Dimensions)
          PROVE  Pick(x) \in ToSet(ValuesOf(x)) /\ Normal[Pick(x)] = f[x]
        BY <1>6
    <2>2. ASSUME NEW x \in ToSet(Dimensions) PROVE Pick(x) \in ProductValues
        <3>1. ValuesOf(x) \in Seq(ProductValues)
            BY ValuesAre
        <3>2. \A v \in ToSet(ValuesOf(x)) : v \in ProductValues
            BY <3>1, LenProperties DEF ToSet
        <3> HIDE DEF Pick
        <3> QED
            BY <2>1, <3>2
    <2> HIDE DEF Pick
    <2>3. c \in ChoicesTo(Len(Dimensions))
        BY <1>5, <2>1, <2>2 DEF ChoicesTo
    <2>4. KeyOfChoice(c) = f
        BY <2>1 DEF KeyOfChoice
    <2> HIDE DEF c
    <2>5. PICK n \in DOMAIN Combined : Combined[n] = c
        BY <1>1, <2>3
    <2> QED
        BY <1>4, <2>4, <2>5
<1> QED
    BY <1>4, <1>6

-----------------------------------------------------------------------------
(* Variations: the places of the edits, of a generation and of an export.   *)

VariationSafety == VariationInit /\ [][VariationNext]_<<scene, variationVars>>

ExportPlaces == {"fill", "validate", "conflicts", "ended", "refused", "raised"}

VariationShape ==
    /\ export = [of |-> export.of, at |-> export.at, products |-> export.products, reserved |-> export.reserved,
                  skipped |-> export.skipped, payloads |-> export.payloads]
    /\ export.at \in ExportPlaces
    /\ outcome = [at |-> outcome.at, created |-> outcome.created]
    /\ outcome.at \in {"ready", "generated", "raised"}
    /\ updateAt \in [DOMAIN Updates -> {"idle", "checked", "answered"}]

LEMMA VariationStarts == VariationInit => VariationShape
BY DEF VariationInit, VariationShape, ExportPlaces

LEMMA VariationKept ==
    ASSUME VariationShape, [VariationNext]_<<scene, variationVars>>
    PROVE  VariationShape'
<1>1. CASE UNCHANGED variationVars
    BY <1>1 DEF variationVars, VariationShape
<1>2. CASE PreviewVariants \/ EditAttributes \/ \E n \in DOMAIN matrix : DeleteRow(n)
    BY <1>2 DEF PreviewVariants, EditAttributes, DeleteRow, VariationShape
<1>3. CASE GenerateMatrix
    BY <1>3 DEF GenerateMatrix, VariationShape
<1>4. CASE \E u \in DOMAIN Updates : CheckIdentifier(u) \/ CommitIdentifier(u)
    BY <1>4 DEF CheckIdentifier, CommitIdentifier, VariationShape
<1>5. CASE ExportStep
    <2>1. CASE FillEans
        <3>1. \E place \in ExportPlaces : \E products, reserved :
                  export' = [export EXCEPT !.at = place, !.products = products, !.reserved = reserved]
            <4>1. \/ \E products, reserved : export' = [export EXCEPT !.at = "validate", !.products = products, !.reserved = reserved]
                  \/ export' = [export EXCEPT !.at = "raised"]
                BY <2>1 DEF FillEans
            <4>2. [export EXCEPT !.at = "raised"] =
                      [export EXCEPT !.at = "raised", !.products = export.products, !.reserved = export.reserved]
                BY DEF VariationShape
            <4> QED
                BY <4>1, <4>2 DEF ExportPlaces
        <3> QED
            BY <2>1, <3>1 DEF FillEans, VariationShape
    <2>2. CASE ValidateVariants
        BY <2>2 DEF ValidateVariants, ExportGoes, VariationShape, ExportPlaces
    <2>3. CASE FindConflicts
        BY <2>3 DEF FindConflicts, VariationShape, ExportPlaces
    <2> QED
        BY <1>5, <2>1, <2>2, <2>3 DEF ExportStep
<1> QED
    BY <1>1, <1>2, <1>3, <1>4, <1>5 DEF VariationNext, MatrixStep, variationVars

-----------------------------------------------------------------------------
(* Variations: the rows of a product.                                      *)

\* What depends on the attributes only.
LEMMA VersionSame ==
    ASSUME UNCHANGED version
    PROVE  /\ Dimensions' = Dimensions /\ Keys' = Keys /\ SourceKey' = SourceKey
           /\ \A name : ValuesOf(name)' = ValuesOf(name)
BY DEF Dimensions, Keys, SourceKey, ValuesOf, Combined, Spread

RowRecords == [key : AllKeys, source : BOOLEAN, deleted : BOOLEAN, ean : STRING]

RowsTyped == VersionIs /\ matrix \in Seq(RowRecords)
RowsApart == \A m, n \in ActiveRows : matrix[m].key = matrix[n].key => m = n
AllMade == outcome.at = "generated" => Dimensions # <<>> /\ \A n \in DOMAIN Keys : Keys[n] \in ActiveKeys
PreviewInv ==
    /\ previewed = [new |-> previewed.new, stale |-> previewed.stale] /\ previewed.stale \in BOOLEAN
    /\ ~previewed.stale => Dimensions # <<>> /\ previewed.new = Cardinality(NewKeys)
CheckedInv == \A u \in DOMAIN Updates :
    updateAt[u] = "checked" => Updates[u].row \in DOMAIN matrix /\ Updates[u].ean \notin Taken

MatrixInv == VariationShape /\ RowsTyped /\ RowsApart /\ AllMade /\ PreviewInv /\ CheckedInv /\ IdentifiersApart

\* Rows are missing for exactly the keys without an active row, one for each.
LEMMA MissingAre ==
    ASSUME VersionIs, Dimensions # <<>>
    PROVE  /\ MissingKeys \in Seq(AllKeys)
           /\ \A i, j \in DOMAIN MissingKeys : MissingKeys[i] = MissingKeys[j] => i = j
           /\ \A i \in DOMAIN MissingKeys : MissingKeys[i] \in ToSet(Keys) /\ MissingKeys[i] \notin ActiveKeys
           /\ \A n \in DOMAIN Keys : Keys[n] \in ActiveKeys \/ \E i \in DOMAIN MissingKeys : MissingKeys[i] = Keys[n]
<1> DEFINE keys == Keys
           active == ActiveKeys
           places == {n \in DOMAIN keys : keys[n] \notin active /\ \A m \in 1 .. n - 1 : keys[m] # keys[n]}
           missing == Picked(keys, places)
<1>1. MissingKeys = missing
    BY DEF MissingKeys
<1>2. keys \in Seq(AllKeys)
    BY KeysCover
<1>3. Len(keys) \in Nat /\ DOMAIN keys = 1 .. Len(keys)
    BY <1>2, LenProperties
<1> HIDE DEF keys, active
<1>4. ASSUME NEW m \in places, NEW n \in places, keys[m] = keys[n] PROVE m = n
    <2>1. m \in 1 .. Len(keys) /\ n \in 1 .. Len(keys)
        BY <1>3
    <2>2. m < n => m \in 1 .. n - 1
        BY <2>1
    <2>3. n < m => n \in 1 .. m - 1
        BY <2>1
    <2> QED
        BY <1>4, <2>1, <2>2, <2>3
<1>5. places \in SUBSET DOMAIN keys
    OBVIOUS
<1>6. ASSUME NEW n \in DOMAIN keys, keys[n] \notin active PROVE \E p \in places : keys[p] = keys[n]
    <2>1. PICK m \in DOMAIN keys : keys[m] = keys[n] /\ \A k \in 1 .. m - 1 : keys[k] # keys[m]
        BY <1>2, FirstOf
    <2> QED
        BY <1>6, <2>1
<1>7. \A p \in places : keys[p] \notin active
    OBVIOUS
<1> HIDE DEF places, missing
<1>8. /\ Cardinality(places) \in Nat
      /\ missing \in Seq(AllKeys)
      /\ DOMAIN missing = 1 .. Cardinality(places)
      /\ \A i \in 1 .. Cardinality(places) : Nth(places, i) \in places /\ missing[i] = keys[Nth(places, i)]
      /\ \A p \in places : \E i \in 1 .. Cardinality(places) : missing[i] = keys[p]
    BY <1>2, <1>5, PickedIs DEF missing
<1>9. \A i, j \in DOMAIN missing : missing[i] = missing[j] => i = j
    BY <1>2, <1>4, <1>5, PickedDiffer DEF missing
<1>10. \A i \in DOMAIN missing : missing[i] \in ToSet(keys) /\ missing[i] \notin active
    BY <1>5, <1>7, <1>8 DEF ToSet
<1>11. \A n \in DOMAIN keys : keys[n] \in active \/ \E i \in DOMAIN missing : missing[i] = keys[n]
    BY <1>6, <1>8
<1> QED
    BY <1>1, <1>8, <1>9, <1>10, <1>11 DEF keys, active

\* As many of them as the preview counts are not the source's.
LEMMA NewAreCounted ==
    ASSUME VersionIs, Dimensions # <<>>
    PROVE  Cardinality({i \in DOMAIN MissingKeys : MissingKeys[i] # SourceKey}) = Cardinality(NewKeys)
<1> DEFINE S == {i \in DOMAIN MissingKeys : MissingKeys[i] # SourceKey}
           f == [i \in S |-> MissingKeys[i]]
<1>1. /\ MissingKeys \in Seq(AllKeys)
      /\ \A i, j \in DOMAIN MissingKeys : MissingKeys[i] = MissingKeys[j] => i = j
      /\ \A i \in DOMAIN MissingKeys : MissingKeys[i] \in ToSet(Keys) /\ MissingKeys[i] \notin ActiveKeys
      /\ \A n \in DOMAIN Keys : Keys[n] \in ActiveKeys \/ \E i \in DOMAIN MissingKeys : MissingKeys[i] = Keys[n]
    BY MissingAre
<1>2. IsFiniteSet(S)
    <2>1. Len(MissingKeys) \in Nat /\ DOMAIN MissingKeys = 1 .. Len(MissingKeys)
        BY <1>1, LenProperties
    <2>2. IsFiniteSet(DOMAIN MissingKeys)
        BY <2>1, OneTo
    <2>3. S \in SUBSET DOMAIN MissingKeys
        OBVIOUS
    <2> QED
        BY <2>2, <2>3, FS_Subset
<1>3. ASSUME NEW i \in S PROVE MissingKeys[i] \in NewKeys
    BY <1>1 DEF NewKeys
<1>4. ASSUME NEW key \in NewKeys PROVE \E i \in S : MissingKeys[i] = key
    <2>1. key \in ToSet(Keys) /\ key \notin ActiveKeys /\ key # SourceKey
        BY DEF NewKeys
    <2>2. PICK n \in DOMAIN Keys : Keys[n] = key
        BY <2>1 DEF ToSet
    <2> QED
        BY <1>1, <2>1, <2>2
<1>5. f \in Bijection(S, NewKeys)
    <2>1. f \in [S -> NewKeys] /\ \A i \in S : f[i] = MissingKeys[i]
        BY <1>3
    <2>2. \A i, j \in S : f[i] = f[j] => i = j
        BY <1>1
    <2>3. \A key \in NewKeys : \E i \in S : f[i] = key
        BY <1>4, <2>1
    <2> HIDE DEF f, S
    <2> QED
        BY <2>1, <2>2, <2>3 DEF Bijection, Injection, Surjection, IsInjective
<1>6. ExistsBijection(S, NewKeys)
    BY <1>5 DEF ExistsBijection
<1> QED
    BY <1>2, <1>6, FS_Bijection

LEMMA MatrixStarts == VariationInit => MatrixInv
<1> SUFFICES ASSUME VariationInit PROVE MatrixInv
    OBVIOUS
<1>1. VariationShape
    BY VariationStarts
<1>2. matrix = <<>> /\ version = 1 /\ previewed = [new |-> 0, stale |-> TRUE] /\ outcome.at = "ready"
      /\ \A u \in DOMAIN Updates : updateAt[u] = "idle"
    BY DEF VariationInit
<1>3. RowsTyped
    <2>1. 1 \in DOMAIN AttributeRows
        BY VariationAssumption, LenProperties, EmptySeq
    <2>2. <<>> \in Seq(RowRecords)
        OBVIOUS
    <2> QED
        BY <1>2, <2>1, <2>2 DEF RowsTyped, VersionIs
<1>4. ActiveRows = {}
    BY <1>2 DEF ActiveRows
<1> QED
    BY <1>1, <1>2, <1>3, <1>4 DEF MatrixInv, RowsApart, AllMade, PreviewInv, CheckedInv, IdentifiersApart

LEMMA RowsAreTyped ==
    ASSUME RowsTyped
    PROVE  /\ Len(matrix) \in Nat /\ DOMAIN matrix = 1 .. Len(matrix)
           /\ \A n \in DOMAIN matrix : matrix[n] \in RowRecords
           /\ ActiveRows \subseteq DOMAIN matrix
BY LenProperties DEF RowsTyped, ActiveRows

\* A step that touches neither the rows nor the attributes.
LEMMA SameRows ==
    ASSUME MatrixInv, UNCHANGED <<version, matrix>>
    PROVE  /\ RowsTyped' /\ RowsApart' /\ IdentifiersApart'
           /\ ActiveKeys' = ActiveKeys /\ NewKeys' = NewKeys /\ ActiveRows' = ActiveRows
           /\ Dimensions' = Dimensions /\ Keys' = Keys
<1>1. ActiveRows' = ActiveRows /\ ActiveKeys' = ActiveKeys
    BY DEF ActiveRows, ActiveKeys
<1>2. Dimensions' = Dimensions /\ Keys' = Keys /\ SourceKey' = SourceKey
    BY VersionSame
<1>3. NewKeys' = NewKeys
    BY <1>1, <1>2 DEF NewKeys
<1>4. RowsTyped'
    BY DEF MatrixInv, RowsTyped, VersionIs
<1>5. RowsApart' /\ IdentifiersApart'
    BY <1>1 DEF MatrixInv, RowsApart, IdentifiersApart
<1> QED
    BY <1>1, <1>2, <1>3, <1>4, <1>5

LEMMA RestKept ==
    ASSUME MatrixInv, VariationShape', UNCHANGED <<version, matrix, previewed, outcome>>, CheckedInv'
    PROVE  MatrixInv'
<1>1. /\ RowsTyped' /\ RowsApart' /\ IdentifiersApart'
      /\ ActiveKeys' = ActiveKeys /\ NewKeys' = NewKeys /\ Dimensions' = Dimensions /\ Keys' = Keys
    BY SameRows
<1>2. AllMade' /\ PreviewInv'
    BY <1>1 DEF MatrixInv, AllMade, PreviewInv
<1> QED
    BY <1>1, <1>2 DEF MatrixInv

LEMMA PreviewKept ==
    ASSUME MatrixInv, VariationShape', PreviewVariants
    PROVE  MatrixInv'
<1>1. UNCHANGED <<version, matrix, updateAt, outcome>> /\ Dimensions # <<>>
      /\ previewed' = [new |-> Cardinality(NewKeys), stale |-> FALSE]
    BY DEF PreviewVariants
<1>2. /\ RowsTyped' /\ RowsApart' /\ IdentifiersApart'
      /\ ActiveKeys' = ActiveKeys /\ NewKeys' = NewKeys /\ Dimensions' = Dimensions /\ Keys' = Keys
    BY <1>1, SameRows
<1>3. AllMade'
    BY <1>1, <1>2 DEF MatrixInv, AllMade
<1>4. PreviewInv'
    BY <1>1, <1>2 DEF PreviewInv
<1>5. CheckedInv'
    BY <1>1 DEF MatrixInv, CheckedInv
<1> QED
    BY <1>2, <1>3, <1>4, <1>5 DEF MatrixInv

LEMMA EditKept ==
    ASSUME MatrixInv, VariationShape', EditAttributes
    PROVE  MatrixInv'
<1>1. UNCHANGED <<matrix, updateAt>> /\ version' = version + 1 /\ version < Len(AttributeRows)
      /\ previewed' = [previewed EXCEPT !.stale = TRUE] /\ outcome' = [outcome EXCEPT !.at = "ready"]
    BY DEF EditAttributes
<1>2. RowsTyped'
    <2>1. version \in DOMAIN AttributeRows
        BY DEF MatrixInv, RowsTyped, VersionIs
    <2>2. version' \in DOMAIN AttributeRows
        BY <1>1, <2>1, VariationAssumption, LenProperties
    <2> QED
        BY <1>1, <2>2 DEF MatrixInv, RowsTyped, VersionIs
<1>3. ActiveRows' = ActiveRows
    BY <1>1 DEF ActiveRows
<1>4. RowsApart' /\ IdentifiersApart'
    BY <1>1, <1>3 DEF MatrixInv, RowsApart, IdentifiersApart
<1>5. outcome'.at = "ready"
    BY <1>1 DEF MatrixInv, VariationShape
<1>6. previewed' = [new |-> previewed.new, stale |-> TRUE]
    BY <1>1 DEF MatrixInv, PreviewInv
<1>7. CheckedInv'
    BY <1>1 DEF MatrixInv, CheckedInv
<1> QED
    BY <1>2, <1>4, <1>5, <1>6, <1>7 DEF MatrixInv, AllMade, PreviewInv

LEMMA DeleteRowKept ==
    ASSUME MatrixInv, VariationShape', NEW n \in DOMAIN matrix, DeleteRow(n)
    PROVE  MatrixInv'
<1>1. UNCHANGED <<version, updateAt>> /\ n \in ActiveRows /\ matrix' = [matrix EXCEPT ![n].deleted = TRUE]
      /\ previewed' = [previewed EXCEPT !.stale = TRUE] /\ outcome' = [outcome EXCEPT !.at = "ready"]
    BY DEF DeleteRow
<1>2. Len(matrix) \in Nat /\ DOMAIN matrix = 1 .. Len(matrix) /\ \A m \in DOMAIN matrix : matrix[m] \in RowRecords
    BY RowsAreTyped DEF MatrixInv
<1>3. [matrix[n] EXCEPT !.deleted = TRUE] \in RowRecords /\ [matrix[n] EXCEPT !.deleted = TRUE].deleted
    BY <1>2 DEF RowRecords
<1>4. /\ DOMAIN matrix' = DOMAIN matrix /\ matrix'[n] = [matrix[n] EXCEPT !.deleted = TRUE]
      /\ \A m \in DOMAIN matrix : m # n => matrix'[m] = matrix[m]
    BY <1>1
<1>5. matrix' \in Seq(RowRecords)
    <2>1. matrix' \in [1 .. Len(matrix) -> RowRecords]
        BY <1>1, <1>2, <1>3
    <2> QED
        BY <1>2, <2>1, SequenceOf
<1>6. ActiveRows' \subseteq ActiveRows /\ \A m \in ActiveRows' : matrix'[m] = matrix[m]
    BY <1>3, <1>4 DEF ActiveRows
<1>7. RowsTyped'
    BY <1>1, <1>5 DEF MatrixInv, RowsTyped, VersionIs
<1>8. RowsApart'
    BY <1>6 DEF MatrixInv, RowsApart
<1>9. IdentifiersApart'
    BY <1>6 DEF MatrixInv, IdentifiersApart
<1>10. outcome'.at = "ready"
    BY <1>1 DEF MatrixInv, VariationShape
<1>11. previewed' = [new |-> previewed.new, stale |-> TRUE]
    BY <1>1 DEF MatrixInv, PreviewInv
<1>12. CheckedInv'
    BY <1>1, <1>4 DEF MatrixInv, CheckedInv
<1> QED
    BY <1>7, <1>8, <1>9, <1>10, <1>11, <1>12 DEF MatrixInv, AllMade, PreviewInv

LEMMA CheckKept ==
    ASSUME MatrixInv, VariationShape', NEW u \in DOMAIN Updates, CheckIdentifier(u)
    PROVE  MatrixInv'
<1>1. UNCHANGED <<version, matrix, previewed, outcome>> /\ Updates[u].row \in ActiveRows
      /\ updateAt' = [updateAt EXCEPT ![u] = IF IsFree(Updates[u].ean, Updates[u].row)
                                             THEN "checked" ELSE "answered"]
    BY DEF CheckIdentifier
<1>2. Updates[u].row \in DOMAIN matrix
    BY <1>1 DEF ActiveRows
<1>3. CheckedInv'
    BY <1>1, <1>2 DEF MatrixInv, CheckedInv, VariationShape, IsFree
<1> QED
    BY <1>1, <1>3, RestKept

LEMMA CommitKept ==
    ASSUME MatrixInv, VariationShape', NEW u \in DOMAIN Updates, CommitIdentifier(u)
    PROVE  MatrixInv'
<1> DEFINE row == Updates[u].row
           ean == Updates[u].ean
<1>1. UNCHANGED <<version, previewed, outcome>> /\ updateAt[u] = "checked"
      /\ updateAt' = [updateAt EXCEPT ![u] = "answered"]
      /\ matrix' = IF MayTake(ean, row) /\ ~matrix[row].deleted THEN [matrix EXCEPT ![row].ean = ean] ELSE matrix
    BY DEF CommitIdentifier
<1>2. row \in DOMAIN matrix /\ ean \notin Taken /\ ean \in STRING
    BY <1>1, VariationAssumption DEF MatrixInv, CheckedInv
<1>3. Len(matrix) \in Nat /\ DOMAIN matrix = 1 .. Len(matrix) /\ \A m \in DOMAIN matrix : matrix[m] \in RowRecords
    BY RowsAreTyped DEF MatrixInv
<1>4. CASE ~(MayTake(ean, row) /\ ~matrix[row].deleted)
    <2>1. matrix' = matrix
        BY <1>1, <1>4
    <2>2. CheckedInv'
        BY <1>1, <2>1 DEF MatrixInv, CheckedInv, VariationShape
    <2> QED
        BY <1>1, <2>1, <2>2, RestKept
<1>5. CASE MayTake(ean, row) /\ ~matrix[row].deleted
    <2> DEFINE changed == [matrix[row] EXCEPT !.ean = ean]
    <2> HIDE DEF row, ean
    <2>1. changed \in RowRecords /\ changed.key = matrix[row].key /\ changed.deleted = matrix[row].deleted
          /\ changed.ean = ean
        BY <1>2, <1>3 DEF RowRecords
    <2>2. /\ DOMAIN matrix' = DOMAIN matrix /\ matrix'[row] = changed
          /\ \A m \in DOMAIN matrix : m # row => matrix'[m] = matrix[m]
        BY <1>1, <1>2, <1>5
    <2>3. matrix' \in Seq(RowRecords)
        <3>1. matrix' \in [1 .. Len(matrix) -> RowRecords]
            BY <1>1, <1>2, <1>3, <1>5, <2>1
        <3> QED
            BY <1>3, <3>1, SequenceOf
    <2> HIDE DEF changed
    <2>4. \A m \in DOMAIN matrix : matrix'[m].key = matrix[m].key /\ matrix'[m].deleted = matrix[m].deleted
        BY <2>1, <2>2
    <2>5. ActiveRows' = ActiveRows /\ ActiveRows \subseteq DOMAIN matrix
        BY <2>2, <2>4 DEF ActiveRows
    <2>6. ActiveKeys' = ActiveKeys
        BY <2>4, <2>5 DEF ActiveKeys
    <2>7. Dimensions' = Dimensions /\ Keys' = Keys /\ SourceKey' = SourceKey
        BY <1>1, VersionSame
    <2>8. RowsTyped'
        BY <1>1, <2>3 DEF MatrixInv, RowsTyped, VersionIs
    <2>9. RowsApart'
        BY <2>4, <2>5 DEF MatrixInv, RowsApart
    <2>10. NewKeys' = NewKeys
        BY <2>6, <2>7 DEF NewKeys
    <2>11. AllMade'
        BY <1>1, <2>6, <2>7 DEF MatrixInv, AllMade
    <2>12. PreviewInv'
        BY <1>1, <2>7, <2>10 DEF MatrixInv, PreviewInv
    <2>13. CheckedInv'
        BY <1>1, <2>2 DEF MatrixInv, CheckedInv, VariationShape
    <2>14. ASSUME NEW n \in ActiveRows', matrix'[n].ean # NoValue
           PROVE  /\ matrix'[n].ean \in Taken => matrix'[n].ean = Own.ean
                  /\ \A m \in ActiveRows' : matrix'[m].ean = matrix'[n].ean => m = n
        <3>1. n \in ActiveRows /\ n \in DOMAIN matrix
            BY <2>5
        <3>2. \A k \in ActiveRows : ean # NoValue /\ k # row => matrix[k].ean # ean
            BY <1>5 DEF MayTake
        <3>3. CASE n = row
            BY <1>2, <2>1, <2>2, <2>5, <2>14, <3>2, <3>3
        <3>4. CASE n # row
            <4>1. matrix'[n] = matrix[n] /\ matrix[n].ean # NoValue
                BY <2>2, <2>14, <3>1, <3>4
            <4>2. /\ matrix[n].ean \in Taken => matrix[n].ean = Own.ean
                  /\ \A m \in ActiveRows : matrix[m].ean = matrix[n].ean => m = n
                BY <3>1, <4>1 DEF MatrixInv, IdentifiersApart
            <4>3. ASSUME NEW m \in ActiveRows, matrix'[m].ean = matrix'[n].ean PROVE m = n
                <5>1. CASE m = row
                    BY <2>1, <2>2, <3>1, <3>2, <3>4, <4>1, <4>3, <5>1
                <5>2. CASE m # row
                    BY <2>2, <2>5, <4>1, <4>2, <4>3, <5>2
                <5> QED
                    BY <5>1, <5>2
            <4> QED
                BY <2>5, <4>1, <4>2, <4>3
        <3> QED
            BY <3>3, <3>4
    <2>15. IdentifiersApart'
        BY <2>14 DEF IdentifiersApart
    <2> QED
        BY <2>8, <2>9, <2>11, <2>12, <2>13, <2>15 DEF MatrixInv
<1> QED
    BY <1>4, <1>5

\* The rows that a generation adds.
AddedRows == [n \in DOMAIN MissingKeys |-> RowFor(MissingKeys[n])]

LEMMA AddedAre ==
    ASSUME VersionIs, Dimensions # <<>>
    PROVE  /\ AddedRows \in Seq(RowRecords)
           /\ \A i, j \in DOMAIN AddedRows : AddedRows[i].key = AddedRows[j].key => i = j
           /\ \A i \in DOMAIN AddedRows : AddedRows[i].key \notin ActiveKeys /\ ~AddedRows[i].deleted
           /\ \A i, j \in DOMAIN AddedRows : AddedRows[i].ean # NoValue /\ AddedRows[j].ean # NoValue => i = j
           /\ \A i \in DOMAIN AddedRows : AddedRows[i].ean \in {NoValue, Own.ean}
           /\ \A n \in DOMAIN Keys : Keys[n] \in ActiveKeys \/ \E i \in DOMAIN AddedRows : AddedRows[i].key = Keys[n]
           /\ Cardinality({i \in DOMAIN AddedRows : ~AddedRows[i].source}) = Cardinality(NewKeys)
<1> DEFINE keys == MissingKeys
           rows == [n \in DOMAIN keys |-> RowFor(keys[n])]
<1>1. /\ keys \in Seq(AllKeys)
      /\ \A i, j \in DOMAIN keys : keys[i] = keys[j] => i = j
      /\ \A i \in DOMAIN keys : keys[i] \in ToSet(Keys) /\ keys[i] \notin ActiveKeys
      /\ \A n \in DOMAIN Keys : Keys[n] \in ActiveKeys \/ \E i \in DOMAIN keys : keys[i] = Keys[n]
    BY MissingAre
<1>2. Cardinality({i \in DOMAIN keys : keys[i] # SourceKey}) = Cardinality(NewKeys)
    BY NewAreCounted
<1>3. AddedRows = rows
    BY DEF AddedRows
<1> HIDE DEF keys
<1>4. Len(keys) \in Nat /\ DOMAIN keys = 1 .. Len(keys) /\ \A i \in DOMAIN keys : keys[i] \in AllKeys
    BY <1>1, LenProperties
<1>5. ASSUME NEW i \in DOMAIN keys
      PROVE  /\ RowFor(keys[i]) \in RowRecords /\ RowFor(keys[i]).key = keys[i] /\ ~RowFor(keys[i]).deleted
             /\ RowFor(keys[i]).source = (keys[i] = SourceKey)
             /\ RowFor(keys[i]).ean = IF keys[i] = SourceKey THEN Own.ean ELSE NoValue
    <2>1. keys[i] \in AllKeys /\ NoValue \in STRING /\ Own.ean \in STRING
        BY <1>4, VariationAssumption
    <2> DEFINE own == (keys[i] = SourceKey)
               ean == IF own THEN Own.ean ELSE NoValue
    <2>2. RowFor(keys[i]) = [key |-> keys[i], source |-> own, deleted |-> FALSE, ean |-> ean]
        BY DEF RowFor
    <2>3. own \in BOOLEAN /\ ean \in STRING
        BY <2>1
    <2> HIDE DEF own, ean
    <2>4. /\ RowFor(keys[i]) \in RowRecords /\ RowFor(keys[i]).key = keys[i] /\ ~RowFor(keys[i]).deleted
          /\ RowFor(keys[i]).source = own /\ RowFor(keys[i]).ean = ean
        BY <2>1, <2>2, <2>3 DEF RowRecords
    <2> QED
        BY <2>4 DEF own, ean
<1>6. rows \in Seq(RowRecords)
    <2>1. rows \in [1 .. Len(keys) -> RowRecords]
        BY <1>4, <1>5
    <2> HIDE DEF rows
    <2> QED
        BY <1>4, <2>1, SequenceOf
<1>7. DOMAIN rows = DOMAIN keys /\ \A i \in DOMAIN keys : rows[i] = RowFor(keys[i])
    OBVIOUS
<1> HIDE DEF rows
<1>8. {i \in DOMAIN rows : ~rows[i].source} = {i \in DOMAIN keys : keys[i] # SourceKey}
    BY <1>5, <1>7
<1>9. \A i \in DOMAIN rows : rows[i].key = keys[i] /\ ~rows[i].deleted
          /\ rows[i].ean = IF keys[i] = SourceKey THEN Own.ean ELSE NoValue
    BY <1>5, <1>7
<1>10. \A i, j \in DOMAIN rows : rows[i].key = rows[j].key => i = j
    BY <1>1, <1>7, <1>9
<1>11. \A i \in DOMAIN rows : rows[i].key \notin ActiveKeys /\ ~rows[i].deleted
    BY <1>1, <1>7, <1>9
<1>12. \A i, j \in DOMAIN rows : rows[i].ean # NoValue /\ rows[j].ean # NoValue => i = j
    BY <1>1, <1>7, <1>9
<1>13. \A i \in DOMAIN rows : rows[i].ean \in {NoValue, Own.ean}
    BY <1>9
<1>14. \A n \in DOMAIN Keys : Keys[n] \in ActiveKeys \/ \E i \in DOMAIN rows : rows[i].key = Keys[n]
    BY <1>1, <1>7, <1>9
<1> QED
    BY <1>2, <1>3, <1>6, <1>8, <1>10, <1>11, <1>12, <1>13, <1>14

LEMMA GenerateIs ==
    ASSUME MatrixInv, GenerateMatrix
    PROVE  /\ UNCHANGED <<version, updateAt>> /\ Dimensions # <<>>
           /\ previewed' = [new |-> previewed.new, stale |-> TRUE]
           /\ \/ /\ \A i \in DOMAIN AddedRows : MayTake(AddedRows[i].ean, 0)
                 /\ matrix' = matrix \o AddedRows
                 /\ outcome' = [at |-> "generated",
                                created |-> Cardinality({i \in DOMAIN AddedRows : ~AddedRows[i].source})]
              \/ UNCHANGED matrix /\ outcome'.at = "raised"
<1>1. previewed' = [previewed EXCEPT !.stale = TRUE]
    BY DEF GenerateMatrix
<1>2. previewed' = [new |-> previewed.new, stale |-> TRUE]
    BY <1>1 DEF MatrixInv, PreviewInv
<1>3. \/ /\ \A i \in DOMAIN AddedRows : MayTake(AddedRows[i].ean, 0)
         /\ matrix' = matrix \o AddedRows
         /\ outcome' = [at |-> "generated",
                        created |-> Cardinality({i \in DOMAIN AddedRows : ~AddedRows[i].source})]
      \/ UNCHANGED matrix /\ outcome' = [at |-> "raised", created |-> 0]
    BY DEF GenerateMatrix, AddedRows
<1>4. UNCHANGED <<version, updateAt>> /\ Dimensions # <<>>
    BY DEF GenerateMatrix
<1> QED
    BY <1>2, <1>3, <1>4

\* The rows after a generation: those before it, and those added.
Grown(new, old, added) ==
    /\ new \in Seq(RowRecords)
    /\ \A n \in DOMAIN old : n \in DOMAIN new /\ new[n] = old[n]
    /\ \A i \in DOMAIN added : Len(old) + i \in DOMAIN new /\ new[Len(old) + i] = added[i]
    /\ \A n \in DOMAIN new : n \in DOMAIN old \/ \E i \in DOMAIN added : n = Len(old) + i

LEMMA RowsGrow ==
    ASSUME NEW old \in Seq(RowRecords), NEW added \in Seq(RowRecords)
    PROVE  Grown(old \o added, old, added)
<1> DEFINE a == Len(old)
           b == Len(added)
           new == old \o added
<1>1. a \in Nat /\ b \in Nat /\ DOMAIN old = 1 .. a /\ DOMAIN added = 1 .. b
    BY LenProperties
<1>2. new \in Seq(RowRecords) /\ DOMAIN new = 1 .. a + b
      /\ \A k \in 1 .. a + b : new[k] = IF k <= a THEN old[k] ELSE added[k - a]
    OBVIOUS
<1> HIDE DEF a, b, new
<1>3. /\ \A m \in 1 .. a : m \in 1 .. a + b
      /\ \A m \in 1 .. b : a + m \in 1 .. a + b /\ ~(a + m <= a) /\ (a + m) - a = m
      /\ \A k \in 1 .. a + b : k \notin 1 .. a => k - a \in 1 .. b /\ k = a + (k - a)
    BY <1>1, Within
<1>4. \A m \in 1 .. a : m <= a
    BY <1>1
<1>5. \A n \in DOMAIN old : n \in DOMAIN new /\ new[n] = old[n]
    BY <1>1, <1>2, <1>3, <1>4
<1>6. \A i \in DOMAIN added : a + i \in DOMAIN new /\ new[a + i] = added[i]
    BY <1>1, <1>2, <1>3
<1>7. \A n \in DOMAIN new : n \in DOMAIN old \/ \E i \in DOMAIN added : n = a + i
    BY <1>1, <1>2, <1>3
<1> QED
    BY <1>2, <1>5, <1>6, <1>7 DEF a, new, Grown

LEMMA GenerateKept ==
    ASSUME MatrixInv, VariationShape', GenerateMatrix
    PROVE  MatrixInv'
<1>1. UNCHANGED <<version, updateAt>> /\ Dimensions # <<>> /\ previewed' = [new |-> previewed.new, stale |-> TRUE]
    BY GenerateIs
<1>2. PreviewInv'
    BY <1>1 DEF PreviewInv
<1>3. VersionIs /\ matrix \in Seq(RowRecords)
    BY DEF MatrixInv, RowsTyped
<1>4. CASE UNCHANGED matrix /\ outcome'.at = "raised"
    <2>1. RowsTyped' /\ RowsApart' /\ IdentifiersApart'
        BY <1>1, <1>4, SameRows
    <2>2. AllMade'
        BY <1>4 DEF AllMade
    <2>3. CheckedInv'
        BY <1>1, <1>4 DEF MatrixInv, CheckedInv
    <2> QED
        BY <1>2, <2>1, <2>2, <2>3 DEF MatrixInv
<1>5. CASE /\ \A i \in DOMAIN AddedRows : MayTake(AddedRows[i].ean, 0)
           /\ matrix' = matrix \o AddedRows
    <2> DEFINE rows == AddedRows
               k == Len(matrix)
    <2>1. /\ rows \in Seq(RowRecords)
          /\ \A i, j \in DOMAIN rows : rows[i].key = rows[j].key => i = j
          /\ \A i \in DOMAIN rows : rows[i].key \notin ActiveKeys /\ ~rows[i].deleted
          /\ \A i, j \in DOMAIN rows : rows[i].ean # NoValue /\ rows[j].ean # NoValue => i = j
          /\ \A i \in DOMAIN rows : rows[i].ean \in {NoValue, Own.ean}
          /\ \A n \in DOMAIN Keys : Keys[n] \in ActiveKeys \/ \E i \in DOMAIN rows : rows[i].key = Keys[n]
        BY <1>1, <1>3, AddedAre
    <2>2. /\ matrix' \in Seq(RowRecords)
          /\ \A n \in DOMAIN matrix : n \in DOMAIN matrix' /\ matrix'[n] = matrix[n]
          /\ \A i \in DOMAIN rows : k + i \in DOMAIN matrix' /\ matrix'[k + i] = rows[i]
          /\ \A n \in DOMAIN matrix' : n \in DOMAIN matrix \/ \E i \in DOMAIN rows : n = k + i
        <3> HIDE DEF rows
        <3>1. rows \in Seq(RowRecords) /\ matrix \in Seq(RowRecords)
            BY <1>3, <2>1
        <3>2. matrix' = matrix \o rows
            BY <1>5 DEF rows
        <3>3. Grown(matrix', matrix, rows)
            BY <3>1, <3>2, RowsGrow
        <3> QED
            BY <3>3 DEF Grown
    <2>3. ASSUME NEW i \in DOMAIN rows, NEW m \in ActiveRows
          PROVE  m \in DOMAIN matrix /\ (rows[i].ean # NoValue => matrix[m].ean # rows[i].ean)
        <3>1. m \in DOMAIN matrix /\ m # 0
            BY <1>3, LenProperties DEF ActiveRows
        <3>2. MayTake(rows[i].ean, 0)
            BY <1>5
        <3> QED
            BY <3>1, <3>2 DEF MayTake
    <2> HIDE DEF rows, k
    <2>4. /\ \A n \in ActiveRows : n \in ActiveRows' /\ matrix'[n] = matrix[n]
          /\ \A i \in DOMAIN rows : k + i \in ActiveRows' /\ matrix'[k + i] = rows[i]
          /\ \A n \in ActiveRows' : n \in ActiveRows \/ \E i \in DOMAIN rows : n = k + i
        BY <2>1, <2>2 DEF ActiveRows
    <2>5. \A n \in ActiveRows : matrix[n].key \in ActiveKeys
        BY DEF ActiveKeys
    <2>6. RowsTyped'
        BY <1>1, <2>2 DEF MatrixInv, RowsTyped, VersionIs
    <2>7. RowsApart'
        <3> SUFFICES ASSUME NEW m \in ActiveRows', NEW n \in ActiveRows', matrix'[m].key = matrix'[n].key
                     PROVE  m = n
            BY DEF RowsApart
        <3>1. CASE m \in ActiveRows /\ n \in ActiveRows
            BY <2>4, <3>1 DEF MatrixInv, RowsApart
        <3>2. CASE m \in ActiveRows /\ n \notin ActiveRows
            BY <2>1, <2>4, <2>5, <3>2
        <3>3. CASE m \notin ActiveRows /\ n \in ActiveRows
            BY <2>1, <2>4, <2>5, <3>3
        <3>4. CASE m \notin ActiveRows /\ n \notin ActiveRows
            BY <2>1, <2>4, <3>4
        <3> QED
            BY <3>1, <3>2, <3>3, <3>4
    <2>8. AllMade'
        <3>1. Dimensions' = Dimensions /\ Keys' = Keys
            BY <1>1, VersionSame
        <3>2. ASSUME NEW n \in DOMAIN Keys PROVE Keys[n] \in ActiveKeys'
            <4>1. CASE Keys[n] \in ActiveKeys
                BY <2>4, <4>1 DEF ActiveKeys
            <4>2. CASE \E i \in DOMAIN rows : rows[i].key = Keys[n]
                BY <2>4, <4>2 DEF ActiveKeys
            <4> QED
                BY <2>1, <4>1, <4>2
        <3> QED
            BY <1>1, <3>1, <3>2 DEF AllMade
    <2>9. CheckedInv'
        BY <1>1, <2>2 DEF MatrixInv, CheckedInv
    <2>10. IdentifiersApart'
        <3> SUFFICES ASSUME NEW n \in ActiveRows', matrix'[n].ean # NoValue
                     PROVE  /\ matrix'[n].ean \in Taken => matrix'[n].ean = Own.ean
                            /\ \A m \in ActiveRows' : matrix'[m].ean = matrix'[n].ean => m = n
            BY DEF IdentifiersApart
        <3>1. CASE n \in ActiveRows
            <4>1. matrix'[n] = matrix[n] /\ matrix[n].ean # NoValue
                BY <2>4, <3>1
            <4>2. /\ matrix[n].ean \in Taken => matrix[n].ean = Own.ean
                  /\ \A m \in ActiveRows : matrix[m].ean = matrix[n].ean => m = n
                BY <3>1, <4>1 DEF MatrixInv, IdentifiersApart
            <4>3. ASSUME NEW m \in ActiveRows', matrix'[m].ean = matrix'[n].ean PROVE m = n
                <5>1. CASE m \in ActiveRows
                    BY <2>4, <4>1, <4>2, <4>3, <5>1
                <5>2. CASE m \notin ActiveRows
                    <6>1. PICK i \in DOMAIN rows : m = k + i
                        BY <2>4, <5>2
                    <6>2. rows[i].ean = matrix[n].ean
                        BY <2>4, <4>1, <4>3, <6>1
                    <6> QED
                        BY <2>3, <3>1, <4>1, <6>2
                <5> QED
                    BY <5>1, <5>2
            <4> QED
                BY <4>1, <4>2, <4>3
        <3>2. CASE n \notin ActiveRows
            <4>1. PICK i \in DOMAIN rows : n = k + i
                BY <2>4, <3>2
            <4>2. matrix'[n] = rows[i] /\ rows[i].ean # NoValue /\ rows[i].ean = Own.ean
                BY <2>1, <2>4, <4>1
            <4>3. ASSUME NEW m \in ActiveRows', matrix'[m].ean = matrix'[n].ean PROVE m = n
                <5>1. m \notin ActiveRows
                    BY <2>3, <2>4, <4>2, <4>3
                <5>2. PICK j \in DOMAIN rows : m = k + j
                    BY <2>4, <5>1
                <5>3. rows[j].ean # NoValue
                    BY <2>4, <4>2, <4>3, <5>2
                <5>4. i = j
                    BY <2>1, <4>2, <5>3
                <5> QED
                    BY <4>1, <5>2, <5>4
            <4> QED
                BY <4>2, <4>3
        <3> QED
            BY <3>1, <3>2
    <2> QED
        BY <1>2, <2>6, <2>7, <2>8, <2>9, <2>10 DEF MatrixInv
<1> QED
    BY <1>4, <1>5, GenerateIs

\* Each way to choose the values has its row, and only one.
LEMMA AllHaveRows == MatrixInv => MatrixIsComplete
<1> DEFINE Forms(name) == {Normal[v] : v \in ToSet(ValuesOf(name))}
           names == ToSet(Dimensions)
           all == {f \in [names -> UNION {Forms(n) : n \in names}] : \A n \in names : f[n] \in Forms(n)}
<1> SUFFICES ASSUME MatrixInv, outcome.at = "generated", NEW f \in all
             PROVE  Cardinality({n \in ActiveRows : matrix[n].key = f}) = 1
    BY DEF MatrixIsComplete
<1>1. VersionIs /\ Dimensions # <<>> /\ \A n \in DOMAIN Keys : Keys[n] \in ActiveKeys
    BY DEF MatrixInv, RowsTyped, AllMade
<1>2. \A name : Forms(name) \subseteq NormalForms
    <2> SUFFICES ASSUME NEW name, NEW v \in ToSet(ValuesOf(name)) PROVE v \in ProductValues
        BY DEF NormalForms
    <2>1. ValuesOf(name) \in Seq(ProductValues)
        BY <1>1, ValuesAre
    <2> QED
        BY <2>1, LenProperties DEF ToSet
<1>3. \A x \in names : f[x] \in Forms(x)
    OBVIOUS
<1>4. f \in [names -> NormalForms]
    <2>1. \A x \in names : f[x] \in NormalForms
        BY <1>2, <1>3
    <2>2. f = [x \in names |-> f[x]]
        OBVIOUS
    <2> HIDE DEF Forms, names, all
    <2> QED
        BY <2>1, <2>2
<1>5. PICK k \in DOMAIN Keys : Keys[k] = f
    <2> HIDE DEF all
    <2> QED
        BY <1>1, <1>3, <1>4, KeysCover
<1>6. PICK row \in ActiveRows : matrix[row].key = f
    <2> HIDE DEF all
    <2>1. f \in ActiveKeys
        BY <1>1, <1>5
    <2> QED
        BY <2>1 DEF ActiveKeys
<1>7. {n \in ActiveRows : matrix[n].key = f} = {row}
    <2> HIDE DEF all
    <2>1. \A m \in ActiveRows : matrix[m].key = f => m = row
        BY <1>6 DEF MatrixInv, RowsApart
    <2> QED
        BY <1>6, <2>1
<1> QED
    BY <1>7, FS_Singleton

\* What a generation creates is what the preview that still holds has promised.
LEMMA PreviewHolds ==
    ASSUME MatrixInv, [VariationNext]_<<scene, variationVars>>,
           outcome.at = "ready", outcome'.at = "generated", ~previewed.stale
    PROVE  outcome'.created = previewed.new
<1>1. GenerateMatrix
    BY DEF VariationNext, MatrixStep, ExportStep, variationVars, MatrixInv, VariationShape, PreviewVariants,
           EditAttributes, DeleteRow, CheckIdentifier, CommitIdentifier, FillEans, ValidateVariants, ExportGoes,
           FindConflicts
<1>2. Dimensions # <<>> /\ outcome' = [at |-> "generated",
                               created |-> Cardinality({i \in DOMAIN AddedRows : ~AddedRows[i].source})]
    BY <1>1, GenerateIs
<1>3. Cardinality({i \in DOMAIN AddedRows : ~AddedRows[i].source}) = Cardinality(NewKeys)
    BY <1>2, AddedAre DEF MatrixInv, RowsTyped
<1> QED
    BY <1>2, <1>3 DEF MatrixInv, PreviewInv

-----------------------------------------------------------------------------
(* Variations: the submission.                                             *)

ExportInv ==
    /\ export.of \in DOMAIN Exports
    /\ export.at = "fill" => export.products = Exports[export.of] /\ export.reserved = 0
    /\ export.at \in {"validate", "conflicts", "ended"} =>
          /\ export.products = Filled(Exports[export.of])
          /\ export.reserved = Cardinality(Lacking(Exports[export.of])) /\ export.reserved <= Len(PoolEans)
    /\ export.at \in {"conflicts", "ended"} => UniqueInAll(WithVariants(export.products))
    /\ export.at = "ended" =>
          /\ export.payloads = ExpandAll(export.products)
          /\ export.skipped \/ EansOf(ExpandAll(WithVariants(export.products))) \cap StoredEans = {}

LEMMA ExportStarts == VariationInit => ExportInv
BY DEF VariationInit, ExportInv

\* The payloads depend on the products and on what the process is told of its address.
LEMMA ExpansionSame ==
    ASSUME UNCHANGED scene, export'.products = export.products
    PROVE  /\ ExpandAll(export.products)' = ExpandAll(export.products)
           /\ ExpandAll(WithVariants(export.products))' = ExpandAll(WithVariants(export.products))
           /\ UniqueInAll(WithVariants(export.products))' = UniqueInAll(WithVariants(export.products))
<1>1. /\ ExpandAll(export.products)' = ExpandAll(export.products)
      /\ ExpandAll(WithVariants(export.products))' = ExpandAll(WithVariants(export.products))
    BY DEF ExpandAll, Expand, VariantPayload, External, May
<1> QED
    BY <1>1 DEF UniqueInAll

LEMMA ExportKept ==
    ASSUME VariationShape, ExportInv, [VariationNext]_<<scene, variationVars>>
    PROVE  ExportInv'
<1>0. UNCHANGED scene
    BY DEF VariationNext
<1>1. CASE UNCHANGED export
    <2>1. /\ ExpandAll(export.products)' = ExpandAll(export.products)
          /\ ExpandAll(WithVariants(export.products))' = ExpandAll(WithVariants(export.products))
          /\ UniqueInAll(WithVariants(export.products))' = UniqueInAll(WithVariants(export.products))
        BY <1>0, <1>1, ExpansionSame
    <2> QED
        BY <1>1, <2>1 DEF ExportInv, EansOf
<1>2. CASE FillEans
    <2> DEFINE needed == Cardinality(Lacking(export.products))
    <2>1. CASE needed <= Len(PoolEans)
        <3>1. export.at = "fill" /\ export' = [export EXCEPT !.at = "validate", !.products = Filled(@), !.reserved = needed]
            BY <1>2, <2>1 DEF FillEans
        <3>2. export'.at = "validate" /\ export'.of = export.of /\ export'.products = Filled(export.products)
              /\ export'.reserved = needed
            BY <3>1 DEF VariationShape
        <3> QED
            BY <2>1, <3>1, <3>2 DEF ExportInv
    <2>2. CASE ~(needed <= Len(PoolEans))
        <3>1. export' = [export EXCEPT !.at = "raised"]
            BY <1>2, <2>2 DEF FillEans
        <3>2. export'.at = "raised" /\ export'.of = export.of
            BY <3>1 DEF VariationShape
        <3> QED
            BY <3>2 DEF ExportInv
    <2> QED
        BY <2>1, <2>2
<1>3. CASE ValidateVariants
    <2>1. export.at = "validate"
          /\ \/ UniqueInAll(WithVariants(export.products)) /\ export' = [export EXCEPT !.at = "conflicts"]
             \/ export' = [export EXCEPT !.at = "refused"]
        BY <1>3 DEF ValidateVariants, ExportGoes
    <2>2. /\ export'.of = export.of /\ export'.products = export.products /\ export'.reserved = export.reserved
          /\ \/ UniqueInAll(WithVariants(export.products)) /\ export'.at = "conflicts"
             \/ export'.at = "refused"
        BY <2>1 DEF VariationShape
    <2>3. UniqueInAll(WithVariants(export.products))' = UniqueInAll(WithVariants(export.products))
        BY <1>0, <2>2, ExpansionSame
    <2> QED
        BY <2>1, <2>2, <2>3 DEF ExportInv
<1>4. CASE FindConflicts
    <2> DEFINE eans == EansOf(ExpandAll(WithVariants(export.products)))
    <2>1. /\ export.at = "conflicts"
          /\ \/ /\ eans \cap StoredEans = {}
                /\ export' = [export EXCEPT !.at = "ended", !.payloads = ExpandAll(export.products)]
             \/ export' = [export EXCEPT !.at = "refused"]
             \/ export' = [export EXCEPT !.at = "ended", !.payloads = ExpandAll(export.products), !.skipped = TRUE]
        BY <1>4 DEF FindConflicts
    <2> HIDE DEF eans
    <2>2. /\ export'.of = export.of /\ export'.products = export.products /\ export'.reserved = export.reserved
          /\ \/ export'.at = "refused"
             \/ /\ export'.at = "ended" /\ export'.payloads = ExpandAll(export.products)
                /\ export'.skipped \/ eans \cap StoredEans = {}
        BY <2>1 DEF VariationShape
    <2>3. /\ ExpandAll(export.products)' = ExpandAll(export.products)
          /\ ExpandAll(WithVariants(export.products))' = ExpandAll(WithVariants(export.products))
          /\ UniqueInAll(WithVariants(export.products))' = UniqueInAll(WithVariants(export.products))
        BY <1>0, <2>2, ExpansionSame
    <2> QED
        BY <2>1, <2>2, <2>3 DEF ExportInv, EansOf, eans
<1> QED
    BY <1>1, <1>2, <1>3, <1>4
    DEF VariationNext, MatrixStep, ExportStep, variationVars, PreviewVariants, GenerateMatrix,
        EditAttributes, DeleteRow, CheckIdentifier, CommitIdentifier

LEMMA ImageIsFinite ==
    ASSUME NEW S, IsFiniteSet(S), NEW f, DOMAIN f = S
    PROVE  IsFiniteSet({f[x] : x \in S})
<1> DEFINE T == {f[x] : x \in S}
           g == [x \in S |-> f[x]]
<1>1. g \in [S -> T] /\ \A y \in T : \E x \in S : g[x] = y
    OBVIOUS
<1>2. g \in Surjection(S, T)
    <2> HIDE DEF g, T
    <2> QED
        BY <1>1 DEF Surjection
<1> QED
    BY <1>2, FS_Surjection

\* Of a finite set in an order, the ranks are those from one to its size.
LEMMA RanksAre ==
    ASSUME NEW L, IsFiniteSet(L), NEW below \in [L -> SUBSET L],
           \A a \in L : a \notin below[a],
           \A a, b \in L : a # b => a \in below[b] \/ b \in below[a],
           \A a, b \in L : a \in below[b] => below[a] \subseteq below[b]
    PROVE  /\ \A a \in L : Cardinality(below[a]) + 1 \in 1 .. Cardinality(L)
           /\ \A k \in 1 .. Cardinality(L) : \E a \in L : Cardinality(below[a]) + 1 = k
<1> DEFINE size == Cardinality(L)
           rank == [a \in L |-> Cardinality(below[a]) + 1]
<1>1. size \in Nat
    BY FS_CardinalityType
<1>2. ASSUME NEW a \in L PROVE IsFiniteSet(below[a]) /\ Cardinality(below[a]) \in Nat
    <2>1. below[a] \in SUBSET L
        OBVIOUS
    <2> QED
        BY <2>1, FS_Subset, FS_CardinalityType
<1>3. ASSUME NEW a \in L
      PROVE  IsFiniteSet(below[a] \cup {a}) /\ Cardinality(below[a] \cup {a}) = Cardinality(below[a]) + 1
    BY <1>2, FS_AddElement
<1>4. ASSUME NEW a \in L PROVE Cardinality(below[a]) + 1 \in 1 .. size
    <2>1. below[a] \cup {a} \in SUBSET L
        OBVIOUS
    <2>2. Cardinality(below[a] \cup {a}) <= size
        BY <2>1, FS_Subset
    <2>3. Cardinality(below[a]) \in Nat /\ Cardinality(below[a]) + 1 <= size
        BY <1>2, <1>3, <2>2
    <2> HIDE DEF size
    <2> QED
        BY <1>1, <2>3
<1>5. ASSUME NEW a \in L, NEW b \in L, a \in below[b] PROVE rank[a] # rank[b]
    <2>1. below[a] \cup {a} \in SUBSET below[b]
        BY <1>5
    <2>2. Cardinality(below[a] \cup {a}) <= Cardinality(below[b])
        BY <1>2, <2>1, FS_Subset
    <2>3. Cardinality(below[a]) \in Nat /\ Cardinality(below[b]) \in Nat
          /\ Cardinality(below[a]) + 1 <= Cardinality(below[b])
        BY <1>2, <1>3, <2>2
    <2> QED
        BY <2>3
<1>6. rank \in Injection(L, 1 .. size)
    <2>1. rank \in [L -> 1 .. size]
        BY <1>4
    <2>2. \A a, b \in L : rank[a] = rank[b] => a = b
        BY <1>5
    <2> HIDE DEF rank, size
    <2> QED
        BY <2>1, <2>2 DEF Injection, IsInjective
<1>7. rank \in Surjection(L, 1 .. size)
    <2>1. IsFiniteSet(1 .. size) /\ Cardinality(1 .. size) = size
        BY <1>1, OneTo
    <2>2. Cardinality(L) = Cardinality(1 .. size)
        BY <2>1
    <2> HIDE DEF rank, size
    <2> QED
        BY <1>6, <2>1, <2>2, FS_Injection
<1>8. ASSUME NEW k \in 1 .. size PROVE \E a \in L : Cardinality(below[a]) + 1 = k
    <2>1. \E a \in L : rank[a] = k
        <3> HIDE DEF rank, size
        <3> QED
            BY <1>7 DEF Surjection
    <2> QED
        BY <2>1
<1> QED
    BY <1>4, <1>8

ProductRecords ==
    [reference : STRING, ean : STRING, price : STRING, values : Seq(ValueChoices), media : Seq(Links),
     variants : Seq(VariantRecords)]

LEMMA ExportsAre ==
    /\ \A of \in DOMAIN Exports : Exports[of] \in Seq(ProductRecords)
    /\ PoolEans \in Seq(STRING \ {NoValue}) /\ NoValue \in STRING
BY VariationAssumption DEF ProductRecords

LEMMA ProductsAreTyped ==
    ASSUME NEW products \in Seq(ProductRecords)
    PROVE  /\ Len(products) \in Nat /\ DOMAIN products = 1 .. Len(products)
           /\ \A p \in DOMAIN products :
                 /\ products[p] \in ProductRecords
                 /\ products[p].variants \in Seq(VariantRecords)
                 /\ Len(products[p].variants) \in Nat
                 /\ DOMAIN products[p].variants = 1 .. Len(products[p].variants)
                 /\ \A n \in DOMAIN products[p].variants : products[p].variants[n] \in VariantRecords
<1>1. Len(products) \in Nat /\ DOMAIN products = 1 .. Len(products)
      /\ \A p \in DOMAIN products : products[p] \in ProductRecords
    BY LenProperties
<1>2. \A product \in ProductRecords : product.variants \in Seq(VariantRecords)
    BY DEF ProductRecords
<1>3. ASSUME NEW p \in DOMAIN products
      PROVE  /\ Len(products[p].variants) \in Nat
             /\ DOMAIN products[p].variants = 1 .. Len(products[p].variants)
             /\ \A n \in DOMAIN products[p].variants : products[p].variants[n] \in VariantRecords
    BY <1>1, <1>2, LenProperties
<1> QED
    BY <1>1, <1>2, <1>3

\* The variants that lack an EAN, by product and place.
LEMMA LackingAre ==
    ASSUME NEW products \in Seq(ProductRecords)
    PROVE  /\ IsFiniteSet(Lacking(products))
           /\ \A place \in Lacking(products) : \E p \in DOMAIN products : \E n \in DOMAIN products[p].variants :
                 place = <<p, n>> /\ products[p].variants[n].active /\ products[p].variants[n].ean = NoValue
           /\ \A p \in DOMAIN products : \A n \in DOMAIN products[p].variants :
                 products[p].variants[n].active /\ products[p].variants[n].ean = NoValue
                     => <<p, n>> \in Lacking(products)
<1> DEFINE lacks(p) == {m \in DOMAIN products[p].variants :
                            products[p].variants[m].active /\ products[p].variants[m].ean = NoValue}
           places(p) == {<<p, n>> : n \in lacks(p)}
           all == [p \in DOMAIN products |-> places(p)]
<1>1. Lacking(products) = UNION {all[p] : p \in DOMAIN products}
    BY DEF Lacking
<1>2. ASSUME NEW p \in DOMAIN products PROVE IsFiniteSet(places(p))
    <2>1. Len(products[p].variants) \in Nat /\ DOMAIN products[p].variants = 1 .. Len(products[p].variants)
        BY ProductsAreTyped
    <2>2. IsFiniteSet(DOMAIN products[p].variants)
        BY <2>1, OneTo
    <2>3. lacks(p) \in SUBSET DOMAIN products[p].variants
        OBVIOUS
    <2>4. IsFiniteSet(lacks(p))
        BY <2>2, <2>3, FS_Subset
    <2> HIDE DEF lacks
    <2> DEFINE f == [n \in lacks(p) |-> <<p, n>>]
    <2>5. DOMAIN f = lacks(p) /\ {f[n] : n \in lacks(p)} = places(p)
        OBVIOUS
    <2> HIDE DEF f, places
    <2> QED
        BY <2>4, <2>5, ImageIsFinite
<1>3. IsFiniteSet({all[p] : p \in DOMAIN products})
    <2>1. IsFiniteSet(DOMAIN products)
        BY ProductsAreTyped, OneTo
    <2>2. DOMAIN all = DOMAIN products
        OBVIOUS
    <2> HIDE DEF all
    <2> QED
        BY <2>1, <2>2, ImageIsFinite
<1>4. \A T \in {all[p] : p \in DOMAIN products} : IsFiniteSet(T)
    <2> HIDE DEF places
    <2> QED
        BY <1>2
<1>5. IsFiniteSet(UNION {all[p] : p \in DOMAIN products})
    <2> HIDE DEF all
    <2> QED
        BY <1>3, <1>4, FS_UNION
<1> QED
    BY <1>1, <1>5

\* The EAN that a place is given.
GivenTo(products, p, n) == PoolEans[Cardinality(LackingBefore(products, p, n)) + 1]

\* Each place that lacks an EAN has one of those reserved, and each of those a place.
LEMMA PlacesAreRanked ==
    ASSUME NEW products \in Seq(ProductRecords)
    PROVE  /\ \A place \in Lacking(products) :
                 Cardinality(LackingBefore(products, place[1], place[2])) + 1 \in 1 .. Cardinality(Lacking(products))
           /\ \A k \in 1 .. Cardinality(Lacking(products)) : \E place \in Lacking(products) :
                 Cardinality(LackingBefore(products, place[1], place[2])) + 1 = k
<1> DEFINE L == Lacking(products)
           less(a, b) == a[1] < b[1] \/ (a[1] = b[1] /\ a[2] < b[2])
           below == [a \in L |-> LackingBefore(products, a[1], a[2])]
<1>1. IsFiniteSet(L)
    BY LackingAre
<1>2. ASSUME NEW a \in L PROVE a[1] \in Nat /\ a[2] \in Nat /\ a = <<a[1], a[2]>>
    <2>1. PICK p \in DOMAIN products : \E n \in DOMAIN products[p].variants : a = <<p, n>>
        BY LackingAre
    <2>2. PICK n \in DOMAIN products[p].variants : a = <<p, n>>
        BY <2>1
    <2>3. p \in 1 .. Len(products) /\ n \in 1 .. Len(products[p].variants)
        BY ProductsAreTyped
    <2> QED
        BY <2>2, <2>3
<1>3. \A a \in L : below[a] = {b \in L : less(b, a)}
    BY DEF LackingBefore
<1>4. below \in [L -> SUBSET L]
    BY DEF LackingBefore
<1> HIDE DEF below, L
<1>5. \A a \in L : ~less(a, a)
    BY <1>2
<1>6. \A a, b \in L : a # b => less(a, b) \/ less(b, a)
    BY <1>2
<1>7. \A a, b, c \in L : less(c, a) /\ less(a, b) => less(c, b)
    BY <1>2
<1>8. /\ \A a \in L : a \notin below[a]
      /\ \A a, b \in L : a # b => a \in below[b] \/ b \in below[a]
      /\ \A a, b \in L : a \in below[b] => below[a] \subseteq below[b]
    <2> HIDE DEF less
    <2> QED
        BY <1>3, <1>5, <1>6, <1>7
<1>9. /\ \A a \in L : Cardinality(below[a]) + 1 \in 1 .. Cardinality(L)
      /\ \A k \in 1 .. Cardinality(L) : \E a \in L : Cardinality(below[a]) + 1 = k
    BY <1>1, <1>4, <1>8, RanksAre
<1>10. \A a \in L : below[a] = LackingBefore(products, a[1], a[2])
    BY DEF below
<1> QED
    BY <1>9, <1>10 DEF L

FilledVariants(products, p) ==
    [n \in DOMAIN products[p].variants |->
        IF <<p, n>> \in Lacking(products) THEN [products[p].variants[n] EXCEPT !.ean = GivenTo(products, p, n)]
        ELSE products[p].variants[n]]

\* A variant that lacks an EAN gets its own of the pool's; nothing else changes.
LEMMA FilledAre ==
    ASSUME NEW products \in Seq(ProductRecords), Cardinality(Lacking(products)) <= Len(PoolEans)
    PROVE  /\ Filled(products) \in Seq(ProductRecords) /\ DOMAIN Filled(products) = DOMAIN products
           /\ \A p \in DOMAIN products :
                 /\ Filled(products)[p].ean = products[p].ean
                 /\ DOMAIN Filled(products)[p].variants = DOMAIN products[p].variants
                 /\ \A n \in DOMAIN products[p].variants : <<p, n>> \in Lacking(products) =>
                       Filled(products)[p].variants[n].active /\ Filled(products)[p].variants[n].ean = GivenTo(products, p, n)
<1> DEFINE filled == [p \in DOMAIN products |-> [products[p] EXCEPT !.variants = FilledVariants(products, p)]]
<1>1. Filled(products) = filled
    BY DEF Filled, FilledVariants, GivenTo
<1>2. /\ Len(products) \in Nat /\ DOMAIN products = 1 .. Len(products)
      /\ \A p \in DOMAIN products :
                 /\ products[p] \in ProductRecords
                 /\ products[p].variants \in Seq(VariantRecords)
                 /\ Len(products[p].variants) \in Nat
                 /\ DOMAIN products[p].variants = 1 .. Len(products[p].variants)
                 /\ \A n \in DOMAIN products[p].variants : products[p].variants[n] \in VariantRecords
    BY ProductsAreTyped
<1>3. ASSUME NEW p \in DOMAIN products, NEW n \in DOMAIN products[p].variants, <<p, n>> \in Lacking(products)
      PROVE  GivenTo(products, p, n) \in STRING /\ products[p].variants[n].active
    <2> DEFINE rank == Cardinality(LackingBefore(products, p, n)) + 1
               size == Cardinality(Lacking(products))
    <2>1. Cardinality(LackingBefore(products, <<p, n>>[1], <<p, n>>[2])) + 1 \in 1 .. size
        BY <1>3, PlacesAreRanked
    <2>2. rank \in 1 .. size
        BY <2>1
    <2>3. size \in Nat
        BY LackingAre, FS_CardinalityType
    <2>4. PoolEans \in Seq(STRING \ {NoValue})
        BY ExportsAre
    <2>5. Len(PoolEans) \in Nat /\ DOMAIN PoolEans = 1 .. Len(PoolEans) /\ \A k \in DOMAIN PoolEans : PoolEans[k] \in STRING
        BY <2>4, LenProperties
    <2> HIDE DEF rank, size
    <2>6. rank \in 1 .. Len(PoolEans)
        BY <2>2, <2>3, <2>5 DEF size
    <2>7. PoolEans[rank] \in STRING
        BY <2>5, <2>6
    <2>8. products[p].variants[n].active
        <3>1. PICK q \in DOMAIN products : \E m \in DOMAIN products[q].variants :
                  <<p, n>> = <<q, m>> /\ products[q].variants[m].active
            BY <1>3, LackingAre
        <3> QED
            BY <3>1
    <2> QED
        BY <2>7, <2>8 DEF GivenTo, rank
<1>4. ASSUME NEW p \in DOMAIN products
      PROVE  /\ FilledVariants(products, p) \in Seq(VariantRecords)
             /\ DOMAIN FilledVariants(products, p) = DOMAIN products[p].variants
             /\ \A n \in DOMAIN products[p].variants : <<p, n>> \in Lacking(products) =>
                   /\ FilledVariants(products, p)[n].active
                   /\ FilledVariants(products, p)[n].ean = GivenTo(products, p, n)
    <2> DEFINE variants == products[p].variants
               made(n) == IF <<p, n>> \in Lacking(products) THEN [variants[n] EXCEPT !.ean = GivenTo(products, p, n)]
                          ELSE variants[n]
               all == [n \in DOMAIN variants |-> made(n)]
    <2>1. FilledVariants(products, p) = all
        BY DEF FilledVariants
    <2>2. Len(variants) \in Nat /\ DOMAIN variants = 1 .. Len(variants) /\ \A n \in DOMAIN variants : variants[n] \in VariantRecords
        BY <1>2
    <2>3. \A n \in DOMAIN variants : <<p, n>> \in Lacking(products) =>
              GivenTo(products, p, n) \in STRING /\ variants[n].active
        BY <1>3
    <2> HIDE DEF variants
    <2>4. ASSUME NEW n \in DOMAIN variants
          PROVE  /\ made(n) \in VariantRecords
                 /\ <<p, n>> \in Lacking(products) => made(n).active /\ made(n).ean = GivenTo(products, p, n)
        BY <2>2, <2>3 DEF VariantRecords
    <2>5. all \in [1 .. Len(variants) -> VariantRecords]
        BY <2>2, <2>4
    <2>6. DOMAIN all = DOMAIN variants /\ \A n \in DOMAIN variants : all[n] = made(n)
        OBVIOUS
    <2> HIDE DEF all, made
    <2>7. all \in Seq(VariantRecords)
        BY <2>2, <2>5, SequenceOf
    <2> QED
        BY <2>1, <2>4, <2>6, <2>7 DEF variants
<1>5. ASSUME NEW p \in DOMAIN products
      PROVE  /\ filled[p] \in ProductRecords /\ filled[p].ean = products[p].ean
             /\ filled[p].variants = FilledVariants(products, p)
    <2> DEFINE variants == FilledVariants(products, p)
    <2>1. variants \in Seq(VariantRecords) /\ products[p] \in ProductRecords
        BY <1>2, <1>4
    <2>2. filled[p] = [products[p] EXCEPT !.variants = variants]
        OBVIOUS
    <2> HIDE DEF variants, filled
    <2>3. filled[p] \in ProductRecords /\ filled[p].ean = products[p].ean /\ filled[p].variants = variants
        BY <2>1, <2>2 DEF ProductRecords
    <2> QED
        BY <2>3 DEF variants
<1>6. DOMAIN filled = DOMAIN products
    OBVIOUS
<1>7. filled \in [1 .. Len(products) -> ProductRecords]
    BY <1>2, <1>5
<1> HIDE DEF filled
<1>8. filled \in Seq(ProductRecords)
    BY <1>2, <1>7, SequenceOf
<1> QED
    BY <1>1, <1>4, <1>5, <1>6, <1>8

LEMMA ActiveVariantsAre ==
    ASSUME NEW product \in ProductRecords
    PROVE  /\ ActiveVariants(product) \in Seq(VariantRecords)
           /\ Len(ActiveVariants(product)) \in Nat
           /\ DOMAIN ActiveVariants(product) = 1 .. Len(ActiveVariants(product))
           /\ ActiveVariants(product) = <<>> <=> Len(ActiveVariants(product)) = 0
           /\ \A n \in DOMAIN product.variants : product.variants[n].active
                 => \E i \in DOMAIN ActiveVariants(product) : ActiveVariants(product)[i] = product.variants[n]
<1> DEFINE places == {n \in DOMAIN product.variants : product.variants[n].active}
           variants == product.variants
<1>1. variants \in Seq(VariantRecords)
    BY DEF ProductRecords
<1>2. places \in SUBSET DOMAIN variants
    OBVIOUS
<1>3. ActiveVariants(product) = Picked(variants, places)
    BY DEF ActiveVariants
<1>4. \A n \in DOMAIN variants : variants[n].active => n \in places
    OBVIOUS
<1> DEFINE active == Picked(variants, places)
<1> HIDE DEF variants, places
<1>5. /\ active \in Seq(VariantRecords)
      /\ DOMAIN active = 1 .. Cardinality(places)
      /\ \A n \in places : \E i \in 1 .. Cardinality(places) : active[i] = variants[n]
    BY <1>1, <1>2, PickedIs
<1> HIDE DEF active
<1>6. Len(active) \in Nat /\ DOMAIN active = 1 .. Len(active) /\ (active = <<>> <=> Len(active) = 0)
    BY <1>5, LenProperties, EmptySeq
<1> QED
    BY <1>3, <1>4, <1>5, <1>6 DEF active, variants

\* The payloads of one product.
LEMMA ExpandIs ==
    ASSUME NEW product \in ProductRecords
    PROVE  /\ Len(Expand(product)) \in Nat
           /\ Expand(product) = [n \in 1 .. Len(Expand(product)) |-> Expand(product)[n]]
           /\ ActiveVariants(product) = <<>> => Expand(product) = <<Plain(product)>>
           /\ ActiveVariants(product) # <<>> =>
                 /\ DOMAIN Expand(product) = DOMAIN ActiveVariants(product)
                 /\ \A n \in DOMAIN ActiveVariants(product) :
                       Expand(product)[n] = VariantPayload(product, Plain(product), ActiveVariants(product)[n])
<1> DEFINE variants == ActiveVariants(product)
<1>1. Len(variants) \in Nat /\ DOMAIN variants = 1 .. Len(variants)
    BY ActiveVariantsAre
<1> HIDE DEF variants
<1>2. CASE variants = <<>>
    <2>1. Expand(product) = <<Plain(product)>>
        BY <1>2 DEF Expand, variants
    <2> DEFINE one == <<Plain(product)>>
    <2>2. Len(one) \in Nat /\ one = [n \in 1 .. Len(one) |-> one[n]]
        OBVIOUS
    <2> HIDE DEF one
    <2> QED
        BY <1>2, <2>1, <2>2 DEF one, variants
<1>3. CASE variants # <<>>
    <2> DEFINE plain == Plain(product)
               Goes(g) == g = [n \in DOMAIN variants |-> VariantPayload(product, plain, variants[n])]
               all == [n \in DOMAIN variants |-> VariantPayload(product, plain, variants[n])]
               chosen == CHOOSE g : Goes(g)
    <2>1. Expand(product) = chosen
        BY <1>3 DEF Expand, BaseOf, variants
    <2>2. Goes(all)
        OBVIOUS
    <2>3. Goes(chosen)
        BY <2>2
    <2>4. chosen = all
        BY <2>3
    <2>5. DOMAIN all = DOMAIN variants
          /\ \A n \in DOMAIN variants : all[n] = VariantPayload(product, plain, variants[n])
        OBVIOUS
    <2> DEFINE T == {all[n] : n \in DOMAIN variants}
    <2>6. all \in [1 .. Len(variants) -> T]
        BY <1>1
    <2> HIDE DEF all, chosen, T
    <2>7. Len(all) = Len(variants)
        BY <1>1, <2>6, SequenceOf
    <2>8. all = [n \in 1 .. Len(all) |-> all[n]]
        BY <1>1, <2>6, <2>7
    <2> QED
        BY <1>1, <1>3, <2>1, <2>4, <2>5, <2>7, <2>8 DEF variants
<1> QED
    BY <1>2, <1>3

Offset(products, p) == Len(ExpandAll(SubSeq(products, 1, p - 1)))

\* The payloads of all products are those of each, one after the other.
LEMMA ExpandedAre ==
    ASSUME NEW products \in Seq(ProductRecords)
    PROVE  /\ Len(ExpandAll(products)) \in Nat /\ DOMAIN ExpandAll(products) = 1 .. Len(ExpandAll(products))
           /\ \A p \in DOMAIN products : Offset(products, p) \in Nat
           /\ \A p \in DOMAIN products : \A v \in DOMAIN Expand(products[p]) :
                 /\ Offset(products, p) + v \in DOMAIN ExpandAll(products)
                 /\ ExpandAll(products)[Offset(products, p) + v] = Expand(products[p])[v]
           /\ \A n \in DOMAIN ExpandAll(products) : \E p \in DOMAIN products : \E v \in DOMAIN Expand(products[p]) :
                 n = Offset(products, p) + v
           /\ \A p, q \in DOMAIN products : \A v \in DOMAIN Expand(products[p]) : \A w \in DOMAIN Expand(products[q]) :
                 Offset(products, p) + v = Offset(products, q) + w => p = q /\ v = w
<1> DEFINE parts == [p \in DOMAIN products |-> Expand(products[p])]
           T == UNION {{Expand(products[p])[v] : v \in DOMAIN Expand(products[p])} : p \in DOMAIN products}
           all == FlattenSeq(parts)
<1>1. Len(products) \in Nat /\ DOMAIN products = 1 .. Len(products) /\ \A p \in DOMAIN products : products[p] \in ProductRecords
    BY ProductsAreTyped
<1>2. \A p \in DOMAIN products :
          /\ Len(Expand(products[p])) \in Nat
          /\ Expand(products[p]) = [n \in 1 .. Len(Expand(products[p])) |-> Expand(products[p])[n]]
    BY <1>1, ExpandIs
<1>3. ASSUME NEW p \in DOMAIN products
      PROVE  /\ Expand(products[p]) \in Seq(T) /\ Len(Expand(products[p])) \in Nat
             /\ DOMAIN Expand(products[p]) = 1 .. Len(Expand(products[p]))
    <2> DEFINE part == Expand(products[p])
               size == Len(part)
    <2>1. \A v \in DOMAIN part : part[v] \in T
        OBVIOUS
    <2>2. size \in Nat /\ part = [n \in 1 .. size |-> part[n]]
        BY <1>2
    <2> HIDE DEF T, part
    <2>3. part \in [1 .. size -> T]
        BY <2>1, <2>2
    <2> HIDE DEF size
    <2>4. part \in Seq(T) /\ Len(part) = size /\ DOMAIN part = 1 .. size
        BY <2>2, <2>3, SequenceOf
    <2> QED
        BY <2>2, <2>4 DEF part
<1> HIDE DEF T
<1>4. parts \in Seq(Seq(T)) /\ DOMAIN parts = DOMAIN products /\ Len(parts) = Len(products)
      /\ \A p \in DOMAIN products : parts[p] = Expand(products[p])
    <2> DEFINE S == Seq(T)
    <2>1. parts \in [1 .. Len(products) -> S] /\ \A p \in DOMAIN products : parts[p] = Expand(products[p])
        BY <1>1, <1>3
    <2> HIDE DEF S, parts
    <2>2. parts \in Seq(S) /\ DOMAIN parts = 1 .. Len(products) /\ Len(parts) = Len(products)
        BY <1>1, <2>1, SequenceOf
    <2> QED
        BY <1>1, <2>1, <2>2 DEF S
<1>5. ExpandAll(products) = all
    BY DEF ExpandAll
<1>6. ASSUME NEW p \in DOMAIN products PROVE Offset(products, p) = Before(parts, p)
    <2> DEFINE head == SubSeq(products, 1, p - 1)
               made == [q \in DOMAIN head |-> Expand(head[q])]
               first == SubSeq(parts, 1, p - 1)
    <2>1. p - 1 \in 0 .. Len(products) /\ \A q \in 1 .. p - 1 : q \in DOMAIN products
        BY <1>1
    <2>2. head \in Seq(ProductRecords) /\ Len(head) = p - 1 /\ \A q \in 1 .. p - 1 : head[q] = products[q]
        BY <2>1, SubSeqProperties
    <2>3. first \in Seq(Seq(T)) /\ Len(first) = p - 1 /\ \A q \in 1 .. p - 1 : first[q] = parts[q]
        <3> HIDE DEF parts
        <3> QED
            BY <1>4, <2>1, SubSeqProperties
    <2> HIDE DEF head, first, parts
    <2>4. DOMAIN head = 1 .. p - 1
        BY <2>2, LenProperties
    <2>5. first \in [1 .. p - 1 -> Seq(T)]
        BY <2>3, LenProperties
    <2>6. \A q \in 1 .. p - 1 : made[q] = first[q]
        BY <1>4, <2>1, <2>2, <2>3, <2>4
    <2>7. made = first
        BY <2>4, <2>5, <2>6
    <2>8. ExpandAll(head) = FlattenSeq(made)
        BY DEF ExpandAll
    <2> QED
        BY <2>7, <2>8 DEF Offset, Before, head, first
<1>7. /\ all \in Seq(T)
      /\ \A i \in DOMAIN parts : Before(parts, i) \in Nat
      /\ \A i \in DOMAIN parts : \A m \in DOMAIN parts[i] :
            Before(parts, i) + m \in DOMAIN all /\ all[Before(parts, i) + m] = parts[i][m]
      /\ \A n \in DOMAIN all : \E i \in DOMAIN parts : \E m \in DOMAIN parts[i] : n = Before(parts, i) + m
      /\ \A i, j \in DOMAIN parts : i < j => Before(parts, i) + Len(parts[i]) <= Before(parts, j)
    <2> HIDE DEF parts
    <2> QED
        BY <1>4, FlattenedAt
<1> HIDE DEF parts, all
<1>8. Len(all) \in Nat /\ DOMAIN all = 1 .. Len(all)
    BY <1>7, LenProperties
<1>9. ASSUME NEW p \in DOMAIN products, NEW q \in DOMAIN products,
             NEW v \in DOMAIN Expand(products[p]), NEW w \in DOMAIN Expand(products[q]), p < q
      PROVE  Offset(products, p) + v # Offset(products, q) + w
    <2> DEFINE a == Offset(products, p)
               b == Offset(products, q)
               size == Len(Expand(products[p]))
    <2>1. a \in Nat /\ b \in Nat /\ size \in Nat /\ a + size <= b
        BY <1>3, <1>4, <1>6, <1>7, <1>9
    <2>2. v \in 1 .. size /\ w \in 1 .. Len(Expand(products[q])) /\ Len(Expand(products[q])) \in Nat
        BY <1>3
    <2> HIDE DEF a, b, size
    <2>3. a + v # b + w
        BY <2>1, <2>2
    <2> QED
        BY <2>3 DEF a, b
<1>10. ASSUME NEW p \in DOMAIN products, NEW q \in DOMAIN products,
              NEW v \in DOMAIN Expand(products[p]), NEW w \in DOMAIN Expand(products[q]),
              Offset(products, p) + v = Offset(products, q) + w
       PROVE  p = q /\ v = w
    <2>1. p \in Nat /\ q \in Nat
        BY <1>1
    <2>2. ~(p < q) /\ ~(q < p)
        BY <1>9, <1>10
    <2>3. p = q
        BY <2>1, <2>2
    <2>4. Offset(products, p) \in Nat /\ v \in Nat /\ w \in Nat
        <3>1. v \in 1 .. Len(Expand(products[p])) /\ w \in 1 .. Len(Expand(products[q]))
            BY <1>3
        <3>2. Offset(products, p) \in Nat
            BY <1>4, <1>6, <1>7
        <3> QED
            BY <3>1, <3>2
    <2> DEFINE a == Offset(products, p)
    <2>5. a + v = a + w /\ a \in Nat
        BY <1>10, <2>3, <2>4
    <2> HIDE DEF a
    <2>6. v = w
        BY <2>4, <2>5
    <2> QED
        BY <2>3, <2>6
<1> QED
    BY <1>4, <1>5, <1>6, <1>7, <1>8, <1>10

LEMMA ChosenIs ==
    ASSUME NEW item \in ValueChoices, NEW choice
    PROVE  LET own == {c.value : c \in {x \in ToSet(choice) : x.id = item.id \/ x.name = item.name}}
           IN  Chosen(item, choice).value \in (IF own = {} THEN {item.value} ELSE own)
<1> DEFINE named == {x \in ToSet(choice) : x.id = item.id \/ x.name = item.name}
           own == {c.value : c \in named}
           byId == {c \in ToSet(choice) : c.id = item.id}
           byName == {c \in ToSet(choice) : c.name = item.name}
<1>1. \A new : [item EXCEPT !.value = new].value = new
    BY DEF ValueChoices
<1>2. CASE byId # {}
    <2>1. Chosen(item, choice).value = (CHOOSE c \in byId : TRUE).value
        BY <1>1, <1>2 DEF Chosen
    <2>2. (CHOOSE c \in byId : TRUE) \in named
        BY <1>2
    <2> QED
        BY <2>1, <2>2
<1>3. CASE byId = {} /\ byName # {}
    <2>1. Chosen(item, choice).value = (CHOOSE c \in byName : TRUE).value
        BY <1>1, <1>3 DEF Chosen
    <2>2. (CHOOSE c \in byName : TRUE) \in named
        BY <1>3
    <2> QED
        BY <2>1, <2>2
<1>4. CASE byId = {} /\ byName = {}
    <2>1. Chosen(item, choice) = item
        BY <1>4 DEF Chosen
    <2>2. named = {}
        BY <1>4
    <2> QED
        BY <2>1, <2>2
<1> QED
    BY <1>2, <1>3, <1>4

LEMMA ExternalAre ==
    ASSUME NEW media \in Seq(Links)
    PROVE  ToSet(External(media)) \subseteq ToSet(media)
<1> DEFINE places == {n \in DOMAIN media :
                        media[n].kind = "absolute" \/ (media[n].kind = "rooted" /\ May("base"))}
<1>1. External(media) = Picked(media, places) /\ places \in SUBSET DOMAIN media
    BY DEF External
<1> HIDE DEF places
<1>2. /\ DOMAIN Picked(media, places) = 1 .. Cardinality(places)
      /\ \A i \in 1 .. Cardinality(places) :
            Nth(places, i) \in places /\ Picked(media, places)[i] = media[Nth(places, i)]
    BY <1>1, PickedIs
<1> QED
    BY <1>1, <1>2 DEF ToSet

OwnPayload(product, v, made) ==
    /\ made.reference = product.reference
    /\ made.price \in {v.price, product.price}
    /\ made.price = NoValue => product.price = NoValue
    /\ \A n \in DOMAIN product.values :
          LET own == {c.value : c \in {x \in ToSet(v.choice) :
                        x.id = product.values[n].id \/ x.name = product.values[n].name}}
          IN  made.values[n].value \in (IF own = {} THEN {product.values[n].value} ELSE own)
    /\ \A link \in ToSet(made.media) : link \in ToSet(v.media) \cup ToSet(product.media)

\* The payload of a variant is made of its own and its product's.
LEMMA PayloadIsOwn ==
    ASSUME NEW product \in ProductRecords, NEW v \in VariantRecords
    PROVE  /\ OwnPayload(product, v, VariantPayload(product, Plain(product), v))
           /\ VariantPayload(product, Plain(product), v).ean = IF v.ean # NoValue THEN v.ean ELSE product.ean
<1> DEFINE base == Plain(product)
           media == External(v.media)
           values == [n \in DOMAIN base.values |-> Chosen(base.values[n], v.choice)]
           links == IF media # <<>> THEN media
                    ELSE IF External(product.media) # <<>> THEN External(product.media) ELSE base.media
           price == IF v.price # NoValue THEN v.price ELSE base.price
           ean == IF v.ean # NoValue THEN v.ean ELSE base.ean
           made == [reference |-> product.reference, ean |-> ean, price |-> price, values |-> values, media |-> links]
<1>1. VariantPayload(product, Plain(product), v) = made
    BY DEF VariantPayload
<1>2. base.values = product.values /\ base.media = product.media /\ base.price = product.price /\ base.ean = product.ean
    BY DEF Plain
<1>3. product.values \in Seq(ValueChoices) /\ product.media \in Seq(Links) /\ v.media \in Seq(Links)
    BY DEF ProductRecords, VariantRecords
<1>4. \A n \in DOMAIN product.values : product.values[n] \in ValueChoices
    BY <1>3, LenProperties
<1> HIDE DEF base
<1>5. ASSUME NEW n \in DOMAIN product.values
      PROVE  LET own == {c.value : c \in {x \in ToSet(v.choice) :
                            x.id = product.values[n].id \/ x.name = product.values[n].name}}
             IN  values[n].value \in (IF own = {} THEN {product.values[n].value} ELSE own)
    <2>1. values[n] = Chosen(product.values[n], v.choice)
        BY <1>2
    <2> HIDE DEF values
    <2> QED
        BY <1>4, <2>1, ChosenIs
<1>6. ToSet(links) \subseteq ToSet(v.media) \cup ToSet(product.media)
    BY <1>2, <1>3, ExternalAre
<1>7. price \in {v.price, product.price} /\ (price = NoValue => product.price = NoValue)
    BY <1>2
<1>8. ean = IF v.ean # NoValue THEN v.ean ELSE product.ean
    BY <1>2
<1> HIDE DEF values, links, price, ean
<1>9. made.reference = product.reference /\ made.ean = ean /\ made.price = price /\ made.values = values /\ made.media = links
    OBVIOUS
<1> HIDE DEF made
<1>10. OwnPayload(product, v, made)
    BY <1>5, <1>6, <1>7, <1>9 DEF OwnPayload
<1> QED
    BY <1>1, <1>8, <1>9, <1>10

LEMMA ProductsOfExport ==
    ASSUME ExportInv, export.at \in {"validate", "conflicts", "ended"}
    PROVE  /\ Exports[export.of] \in Seq(ProductRecords) /\ export.products \in Seq(ProductRecords)
           /\ export.products = Filled(Exports[export.of])
           /\ Cardinality(Lacking(Exports[export.of])) = export.reserved /\ export.reserved <= Len(PoolEans)
BY ExportsAre, FilledAre DEF ExportInv

LEMMA OwnAreTheirs == ExportInv => VariantsAreTheirOwn
<1> SUFFICES ASSUME ExportInv, export.at = "ended", NEW p \in DOMAIN export.products,
                    NEW v \in DOMAIN ActiveVariants(export.products[p])
             PROVE  OwnPayload(export.products[p], ActiveVariants(export.products[p])[v],
                        export.payloads[Len(ExpandAll(SubSeq(export.products, 1, p - 1))) + v])
    BY DEF VariantsAreTheirOwn, OwnPayload
<1> DEFINE products == export.products
           product == products[p]
           variants == ActiveVariants(product)
<1>1. products \in Seq(ProductRecords) /\ export.payloads = ExpandAll(products)
    BY ProductsOfExport DEF ExportInv
<1>2. product \in ProductRecords
    BY <1>1, ProductsAreTyped
<1>3. /\ Len(variants) \in Nat /\ DOMAIN variants = 1 .. Len(variants) /\ variants \in Seq(VariantRecords)
      /\ variants = <<>> <=> Len(variants) = 0
    BY <1>2, ActiveVariantsAre
<1>4. variants # <<>> /\ variants[v] \in VariantRecords
    BY <1>3, LenProperties
<1>5. v \in DOMAIN Expand(product) /\ Expand(product)[v] = VariantPayload(product, Plain(product), variants[v])
    BY <1>2, <1>4, ExpandIs
<1>6. ExpandAll(products)[Offset(products, p) + v] = Expand(product)[v]
    BY <1>1, <1>5, ExpandedAre
<1>7. OwnPayload(product, variants[v], VariantPayload(product, Plain(product), variants[v]))
    BY <1>2, <1>4, PayloadIsOwn
<1> QED
    BY <1>1, <1>5, <1>6, <1>7 DEF Offset

LEMMA UniqueAreApart ==
    ASSUME NEW products \in Seq(ProductRecords), UniqueInAll(products)
    PROVE  /\ \A n \in DOMAIN ExpandAll(products) : ExpandAll(products)[n].ean # NoValue
           /\ \A m, n \in DOMAIN ExpandAll(products) :
                 ExpandAll(products)[m].ean = ExpandAll(products)[n].ean => m = n
<1> DEFINE all == ExpandAll(products)
           S == DOMAIN all
           T == EansOf(all)
           f == [n \in S |-> all[n].ean]
<1>1. Len(all) \in Nat /\ S = 1 .. Len(all)
    BY ExpandedAre
<1>2. NoValue \notin T /\ Cardinality(T) = Len(all)
    BY DEF UniqueInAll
<1>3. T = {all[n].ean : n \in S}
    BY DEF EansOf
<1> HIDE DEF all, T
<1>4. IsFiniteSet(S) /\ Cardinality(S) = Len(all)
    BY <1>1, OneTo
<1>5. f \in [S -> T] /\ (\A y \in T : \E n \in S : f[n] = y) /\ \A n \in S : f[n] = all[n].ean
    BY <1>3
<1> HIDE DEF f, S
<1>6. f \in Surjection(S, T)
    BY <1>5 DEF Surjection
<1>7. Cardinality(S) = Cardinality(T)
    BY <1>2, <1>4
<1>8. f \in Injection(S, T)
    BY <1>4, <1>6, <1>7, FS_SurjSameCardinalityImpliesInj
<1>9. \A m, n \in S : f[m] = f[n] => m = n
    BY <1>8 DEF Injection, IsInjective
<1>10. \A m, n \in S : all[m].ean = all[n].ean => m = n
    BY <1>5, <1>9
<1>11. \A n \in S : all[n].ean # NoValue
    BY <1>2, <1>3
<1> QED
    BY <1>10, <1>11 DEF all, S

LEMMA WithVariantsAre ==
    ASSUME NEW products \in Seq(ProductRecords)
    PROVE  /\ WithVariants(products) \in Seq(ProductRecords)
           /\ \A p \in DOMAIN products : ActiveVariants(products[p]) # <<>> =>
                 \E i \in DOMAIN WithVariants(products) : WithVariants(products)[i] = products[p]
                    /\ Nth({q \in DOMAIN products : ActiveVariants(products[q]) # <<>>}, i) = p
<1> DEFINE places == {q \in DOMAIN products : ActiveVariants(products[q]) # <<>>}
           picked == Picked(products, places)
<1>1. WithVariants(products) = picked /\ places \in SUBSET DOMAIN products
    BY DEF WithVariants
<1>2. \A p \in DOMAIN products : ActiveVariants(products[p]) # <<>> => p \in places
    OBVIOUS
<1> HIDE DEF places, picked
<1>3. /\ picked \in Seq(ProductRecords) /\ DOMAIN picked = 1 .. Cardinality(places)
      /\ \A i \in 1 .. Cardinality(places) :
            Nth(places, i) \in places /\ picked[i] = products[Nth(places, i)]
    BY <1>1, PickedIs DEF picked
<1>4. \A p \in places : \E i \in 1 .. Cardinality(places) : Nth(places, i) = p
    BY <1>1, PickedPlaces
<1>5. ASSUME NEW p \in DOMAIN products, ActiveVariants(products[p]) # <<>>
      PROVE  \E i \in DOMAIN picked : picked[i] = products[p] /\ Nth(places, i) = p
    <2>1. PICK i \in 1 .. Cardinality(places) : Nth(places, i) = p
        BY <1>2, <1>4, <1>5
    <2> QED
        BY <1>3, <2>1
<1> QED
    BY <1>1, <1>3, <1>5 DEF places

\* An EAN of the pool that was reserved is on one payload, if no product has it by itself.
LEMMA ReservedIsUsedOnce ==
    ASSUME ExportInv, export.at = "ended", NEW k \in 1 .. export.reserved,
           \A p \in DOMAIN export.products : export.products[p].ean # PoolEans[k]
    PROVE  Cardinality({n \in DOMAIN export.payloads : export.payloads[n].ean = PoolEans[k]}) = 1
<1> DEFINE original == Exports[export.of]
           products == export.products
           ean == PoolEans[k]
           all == ExpandAll(products)
           shown == WithVariants(products)
           picked == ExpandAll(shown)
           places == {q \in DOMAIN products : ActiveVariants(products[q]) # <<>>}
<1>1. /\ original \in Seq(ProductRecords) /\ products \in Seq(ProductRecords) /\ products = Filled(original)
      /\ Cardinality(Lacking(original)) = export.reserved /\ export.reserved <= Len(PoolEans)
    BY ProductsOfExport
<1>2. export.payloads = all /\ UniqueInAll(shown)
    BY DEF ExportInv
<1>3. ean # NoValue
    <2>1. PoolEans \in Seq(STRING \ {NoValue})
        BY ExportsAre
    <2>2. Len(PoolEans) \in Nat /\ \A i \in 1 .. Len(PoolEans) : PoolEans[i] # NoValue
        BY <2>1, LenProperties
    <2>3. export.reserved \in Nat
        BY <1>1, LackingAre, FS_CardinalityType
    <2>4. k \in 1 .. Len(PoolEans)
        BY <1>1, <2>2, <2>3
    <2> QED
        BY <2>2, <2>4
<1>4. \A p \in DOMAIN products : products[p] \in ProductRecords /\ products[p].ean # ean
    BY <1>1, ProductsAreTyped
<1>5. /\ \A p \in DOMAIN products : \A v \in DOMAIN Expand(products[p]) :
            /\ Offset(products, p) + v \in DOMAIN all
            /\ all[Offset(products, p) + v] = Expand(products[p])[v]
      /\ \A n \in DOMAIN all : \E p \in DOMAIN products : \E v \in DOMAIN Expand(products[p]) :
            n = Offset(products, p) + v
    BY <1>1, ExpandedAre
<1>6. \E n \in DOMAIN all : all[n].ean = ean
    <2>1. PICK place \in Lacking(original) :
              Cardinality(LackingBefore(original, place[1], place[2])) + 1 = k
        BY <1>1, PlacesAreRanked
    <2>2. PICK p \in DOMAIN original : \E n \in DOMAIN original[p].variants : place = <<p, n>>
        BY <1>1, LackingAre
    <2>3. PICK n \in DOMAIN original[p].variants : place = <<p, n>>
        BY <2>2
    <2>4. <<p, n>> \in Lacking(original) /\ GivenTo(original, p, n) = ean
        BY <2>1, <2>3 DEF GivenTo
    <2> DEFINE product == products[p]
               variants == ActiveVariants(product)
    <2>5. /\ p \in DOMAIN products /\ n \in DOMAIN product.variants
          /\ product.variants[n].active /\ product.variants[n].ean = ean
        BY <1>1, <2>4, FilledAre
    <2>6. product \in ProductRecords
        BY <1>4, <2>5
    <2>7. PICK i \in DOMAIN variants : variants[i] = product.variants[n]
        BY <2>5, <2>6, ActiveVariantsAre
    <2>8. variants \in Seq(VariantRecords) /\ variants # <<>>
        BY <2>6, <2>7, ActiveVariantsAre
    <2>9. variants[i] \in VariantRecords
        BY <2>7, <2>8, LenProperties
    <2>10. i \in DOMAIN Expand(product) /\ Expand(product)[i] = VariantPayload(product, Plain(product), variants[i])
        BY <2>6, <2>7, <2>8, ExpandIs
    <2>11. Expand(product)[i].ean = ean
        BY <1>3, <2>5, <2>6, <2>7, <2>9, <2>10, PayloadIsOwn
    <2> QED
        BY <1>5, <2>5, <2>10, <2>11
<1>7. ASSUME NEW p \in DOMAIN products, NEW v \in DOMAIN Expand(products[p]), Expand(products[p])[v].ean = ean
      PROVE  ActiveVariants(products[p]) # <<>>
    <2> SUFFICES ASSUME ActiveVariants(products[p]) = <<>> PROVE FALSE
        OBVIOUS
    <2>1. Expand(products[p]) = <<Plain(products[p])>>
        BY <1>4, ExpandIs
    <2>2. Expand(products[p])[v] = Plain(products[p])
        BY <2>1
    <2> QED
        BY <1>4, <1>7, <2>2 DEF Plain
<1>8. /\ shown \in Seq(ProductRecords)
      /\ \A p \in DOMAIN products : ActiveVariants(products[p]) # <<>> =>
            \E i \in DOMAIN shown : shown[i] = products[p] /\ Nth(places, i) = p
    BY <1>1, WithVariantsAre
<1>9. \A m, n \in DOMAIN picked : picked[m].ean = picked[n].ean => m = n
    BY <1>2, <1>8, UniqueAreApart
<1>10. /\ \A p \in DOMAIN shown : \A v \in DOMAIN Expand(shown[p]) :
             /\ Offset(shown, p) + v \in DOMAIN picked
             /\ picked[Offset(shown, p) + v] = Expand(shown[p])[v]
       /\ \A p, q \in DOMAIN shown : \A v \in DOMAIN Expand(shown[p]) : \A w \in DOMAIN Expand(shown[q]) :
             Offset(shown, p) + v = Offset(shown, q) + w => p = q /\ v = w
    BY <1>8, ExpandedAre
<1> HIDE DEF original, products, ean, all, shown, picked, places
<1>11. ASSUME NEW m \in DOMAIN all, NEW n \in DOMAIN all, all[m].ean = ean, all[n].ean = ean
       PROVE  m = n
    <2>1. PICK p \in DOMAIN products : \E v \in DOMAIN Expand(products[p]) : m = Offset(products, p) + v
        BY <1>5
    <2>2. PICK v \in DOMAIN Expand(products[p]) : m = Offset(products, p) + v
        BY <2>1
    <2>3. PICK q \in DOMAIN products : \E w \in DOMAIN Expand(products[q]) : n = Offset(products, q) + w
        BY <1>5
    <2>4. PICK w \in DOMAIN Expand(products[q]) : n = Offset(products, q) + w
        BY <2>3
    <2>5. Expand(products[p])[v].ean = ean /\ Expand(products[q])[w].ean = ean
        BY <1>5, <1>11, <2>2, <2>4
    <2>6. PICK i \in DOMAIN shown : shown[i] = products[p] /\ Nth(places, i) = p
        BY <1>7, <1>8, <2>5
    <2>7. PICK j \in DOMAIN shown : shown[j] = products[q] /\ Nth(places, j) = q
        BY <1>7, <1>8, <2>5
    <2>8. /\ Offset(shown, i) + v \in DOMAIN picked /\ picked[Offset(shown, i) + v].ean = ean
          /\ Offset(shown, j) + w \in DOMAIN picked /\ picked[Offset(shown, j) + w].ean = ean
        BY <1>10, <2>5, <2>6, <2>7
    <2>9. Offset(shown, i) + v = Offset(shown, j) + w
        BY <1>9, <2>8
    <2>10. i = j /\ v = w
        BY <1>10, <2>6, <2>7, <2>9
    <2> QED
        BY <2>2, <2>4, <2>6, <2>7, <2>10
<1>12. PICK n \in DOMAIN all : all[n].ean = ean
    BY <1>6
<1>13. {m \in DOMAIN all : all[m].ean = ean} = {n}
    BY <1>11, <1>12
<1> QED
    BY <1>2, <1>13, FS_Singleton DEF ean

LEMMA AllAreUnique == ExportInv => ExportedAreUnique
<1> SUFFICES ASSUME ExportInv, export.at = "ended" PROVE ExportedAreUnique
    BY DEF ExportedAreUnique
<1> DEFINE shown == WithVariants(export.products)
           payloads == ExpandAll(shown)
<1>1. UniqueInAll(shown) /\ (export.skipped \/ EansOf(payloads) \cap StoredEans = {})
    BY DEF ExportInv
<1>2. shown \in Seq(ProductRecords)
    BY ProductsOfExport, WithVariantsAre
<1>3. /\ \A n \in DOMAIN payloads : payloads[n].ean # NoValue
      /\ \A m, n \in DOMAIN payloads : payloads[m].ean = payloads[n].ean => m = n
    BY <1>1, <1>2, UniqueAreApart
<1>4. \A n \in DOMAIN payloads : payloads[n].ean \in StoredEans => export.skipped
    BY <1>1 DEF EansOf
<1> HIDE DEF payloads
<1>5. \A n \in DOMAIN payloads :
          /\ payloads[n].ean # NoValue
          /\ payloads[n].ean \in StoredEans => export.skipped
          /\ \A m \in DOMAIN payloads : payloads[m].ean = payloads[n].ean => m = n
    BY <1>3, <1>4
<1> QED
    BY <1>5, ReservedIsUsedOnce DEF ExportedAreUnique, payloads

-----------------------------------------------------------------------------
(* Variations: all of it.                                                  *)

VariationInv == MatrixInv /\ ExportInv

LEMMA VariationInvKept ==
    ASSUME VariationInv, [VariationNext]_<<scene, variationVars>>
    PROVE  VariationInv'
<1>1. VariationShape /\ VariationShape'
    BY VariationKept DEF VariationInv, MatrixInv
<1>2. ExportInv'
    BY <1>1, ExportKept DEF VariationInv
<1>3. MatrixInv'
    <2>1. CASE PreviewVariants \/ GenerateMatrix \/ EditAttributes
        BY <1>1, <2>1, PreviewKept, GenerateKept, EditKept DEF VariationInv
    <2>2. CASE \E n \in DOMAIN matrix : DeleteRow(n)
        BY <1>1, <2>2, DeleteRowKept DEF VariationInv
    <2>3. CASE \E u \in DOMAIN Updates : CheckIdentifier(u) \/ CommitIdentifier(u)
        BY <1>1, <2>3, CheckKept, CommitKept DEF VariationInv
    <2>4. CASE UNCHANGED <<version, matrix, previewed, updateAt, outcome>>
        <3>1. CheckedInv'
            BY <2>4 DEF VariationInv, MatrixInv, CheckedInv
        <3> QED
            BY <1>1, <2>4, <3>1, RestKept DEF VariationInv
    <2>5. ExportStep => UNCHANGED <<version, matrix, previewed, updateAt, outcome>>
        BY DEF ExportStep, FillEans, ValidateVariants, ExportGoes, FindConflicts
    <2> QED
        BY <2>1, <2>2, <2>3, <2>4, <2>5 DEF VariationNext, MatrixStep, variationVars
<1> QED
    BY <1>2, <1>3 DEF VariationInv

LEMMA VariationHolds == VariationSafety => []VariationInv
<1>1. VariationInit => VariationInv
    BY MatrixStarts, ExportStarts DEF VariationInv
<1> QED
    BY <1>1, VariationInvKept, PTL DEF VariationSafety

LEMMA VariationIsRight == VariationSafety => VariantsAreRight
<1>1. VariationInv => MatrixIsComplete /\ IdentifiersApart /\ VariantsAreTheirOwn /\ ExportedAreUnique
    BY AllHaveRows, OwnAreTheirs, AllAreUnique DEF VariationInv, MatrixInv
<1>2. VariationInv /\ [VariationNext]_<<scene, variationVars>>
          => [outcome.at = "ready" /\ outcome'.at = "generated" /\ ~previewed.stale
                 => outcome'.created = previewed.new]_variationVars
    BY PreviewHolds DEF VariationInv
<1> QED
    BY <1>1, <1>2, VariationHolds, PTL DEF VariationSafety, VariantsAreRight, PreviewIsTrue

-----------------------------------------------------------------------------
(* The run: a component whose turn it is not rests.                        *)

LEMMA ScenesHaveAWay == scene \in MCScenes => (Plays("instructions") => OneWay)
<1> SUFFICES ASSUME scene \in MCScenes, scene.part = "instructions"
             PROVE  \E way \in {"links", "total", "size"} : way \in scene.events
    BY InstructionAssumption DEF Plays, OneWay, May
<1>1. scene.events \in {{"links", "edits", "no_id"}, {"total", "edits", "busy"}, {"size", "edits"},
                        {"size", "rejects", "raises"}, {"links", "rejects"}, {"total", "rejects"},
                        {"size", "limited", "no_poll"}, {"links", "limited", "raises"},
                        {"size", "dry_run"}, {"links", "drops", "rejects"},
                        {"total", "leaves_out", "rejects"}}
    BY DEF MCScenes, ScenesOf
<1> QED
    BY <1>1

LEMMA DataSteps ==
    ASSUME DataNext
    PROVE  /\ [BatchNext]_<<scene, batchVars>>
           /\ [InstrNext]_<<scene, instrVars>>
           /\ [ProductNext]_<<scene, productVars>>
           /\ [CloneNext]_<<scene, cloneVars>>
           /\ [VariationNext]_<<scene, variationVars>>
<1>1. CASE CloneNext /\ UNCHANGED <<variationVars, productVars, batchVars, instrVars>>
    <2>1. UNCHANGED scene
        BY <1>1 DEF CloneNext, SheetNext, ImportStep, ReplaceRows, KeepRows, UpsertSheetRows, ImportKilled,
                    EnrichStep, BeginEnrichment, FetchNames, ApiIsBusy,
                    RebuildStep, DeleteMappings, ReadTargets, ReadSources, UpsertMappings, RebuildKilled,
                    CopyStep, ReadSheet, UpsertProducts
    <2> QED
        BY <1>1, <2>1
<1>2. CASE VariationNext /\ UNCHANGED <<cloneVars, productVars, batchVars, instrVars>>
    BY <1>2 DEF VariationNext
<1>3. CASE ProductNext /\ UNCHANGED <<cloneVars, variationVars, batchVars, instrVars>>
    BY <1>3 DEF ProductNext
<1>4. CASE BatchNext /\ UNCHANGED <<cloneVars, variationVars, productVars, instrVars>>
    <2>1. UNCHANGED scene
        BY <1>4 DEF BatchNext, BatchStep, SendBatch, PollTask, FetchResults, SumUp, BatchRaises, OttoDecides,
                    OttoDropsTask
    <2> QED
        BY <1>4, <2>1
<1>5. CASE InstrNext /\ UNCHANGED <<cloneVars, variationVars, productVars, batchVars>>
    BY <1>5 DEF InstrNext
<1> QED
    BY <1>1, <1>2, <1>3, <1>4, <1>5 DEF DataNext

\* What is reported of the products sent to OTTO is so at OTTO: successes, rejections,
\* languages.
THEOREM ReportsTheorem == DataSpec => []ReportsAreTrue
<1>1. DataSpec => BatchSafety /\ (Plays("instructions") => OneWay) /\ InstrSafety
    <2>1. DataInit => BatchInit /\ InstrInit /\ (Plays("instructions") => OneWay)
        BY ScenesHaveAWay DEF DataInit
    <2>2. [DataNext]_dataVars => [BatchNext]_<<scene, batchVars>> /\ [InstrNext]_<<scene, instrVars>>
        BY DataSteps DEF dataVars
    <2> QED
        BY <2>1, <2>2, PTL DEF DataSpec, BatchSafety, InstrSafety
<1>2. BatchInv /\ InstrInv => ReportsAreTrue
    BY BatchIsTrue, InstrIsTrue DEF ReportsAreTrue
<1> QED
    BY <1>1, <1>2, BatchHolds, InstrHolds, PTL

\* The preparation loses no product, keeps their order and shows its progress; the content
\* of a product changes as a whole; and once it has failed nothing is added to the task.
THEOREM PreparationTheorem == DataSpec => PreparationIsWhole
<1>1. DataSpec => ProductSafety
    <2>1. DataInit => ProductInit
        BY DEF DataInit
    <2>2. [DataNext]_dataVars => [ProductNext]_<<scene, productVars>>
        BY DataSteps DEF dataVars
    <2> QED
        BY <2>1, <2>2, PTL DEF DataSpec, ProductSafety
<1>2. ProductInv => EachIsPreparedOrNoted /\ PayloadInSourceOrder /\ ProgressReachesTotal
                    /\ ContentIsWhole /\ ColoursAreAllowed
    BY ProductIsTrue
<1>3. ProductInv /\ [ProductNext]_<<scene, productVars>> =>
          [mapAt = "raised" /\ ~May("malformed") => published' = published]_productVars
    BY NoneAfterFailure
<1>4. ProductSafety => NothingAfterFailure
    BY <1>3, ProductHolds, PTL DEF ProductSafety, NothingAfterFailure
<1> QED
    BY <1>1, <1>2, <1>4, ProductHolds, PTL DEF PreparationIsWhole

\* Every combination of a product's values has one row and as many are made as the preview
\* has promised; no two active rows have one EAN, and none that of another product; and of
\* a submission each active variant has a payload of its own, with an EAN of its own.
THEOREM VariantsTheorem == DataSpec => VariantsAreRight
<1>1. DataInit => VariationInit
    BY DEF DataInit
<1>2. [DataNext]_dataVars => [VariationNext]_<<scene, variationVars>>
    BY DataSteps DEF dataVars
<1> QED
    BY <1>1, <1>2, VariationIsRight, PTL DEF DataSpec, VariationSafety

LEMMA DataClones == DataSpec => CloneSafety
<1>1. DataInit => SheetInit /\ CloneInit
    BY DEF DataInit
<1>2. [DataNext]_dataVars => [CloneNext]_<<scene, cloneVars>>
    BY DataSteps DEF dataVars
<1> QED
    BY <1>1, <1>2, PTL DEF DataSpec, CloneSafety

\* A submission to both accounts: each clone has the EAN of the row that is nearest by
\* name, or at its place, or its own, and a profile of its name; or nothing is written.
THEOREM ClonesTheorem == DataSpec => []ClonesAreRight
<1>1. CloneInv => ClonesAreRight
    BY ClonesAreTrue, BothAreWritten DEF ClonesAreRight
<1> QED
    BY <1>1, DataClones, CloneSafe, PTL

\* The sheets: a row is matched with the one that is nearest, or with none; a mapping that
\* one rebuild has made is whole; an enrichment has read every page and has written over
\* no name; a copy has taken the last row of each SKU and no image.
THEOREM SheetsTheorem == DataSpec => SheetsAreTrue
<1>1. SheetsInv => MatchedIsTheNearest /\ MappingIsWhole /\ PagesAreRead /\ LastRowCounts
    BY SheetsSafe DEF SheetSafety
<1>2. SheetsInv /\ [CloneNext]_<<scene, cloneVars>> =>
          [\A row \in importRows, new \in importRows' :
                row.id = new.id /\ row.name # Absent /\ new.name # row.name
                  => \E i \in DOMAIN ImportRuns : sheetAt'[i].next # sheetAt[i].next]_sheetVars
    BY NamesStay, SheetMoves
<1>3. SheetsInv /\ [CloneNext]_<<scene, cloneVars>> =>
          [\A sku \in DOMAIN catalogue :
                catalogue[sku].media # Absent => catalogue'[sku].media # Absent]_sheetVars
    BY ImagesStay, SheetMoves
<1>4. CloneSafety => NamesAreKept
    BY <1>2, CloneSafe, PTL DEF CloneSafety, NamesAreKept
<1>5. CloneSafety => CopyKeepsImages
    BY <1>3, CloneSafe, PTL DEF CloneSafety, CopyKeepsImages
<1> QED
    BY <1>1, <1>4, <1>5, DataClones, CloneSafe, PTL DEF SheetsAreTrue

\* Every component keeps to its places, whatever happens: a submission writes nothing before
\* it ends, a mapping refers to rows that are there, a queue holds no edit not yet made.
THEOREM DataTypeTheorem == DataSpec => []DataTypeOK
<1>1. DataSpec => BatchSafety /\ (Plays("instructions") => OneWay) /\ InstrSafety /\ ProductSafety
                  /\ VariationSafety
    <2>1. DataInit => BatchInit /\ InstrInit /\ (Plays("instructions") => OneWay) /\ ProductInit /\ VariationInit
        BY ScenesHaveAWay DEF DataInit
    <2>2. [DataNext]_dataVars => /\ [BatchNext]_<<scene, batchVars>> /\ [InstrNext]_<<scene, instrVars>>
                                 /\ [ProductNext]_<<scene, productVars>>
                                 /\ [VariationNext]_<<scene, variationVars>>
        BY DataSteps DEF dataVars
    <2> QED
        BY <2>1, <2>2, PTL DEF DataSpec, BatchSafety, InstrSafety, ProductSafety, VariationSafety
<1>2. SheetsInv => SheetTypeOK
    BY SheetsTyped
<1>3. CloneInv => CloneTypeOK
    BY DEF CloneInv, CloneTypeOK
<1>4. VariationInv => VariationTypeOK
    BY DEF VariationInv, MatrixInv, VariationShape, VariationTypeOK, ExportPlaces
<1>5. ProductInv => ProductTypeOK
    BY ProductIsTrue
<1>6. BatchInv => BatchTypeOK
    BY BatchIsTrue
<1>7. InstrInv => InstrTypeOK
    BY InstrIsTrue
<1>8. SheetsInv /\ CloneInv /\ VariationInv /\ ProductInv /\ BatchInv /\ InstrInv => DataTypeOK
    BY <1>2, <1>3, <1>4, <1>5, <1>6, <1>7 DEF DataTypeOK
<1> QED
    BY <1>1, <1>8, DataClones, CloneSafe, VariationHolds, ProductHolds, BatchHolds, InstrHolds, PTL
=============================================================================

--------------------------- MODULE MCCatalogueData ---------------------------
(* The sheets and what is made of them, and the products on their way to   *)
(* OTTO, each in its own scenes.                                           *)
EXTENDS Counterpart, Variations, ProductMapping, OttoBatches, InstructionUpdate, TLC

No == "none"

MCLine(s, e, c, n, p, r) == [sku |-> s, ean |-> e, category |-> c, name |-> n, price |-> p, removed |-> r]
MCSheets ==
    ("jv" :> << <<MCLine("s1", "e1", "sofa", "abc", 1, FALSE), MCLine("s1", No, "sofa", No, 2, FALSE),
                  MCLine("s2", "e2", "bed", "ab", 3, FALSE), MCLine(No, "e2", "bed", "cd", 4, FALSE),
                  MCLine("s3", "e3", "bed", "x", 5, TRUE), MCLine("s4", "e4", "sofa", No, 6, FALSE),
                  MCLine("s5", "e5", "sofa", "dab", 7, FALSE)>>,
                <<MCLine("s1", "e1", "sofa", "ab", 8, FALSE), MCLine("s4", "e4", "bed", "cd", 9, FALSE),
                  MCLine("s4", "e6", "bed", "x", 8, FALSE)>> >>)
    @@ ("xl" :> << <<MCLine("t1", "f1", "sofa", "abc", 1, FALSE), MCLine("t2", "f2", "bed", "abc", 1, FALSE),
                     MCLine("t3", "f3", "bed", "ad", 1, FALSE), MCLine("t4", No, "bed", "bd", 1, FALSE),
                     MCLine("t5", "f5", "sofa", "abd", 1, FALSE)>>,
                   <<MCLine("t1", "f1", "sofa", "abd", 1, FALSE), MCLine("t6", "f6", "bed", "cd", 1, FALSE),
                     MCLine("t7", "f7", "bed", "cd", 1, FALSE)>> >>)
MCTokens == ("abc" :> {"a", "b", "c"}) @@ ("ab" :> {"a", "b"}) @@ ("cd" :> {"c", "d"}) @@ ("x" :> {})
            @@ ("ad" :> {"a", "d"}) @@ ("bd" :> {"b", "d"}) @@ ("abd" :> {"a", "b", "d"})
            @@ ("dab" :> {"a", "b", "d"})
MCImportRuns == ("jv_new" :> [account |-> "jv", version |-> 2, replace |-> TRUE])
                @@ ("jv_again" :> [account |-> "jv", version |-> 2, replace |-> FALSE])
                @@ ("xl_new" :> [account |-> "xl", version |-> 2, replace |-> TRUE])
MCApiPages == << <<[ids |-> {"s1"}, name |-> "cd"], [ids |-> {"s9"}, name |-> No]>>,
                 <<[ids |-> {"s4", "e4"}, name |-> "ab"], [ids |-> {"e4"}, name |-> "cd"]>> >>
MCRebuilds == ("e1" :> "ean") @@ ("e2" :> "ean") @@ ("n1" :> "name")

MCProduct(e, n, c, p, pn) == [ean |-> e, name |-> n, category |-> c, profile |-> p, profileName |-> pn]
MCSubmission(dual, factory, products, sources) ==
    [dual |-> dual, factory |-> factory, products |-> products, sources |-> sources]
MCSubmissions ==
    ("full" :> MCSubmission(TRUE, 1, <<MCProduct("e1", "abc", "sofa", "p1", "fast"),
                                       MCProduct("e2", "x", "bed", "p2", "slow"),
                                       MCProduct("e3", "cd", "bed", "p9", "slow")>>, <<"e9", "e2">>))
    @@ ("tied" :> MCSubmission(TRUE, 1, <<MCProduct("e4", "ad", No, "p1", No),
                                          MCProduct("e5", "cd", "sofa", "p2", "fast")>>, <<"e4", "e5">>))
    @@ ("lone" :> MCSubmission(TRUE, 4, <<MCProduct("e6", "abd", "sofa", "p1", No)>>, <<>>))
    @@ ("noprofile" :> MCSubmission(TRUE, 4, <<MCProduct("e6", "abd", "sofa", "p1", No),
                                               MCProduct("e7", "abc", "sofa", "p7", "odd")>>, <<>>))
    @@ ("single" :> MCSubmission(FALSE, 2, <<MCProduct("e6", "abd", "sofa", "p7", "odd")>>, <<>>))
MCFactory(n, a, c) == [name |-> n, account |-> a, count |-> c]
MCFactoryTable == (1 :> MCFactory("nord", "jv", 3)) @@ (2 :> MCFactory("nord", "xl", 3))
                  @@ (3 :> MCFactory("nord", "xl", 3)) @@ (4 :> MCFactory("sued", "jv", 1))
MCFactoryItems == (2 :> <<"g1", "g2", No, "g4">>) @@ (3 :> <<"h1">>)
MCProfile(i, n) == [id |-> i, name |-> n]
MCProfiles == ("jv" :> <<MCProfile("p1", "slow"), MCProfile("p2", "fast")>>)
              @@ ("xl" :> <<MCProfile("x1", "fast"), MCProfile("x2", "slow"), MCProfile("x3", "fast")>>)

MCNormal == [v \in {"Red", "red", "blue", "oak", "Oak ", "elm"} |->
                IF v = "Red" THEN "red" ELSE IF v = "Oak " THEN "oak" ELSE v]
MCAttribute(n, v) == [name |-> n, values |-> v]
MCAttributeRows ==
    << <<MCAttribute("color", <<"Red", "red", "blue">>), MCAttribute("color", <<"red">>), MCAttribute("height", <<"oak">>)>>,
       <<MCAttribute("color", <<"red">>), MCAttribute("material", <<"oak", "elm">>)>>,
       <<MCAttribute("color", <<"blue">>), MCAttribute("material", <<"Oak ", "oak", "elm">>)>> >>
MCThemes == <<"color", "material">>
MCOwn == [ean |-> "e0"]
MCPool == <<"q1", "q2">>
MCUpdates == ("u1" :> [row |-> 2, ean |-> "e7"]) @@ ("u2" :> [row |-> 3, ean |-> "e7"])
             @@ ("u3" :> [row |-> 2, ean |-> "taken"]) @@ ("u4" :> [row |-> 1, ean |-> No])
MCValue(i, n, v) == [id |-> i, name |-> n, value |-> v]
MCVariant(a, e, p, c, m) == [active |-> a, ean |-> e, price |-> p, choice |-> c, media |-> m]
MCBare == MCVariant(TRUE, No, No, <<>>, <<>>)
MCListing(r, e, p, m, va) == [reference |-> r, ean |-> e, price |-> p, media |-> m, variants |-> va,
    values |-> <<MCValue("c", "Color", "Red"), MCValue("m", "Material", "oak"), MCValue("h", "Height", "80")>>]
MCLink(k, n) == [kind |-> k, name |-> n]
MCExports ==
    ("two" :> <<MCListing("r1", "b1", "10", <<MCLink("absolute", "base")>>,
                    <<MCVariant(TRUE, "e1", "12", <<MCValue("c", "Color", "blue")>>, <<MCLink("rooted", "v1")>>),
                      MCVariant(FALSE, No, No, <<>>, <<>>),
                      MCVariant(TRUE, No, No, <<MCValue("x", "Material", "elm")>>, <<MCLink("absolute", "v2")>>),
                      MCBare>>),
                MCListing("r2", "b2", No, <<>>, <<>>)>>)
    @@ ("doubled" :> <<MCListing("r1", "b1", "10", <<>>, <<MCVariant(TRUE, "e1", No, <<>>, <<>>)>>),
                       MCListing("r2", "b2", "10", <<>>, <<MCVariant(TRUE, "e1", No, <<>>, <<>>)>>)>>)
    @@ ("stored" :> <<MCListing("r1", "b1", "10", <<MCLink("local", "x")>>,
                          <<MCVariant(TRUE, "e4", No, <<MCValue("c", "Color", "blue")>>, <<MCLink("local", "y")>>)>>),
                      MCListing("r3", "b3", "10", <<>>, <<MCBare>>)>>)
    @@ ("many" :> <<MCListing("r1", "b1", "10", <<>>, <<MCBare, MCBare, MCBare>>)>>)

MCSourceEans == <<"e1", No, "e3">>
MCOption(n, c, a) == [name |-> n, colour |-> c, allowed |-> a]
MCContents ==
    ("bed" :> [category |-> "bed", farbe |-> <<"red", "blue">>, direct |-> <<MCAttribute("breite", <<"80">>)>>,
               options |-> <<MCOption("breite", FALSE, {}), MCOption("farbe", TRUE, {}),
                             MCOption("farbe gestell", TRUE, {"red", "black"}),
                             MCOption("farbe bezug", TRUE, {"black"}), MCOption("farbe fuss", TRUE, {})>>])
    @@ ("plain" :> [category |-> "bed", farbe |-> <<>>, direct |-> <<MCAttribute("breite", <<"80">>)>>,
                    options |-> <<MCOption("breite", FALSE, {})>>])
    @@ ("none" :> [category |-> No, farbe |-> <<"red">>, direct |-> <<>>, options |-> <<>>])
MCGeneratedAttrs == {<<MCAttribute("farbe", <<"black">>), MCAttribute("farbe fuss", <<"red">>)>>,
                     <<MCAttribute("farbe gestell", <<>>), MCAttribute("stil", <<"x">>)>>}

MCBatchSkus == <<"p1", "p2", "p3">>
MCListings == ("links" :> <<<<"a", "b">>, <<"c">>, <<"d">>>>) @@ ("total" :> <<<<"a", "b">>, <<"c", "d">>>>)
              @@ ("size" :> <<<<"a", "b">>, <<"c", "d">>>>)
MCLanguages == ("a" :> <<"en">>) @@ ("b" :> <<"de", "en">>) @@ ("c" :> <<>>) @@ ("d" :> <<"en">>)

MCScenes ==
    ScenesOf("sheets", {{"jv_new", "e1"}, {"jv_new", "copies"}, {"xl_new", "e1"}, {"jv_again", "enriches", "e1"},
                        {"e1", "e2", "enriches"}, {"n1", "xl_new"}, {"n1", "e1", "kill"},
                        {"jv_again", "enriches", "copies", "kill"}, {"enriches", "busy"}, {"enriches", "links"},
                        {"enriches", "total"}, {"jv_again", "n1", "enriches"}})
    \cup ScenesOf("clones", {{}, {"names_fail"}, {"afterbuy_fails", "names_fail"}, {"profiles_fail"}, {"xl_new"}})
    \cup ScenesOf("matrix", {{"previews", "edits", "u1", "u2"}, {"previews", "deletes", "u3"},
                             {"edits", "deletes", "u1", "u4"}})
    \cup ScenesOf("export", {{}, {"base"}, {"lookup_fails"}})
    \cup ScenesOf("mapping", {{}, {"model_fails", "normalizes_badly"}, {"save_fails", "slow"}, {"malformed"},
                              {"afterbuy_fails", "database_fails"}})
    \cup ScenesOf("content", {{}, {"model_fails", "attributes_fail"}})
    \cup ScenesOf("batches", {{"rejects"}, {"leaves_out", "rejects"}, {"drops", "rejects"}, {"no_id"},
                              {"raises"}, {"leaves_out", "drops"}})
    \cup ScenesOf("instructions", {{"links", "edits", "no_id"}, {"total", "edits", "busy"}, {"size", "edits"},
                                   {"size", "rejects", "raises"}, {"links", "rejects"}, {"total", "rejects"},
                                   {"size", "limited", "no_poll"}, {"links", "limited", "raises"},
                                   {"size", "dry_run"}, {"links", "drops", "rejects"},
                                   {"total", "leaves_out", "rejects"}})

DataInit == scene \in MCScenes /\ SheetInit /\ CloneInit /\ VariationInit /\ ProductInit
            /\ BatchInit /\ InstrInit

DataNext ==
    \/ CloneNext /\ UNCHANGED <<variationVars, productVars, batchVars, instrVars>>
    \/ VariationNext /\ UNCHANGED <<cloneVars, productVars, batchVars, instrVars>>
    \/ ProductNext /\ UNCHANGED <<cloneVars, variationVars, batchVars, instrVars>>
    \/ BatchNext /\ UNCHANGED <<cloneVars, variationVars, productVars, instrVars>>
    \/ InstrNext /\ UNCHANGED <<cloneVars, variationVars, productVars, batchVars>>

\* The state of every component has its type.
DataTypeOK ==
    /\ SheetTypeOK /\ CloneTypeOK /\ VariationTypeOK /\ ProductTypeOK /\ BatchTypeOK /\ InstrTypeOK

\* The sheets: a row is matched with the one that is nearest, a rebuilt mapping has a
\* row for every key, an enrichment reads all pages and overwrites no name, a copy
\* takes the last of several rows and erases no images.
SheetsAreTrue ==
    /\ [](MatchedIsTheNearest /\ MappingIsWhole /\ PagesAreRead /\ LastRowCounts)
    /\ NamesAreKept /\ CopyKeepsImages

\* A submission to both accounts: each clone has its EAN and its shipping profile, or
\* nothing is written for either account.
ClonesAreRight == CloneHasTheRightEan /\ BothAccountsOrNone

\* Variants: every combination has one row, as its preview has promised, with
\* identifiers no other has, and a payload with its own values.
VariantsAreRight ==
    /\ [](MatrixIsComplete /\ IdentifiersApart /\ VariantsAreTheirOwn /\ ExportedAreUnique)
    /\ PreviewIsTrue

\* A preparation loses no product, keeps their order and their count, changes the texts
\* of a product together, and stops when it has failed.
PreparationIsWhole ==
    /\ [](/\ EachIsPreparedOrNoted /\ PayloadInSourceOrder /\ ProgressReachesTotal
          /\ ContentIsWhole /\ ColoursAreAllowed)
    /\ NothingAfterFailure

\* What is reported of the batches sent to OTTO, and of a run over the instruction
\* language, is so at OTTO: successes, rejections, languages; and the run overwrites no
\* edit that it could know of and keeps to its limits.
ReportsAreTrue ==
    /\ FullSuccessIsListed /\ CountsAreOttos
    /\ DoneMeansGerman /\ RejectedAreCounted
    /\ EditLostOnlyIfOvertaken /\ RunKeepsToItsBounds

\* A preparation, a submission of batches and a run over the instructions end.
DataSettles == MappingEnds /\ BatchesEnd /\ InstructionsEnd

dataVars == <<scene, cloneVars, variationVars, productVars, batchVars, instrVars>>

DataSpec ==
    DataInit /\ [][DataNext]_dataVars /\ ProductFairness /\ BatchFairness /\ InstrFairness
=============================================================================

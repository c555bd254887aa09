---------------------------- MODULE MCWorkerJobs ----------------------------
(* The jobs, routes and clients around the core, each in its own scenes.   *)
EXTENDS FactoryAvailability, ImportTasks, DeliveryJobs, TaskRoutes, VariantImages,
        MarketUpdates, CategoryCache, Clients, Mirrors, Accounts, TLC

MCRow(s, e, r, c) == [sku |-> s, ean |-> e, reference |-> r, content |-> c]

MCSkus       == {1, 2, 3}
MCCatalogues == {<<"a", "b", "c">>, <<"a", None, "b", "c", "d">>, <<"a", "a", "b">>,
                 <<"a", "b", "a">>, <<>>}
MCStored     == {<<>>, <<MCRow("s1", "e1", None, 0), MCRow("s5", None, "r1", 0)>>}
MCFiles      == {<<MCRow("s1", "e1", None, 1), MCRow("s2", "e2", None, 1), MCRow("s1", "e1", None, 2),
                   MCRow("s3", None, "r1", 1), MCRow("s2", None, None, 3)>>,
                 <<MCRow("s4", "e4", None, 1), MCRow("s5", None, "r1", 2), MCRow("s6", "e1", None, 1),
                   MCRow("s7", None, None, 1)>>}
MCRequests   == {<<1>>, <<2, 3>>}
MCCombinations == <<"source", "red">>
MCNoPrice    == 0 - 1
MCImported   == ("jv" :> {"p", "q"}) @@ ("xl" :> {"q", "x"})
MCPriceRequests ==
    ("auto2" :> [controller |-> "auto", items |-> <<<<"p", 1>>, <<"x", 2>>, <<"p", 3>>>>])
    @@ ("jv" :> [controller |-> "jv", items |-> <<<<"p", 4>>, <<"q", 4>>>>])
    @@ ("twoaccounts" :> [controller |-> "auto", items |-> <<<<"q", 5>>>>])
    @@ ("clears" :> [controller |-> "auto", items |-> <<<<"p", MCNoPrice>>, <<"x", 6>>>>])
MCIdentifiers == ("e1" :> "a") @@ ("s1" :> "a") @@ ("e2" :> "b") @@ ("zz" :> "none")
MCVersions   == <<<<"g", "h", "i">>, <<"h", "i">>>>
MCCallers    == ("c1" :> "jv") @@ ("c2" :> "jv") @@ ("c3" :> "xl")
MCMediaSkus  == <<"s1", "s2">>
MCImageEans  == <<"e1", "e2", "e3">>
MCFactoryAnswers == {{}, {"f1", "f2"}, {"f2"}}
MCAddresses  == ("A@x" :> "a@x") @@ ("a@x" :> "a@x") @@ ("b@x" :> "b@x")
MCSignUps    == ("q1" :> [address |-> "A@x", role |-> "employee"])
                @@ ("q2" :> [address |-> "a@x", role |-> "seo"])
                @@ ("q3" :> [address |-> "b@x", role |-> "employee"])

MCScenes ==
    ScenesOf("availability", {{"refusals"}, {"count_fails"}, {"edits"}, {"kill", "deletes"},
                              {"count_fails", "handler_fails", "incomplete"}})
    \cup ScenesOf("sync", {{"raises"}, {"kill"}, {"grows"}, {"shrinks"}})
    \cup ScenesOf("upload", {{"raises"}, {"kill"}})
    \cup ScenesOf("delivery", {{"raises", "garbage"}, {"raises", "dies"}, {"poison"}})
    \cup ScenesOf("fill_route", {{}, {"enqueue_raises"}, {"kill"}, {"expires"}, {"waits"}})
    \cup ScenesOf("enrich_route", {{}, {"enqueue_raises"}, {"kill"}, {"expires"}, {"waits"}})
    \cup ScenesOf("owner", {{}})
    \cup ScenesOf("variants", {{"model_fails", "deletes"}, {"overrides", "model_fails"},
                              {"regenerates", "overrides", "queue_fails"}, {"kill"}})
    \cup ScenesOf("prices", {{"auto2", "jv"}, {"refuses", "auto2", "clears"},
                            {"commit_raises", "twoaccounts", "jv"}})
    \cup ScenesOf("deactivate", {{}, {"refuses"}})
    \cup ScenesOf("categories", {{"l1", "l2"}, {"l1", "refreshes"},
                                {"refreshes", "changes", "fetch_raises", "l2"},
                                {"l1", "l2", "deepl_fails", "long_names"}})
    \cup ScenesOf("token", {{}}) \cup ScenesOf("deepl", {{}})
    \cup ScenesOf("media", {{"m1", "edits_links", "edits_texts", "refuses"}, {"m1", "m2", "edits_texts"},
                           {"m1", "edits_links", "raises"}})
    \cup ScenesOf("images", {{"calls_fail", "retries"}, {"stops", "calls_fail"}})
    \cup ScenesOf("factories", {{}})
    \cup ScenesOf("accounts", {{}, {"cut_off"}})

JobsInit ==
    /\ scene \in MCScenes
    /\ AvailInit /\ ImportInit /\ DeliveryInit /\ RouteInit /\ VariantInit
    /\ MarketInit /\ CategoryInit /\ ClientsInit /\ MirrorInit /\ AccountsInit

jobsVars == <<scene, availVars, importVars, deliveryVars, routeVars, variantVars,
              marketVars, categoryVars, clientVars, mirrorVars, accountVars>>

JobsNext ==
    \/ AvailNext /\ UNCHANGED <<importVars, deliveryVars, routeVars, variantVars, marketVars, categoryVars, clientVars, mirrorVars, accountVars>>
    \/ ImportNext /\ UNCHANGED <<availVars, deliveryVars, routeVars, variantVars, marketVars, categoryVars, clientVars, mirrorVars, accountVars>>
    \/ DeliveryNext /\ UNCHANGED <<availVars, importVars, routeVars, variantVars, marketVars, categoryVars, clientVars, mirrorVars, accountVars>>
    \/ RouteNext /\ UNCHANGED <<availVars, importVars, deliveryVars, variantVars, marketVars, categoryVars, clientVars, mirrorVars, accountVars>>
    \/ VariantNext /\ UNCHANGED <<availVars, importVars, deliveryVars, routeVars, marketVars, categoryVars, clientVars, mirrorVars, accountVars>>
    \/ MarketNext /\ UNCHANGED <<availVars, importVars, deliveryVars, routeVars, variantVars, categoryVars, clientVars, mirrorVars, accountVars>>
    \/ CategoryNext /\ UNCHANGED <<availVars, importVars, deliveryVars, routeVars, variantVars, marketVars, clientVars, mirrorVars, accountVars>>
    \/ ClientsNext /\ UNCHANGED <<availVars, importVars, deliveryVars, routeVars, variantVars, marketVars, categoryVars, mirrorVars, accountVars>>
    \/ MirrorNext /\ UNCHANGED <<availVars, importVars, deliveryVars, routeVars, variantVars, marketVars, categoryVars, clientVars, accountVars>>
    \/ AccountsNext /\ UNCHANGED <<availVars, importVars, deliveryVars, routeVars, variantVars, marketVars, categoryVars, clientVars, mirrorVars>>

JobsFairness ==
    /\ AvailFairness /\ ImportFairness /\ DeliveryFairness /\ RouteFairness /\ VariantFairness
    /\ MarketFairness /\ CategoryFairness /\ ClientsFairness /\ MirrorFairness

\* The state of every component has its type.
JobsTypeOK ==
    /\ AvailTypeOK /\ ImportTypeOK /\ DeliveryTypeOK /\ RouteTypeOK /\ VariantTypeOK
    /\ MarketTypeOK /\ CategoryTypeOK /\ ClientsTypeOK /\ MirrorTypeOK

\* Two requests or two coroutines, however they interleave, do not both get the row of a
\* combination, of a factory or of a person, or the next slot for a translation.  The job
\* of a task and a task without an owner are kept apart by a look before a save only: two
\* clicks or two users get them both if these two looked before either had saved (as may
\* happen in the code), and nobody does who looks later; a fill also gets a second job
\* when it was given up while its first waited.
SecondCallersApart ==
    /\ OneJobUnlessOverlapped /\ OneOwner
    /\ OneVariantPerCombination /\ FactoriesOnce /\ OneAccountPerPerson
    /\ SlotsApart

\* Who is told that a job will come has one: a queued task, an accepted product that
\* waits for its stock, a variant that waits for its image.
PromisedJobsExist ==
    QueuedHasJob /\ JobKeptUntilStocked /\ AnswerMeansJob /\ PaintedByAJob

\* The counters and verdicts of the availability job and of the imports tell of what
\* was done: none is counted over another, none before it is stored.
ProgressIsTrue ==
    /\ NoCountLost /\ DoneMeansAvailable
    /\ ProgressIsStored /\ CompletedHasAll /\ CountedIsStored

\* Prices and activity are at OTTO what the tables and the answers say.
MarketAgrees == PricesAgree /\ InactiveIsOff /\ AnsweredIsOff

\* The copies of OTTO's data, and the token for the next request, are whole and new
\* enough, whichever callers refresh them at the same time.
CopiesAreGood == CatalogueIsWhole /\ TextsAreOneAnswer /\ RunBringsNews /\ TokenIsGood

\* No job writes its old copy over what was set or deleted while it worked: edits of a
\* draft, images set by hand, deleted variants, labels, links of a product's own.
EditsAreKept ==
    /\ [](EditKeptUnlessOverlapped /\ OverrideKept)
    /\ DeletedVariantStaysDeleted /\ LabelKept /\ OwnImagesKept

\* What is begun ends, each part under the events that its own property names.
JobsSettle ==
    /\ AvailabilitySettles /\ ImportEnds /\ JobsAreCarriedOut /\ RouteSettles
    /\ VariantsSettle /\ DeactivationEnds /\ LabelsFill /\ TranslationsEnd /\ CachedImagesShown

JobsSpec == JobsInit /\ [][JobsNext]_jobsVars /\ JobsFairness
=============================================================================

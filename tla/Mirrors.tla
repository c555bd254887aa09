------------------------------- MODULE Mirrors -------------------------------
(***************************************************************************)
(* What the database copies from OTTO and Aftercool beside products:        *)
(* images and descriptions of OTTO products                                 *)
(* (app/services/product_media_sync_service.py), image links by EAN          *)
(* (app/services/aftercool_image_service.py) and the factories              *)
(* (app/services/afterbuy_service.py).  All are replaced, not merged: what   *)
(* must not happen is that two answers are mixed, or that a failed call      *)
(* takes away what there is.                                                *)
(***************************************************************************)
EXTENDS Scenes, Integers, Sequences, SequencesExt, FiniteSets

CONSTANTS
    MediaSkus,      \* products to sync: a sequence
    MediaRuns,      \* runs of sync_product_media_assets
    MaxEdits,       \* bound: edits at OTTO
    ImageEans,      \* EANs of the import, a sequence
    ImageChunk,     \* batch_size
    FactoryAnswers, \* answers of Aftercool: a set of sets of factory ids
    FactoryRequests \* requests to fetch and save the factories

ASSUME MediaAssumption == MediaSkus \in Seq(Range(MediaSkus)) /\ MediaSkus # <<>>

VARIABLES
    ottoMedia,         \* per SKU: [links, texts], versions
    links,          \* products.media_asset_links: version
    texts,          \* product_attributes: the rows, a set of <<version, run>>
    runAt,          \* per run: [at, next, got, doomed, began]
    mixedRuns,      \* history: SKUs that two runs have replaced at the same time
    images,         \* product_image_cache: "none", "failed", "no_images" or "links"
    shown,          \* products that have links from the cache, or their own
    imageRun,       \* [at, todo]
    factories,      \* the rows: a set of <<factory, request>>
    factoryAt       \* per request: [at, answer, doomed]

mediaVars == <<ottoMedia, links, texts, runAt, mixedRuns>>
imageVars == <<images, shown, imageRun>>
factoryVars == <<factories, factoryAt>>
mirrorVars == <<mediaVars, imageVars, factoryVars>>

MediaProducts == ToSet(MediaSkus)
NoRun == [at |-> "idle", next |-> 1, got |-> <<>>, doomed |-> {}, began |-> <<>>]

-----------------------------------------------------------------------------
(* sync_product_media_assets                                               *)

OttoEdits(s) ==
    /\ \E part \in {"links", "texts"} :
          /\ May("edits_" \o part) /\ ottoMedia[s][part] < MaxEdits
          /\ ottoMedia' = [ottoMedia EXCEPT ![s][part] = @ + 1]
    /\ UNCHANGED <<scene, links, texts, runAt, mixedRuns, imageVars, factoryVars>>

BeginMediaRun(m) ==
    /\ May(m) /\ runAt[m].at = "idle"
    /\ runAt' = [runAt EXCEPT ![m] = [NoRun EXCEPT !.at = "get", !.began = ottoMedia]]
    /\ UNCHANGED <<scene, ottoMedia, links, texts, mixedRuns, imageVars, factoryVars>>

Now(m) == MediaSkus[runAt[m].next]
Onward(run) == IF run.next = Len(MediaSkus) THEN [NoRun EXCEPT !.at = "ended", !.began = run.began]
               ELSE [run EXCEPT !.next = @ + 1, !.at = "get", !.got = <<>>, !.doomed = {}]

\* A seeded fault: a product whose links are the same is left out.
UnchangedLinks(m, s) == links[s] = runAt[m].got.links

\* The same links, and the same rows in the same order.
Unchanged(m, s) ==
    /\ links[s] = runAt[m].got.links
    /\ \E q \in MediaRuns \cup {"upload"} : texts[s] = {<<runAt[m].got.texts, q>>}

\* The answer is read; a status that is no success leaves the product out, and the
\* run never counts it.
GetProduct(m) ==
    /\ runAt[m].at = "get"
    /\ runAt' = [runAt EXCEPT ![m].at = "compare", ![m].got = ottoMedia[Now(m)]]
    /\ UNCHANGED <<scene, ottoMedia, links, texts, mixedRuns, imageVars, factoryVars>>

GetRefused(m) ==
    /\ May("refuses") /\ runAt[m].at = "get"
    /\ runAt' = [runAt EXCEPT ![m] = [Onward(@) EXCEPT !.began[Now(m)] = [links |-> 0, texts |-> 0]]]
    /\ UNCHANGED <<scene, ottoMedia, links, texts, mixedRuns, imageVars, factoryVars>>

\* A seeded fault: the rows there are stay.
OldRowsNone(s) == {}

OldRows(s) == texts[s]

CompareProduct(m) ==
    /\ runAt[m].at = "compare"
    /\ IF Unchanged(m, Now(m))
       THEN runAt' = [runAt EXCEPT ![m] = Onward(@)] /\ UNCHANGED mixedRuns
       ELSE /\ runAt' = [runAt EXCEPT ![m].at = "commit", ![m].doomed = OldRows(Now(m))]
            /\ mixedRuns' = mixedRuns \cup {Now(q) : q \in {x \in MediaRuns \ {m} :
                                runAt[x].at \in {"compare", "commit"} /\ Now(x) = Now(m)}}
    /\ UNCHANGED <<scene, ottoMedia, links, texts, imageVars, factoryVars>>

CommitProduct(m) ==
    /\ runAt[m].at = "commit"
    /\ texts' = [texts EXCEPT ![Now(m)] = (@ \ runAt[m].doomed) \cup {<<runAt[m].got.texts, m>>}]
    /\ links' = [links EXCEPT ![Now(m)] = runAt[m].got.links]
    /\ runAt' = [runAt EXCEPT ![m] = Onward(@)]
    /\ UNCHANGED <<scene, ottoMedia, mixedRuns, imageVars, factoryVars>>

\* The handler rolls back and goes on; reading the next product raises outside of it,
\* because the rollback has expired all that were loaded: the run stops.
MediaRaises(m) ==
    /\ May("raises") /\ runAt[m].at \in {"get", "commit"}
    /\ runAt' = [runAt EXCEPT ![m] = [NoRun EXCEPT !.at = IF runAt[m].next = Len(MediaSkus)
                                                          THEN "answered" ELSE "stopped"]]
    /\ UNCHANGED <<scene, ottoMedia, links, texts, mixedRuns, imageVars, factoryVars>>

-----------------------------------------------------------------------------
(* sync_aftercool_images_by_ean, for the EANs that are not cached.         *)

\* candidate_eans_from_import, with or without retry_failed
Candidates ==
    SelectSeq(ImageEans, LAMBDA e : images[e] = "none" \/ (May("retries") /\ images[e] = "failed"))

BeginImageRun ==
    /\ imageRun.at = "idle" /\ imageRun' = [at |-> "fetch", todo |-> Candidates]
    /\ UNCHANGED <<scene, mediaVars, images, shown, factoryVars>>

Chunk == SubSeq(imageRun.todo, 1,
                IF Len(imageRun.todo) < ImageChunk THEN Len(imageRun.todo) ELSE ImageChunk)

\* One chunk: each call fails by itself; the rows are committed together.
FetchChunk ==
    /\ imageRun.at = "fetch" /\ imageRun.todo # <<>>
    /\ \E answers \in [ToSet(Chunk) -> {"failed", "no_images", "links"}] :
          /\ ~May("calls_fail") => \A e \in ToSet(Chunk) : answers[e] # "failed"
          /\ images' = [e \in DOMAIN images |->
                IF e \in ToSet(Chunk) THEN answers[e] ELSE images[e]]
    /\ imageRun' = [imageRun EXCEPT !.todo =
            SubSeq(@, Len(Chunk) + 1, Len(imageRun.todo))]
    /\ UNCHANGED <<scene, mediaVars, shown, factoryVars>>

\* The login, or a commit.
ImageRunRaises ==
    /\ May("stops") /\ imageRun.at = "fetch" /\ imageRun.todo # <<>>
    /\ imageRun' = [at |-> "idle", todo |-> <<>>]
    /\ UNCHANGED <<scene, mediaVars, images, shown, factoryVars>>

\* A seeded fault: the products get what was fetched in this run only.
ShowsAfterFetch == Candidates # <<>>

\* Also when there was nothing to fetch.
ShowsAlways == TRUE

\* A seeded fault: products that have links get them replaced.
LacksAny(e) == TRUE

\* only_missing=True
Lacks(e) == shown[e] = "none"

\* update_products_media_from_image_cache
ShowImages ==
    /\ imageRun.at = "fetch" /\ imageRun.todo = <<>>
    /\ shown' = IF ShowsAlways
                THEN [e \in DOMAIN shown |->
                        IF Lacks(e) /\ images[e] = "links" THEN "cache" ELSE shown[e]]
                ELSE shown
    /\ imageRun' = [at |-> "idle", todo |-> <<>>]
    /\ UNCHANGED <<scene, mediaVars, images, factoryVars>>

-----------------------------------------------------------------------------
(* AfterbuyService.fetch_factory(save=True): no check for an empty answer. *)

DeleteFactories(f) ==
    /\ factoryAt[f].at = "idle"
    /\ \E answer \in FactoryAnswers :
          factoryAt' = [factoryAt EXCEPT ![f] =
                            [at |-> "insert", answer |-> answer, doomed |-> factories]]
    /\ UNCHANGED <<scene, mediaVars, imageVars, factories>>

\* A seeded fault: factory_id is not unique.
InsertsAny(left, answer) == TRUE

\* factory_id is unique.
Inserts(left, answer) == {row[1] : row \in left} \cap answer = {}

InsertFactories(f) ==
    /\ factoryAt[f].at = "insert"
    /\ LET left == factories \ factoryAt[f].doomed
       IN  factories' = IF Inserts(left, factoryAt[f].answer)
                        THEN left \cup (factoryAt[f].answer \X {f}) ELSE factories
    /\ factoryAt' = [factoryAt EXCEPT ![f] = [at |-> "answered", answer |-> {}, doomed |-> {}]]
    /\ UNCHANGED <<scene, mediaVars, imageVars>>

-----------------------------------------------------------------------------
MirrorInit ==
    /\ ottoMedia = [s \in MediaProducts |-> [links |-> 1, texts |-> 1]]
    /\ links = [s \in MediaProducts |-> 0] /\ texts = [s \in MediaProducts |-> {<<0, "upload">>}]
    /\ runAt = [m \in MediaRuns |-> NoRun] /\ mixedRuns = {}
    /\ images = [e \in ToSet(ImageEans) |-> "none"]
    /\ shown = [e \in ToSet(ImageEans) |-> IF e = ImageEans[1] THEN "own" ELSE "none"]
    /\ imageRun = [at |-> "idle", todo |-> <<>>]
    /\ factories = {}
    /\ factoryAt = [f \in FactoryRequests |-> [at |-> "idle", answer |-> {}, doomed |-> {}]]

MediaStep(m) == GetProduct(m) \/ GetRefused(m) \/ CompareProduct(m) \/ CommitProduct(m) \/ MediaRaises(m)
ImageSyncStep == BeginImageRun \/ FetchChunk \/ ShowImages

MirrorNext ==
    \/ /\ Plays("media")
       /\ \/ \E m \in MediaRuns : BeginMediaRun(m) \/ MediaStep(m)
          \/ \E s \in MediaProducts : OttoEdits(s)
    \/ Plays("images") /\ (ImageSyncStep \/ ImageRunRaises)
    \/ Plays("factories") /\ \E f \in FactoryRequests : DeleteFactories(f) \/ InsertFactories(f)

\* The image script is run again and again, and does not stop each time.
MirrorFairness == WF_mirrorVars(Plays("images") /\ BeginImageRun)
                  /\ SF_mirrorVars(Plays("images") /\ FetchChunk)
                  /\ SF_mirrorVars(Plays("images") /\ ShowImages)

-----------------------------------------------------------------------------
(* Properties.                                                             *)

MirrorTypeOK ==
    /\ \A m \in MediaRuns : runAt[m].next \in DOMAIN MediaSkus
    /\ images \in [ToSet(ImageEans) -> {"none", "failed", "no_images", "links"}]
    /\ mixedRuns \subseteq MediaProducts

\* Description rows are those of one answer, once each, unless two runs have replaced
\* the same product at the same time.
TextsAreOneAnswer ==
    \A s \in MediaProducts \ mixedRuns : Cardinality(texts[s]) = 1

\* What a run that has ended leaves behind is at least as new as OTTO's data when it
\* began, but for the products whose call was refused, and those two runs replaced.
RunBringsNews ==
    \A m \in MediaRuns : runAt[m].at = "ended" =>
        \A s \in MediaProducts \ mixedRuns :
            /\ links[s] >= runAt[m].began[s].links
            /\ \A row \in texts[s] : row[1] >= runAt[m].began[s].texts

\* A failed or empty answer takes no images from a product, and the links it has of
\* its own are kept.
OwnImagesKept ==
    [][\A e \in DOMAIN shown : shown[e] # "none" => shown'[e] = shown[e]]_mirrorVars

\* Images that are in the cache reach their product, although a run stops between
\* fetching them and showing them.
CachedImagesShown ==
    Plays("images") =>
        []<>(\A e \in DOMAIN shown : images[e] = "links" => shown[e] # "none")

\* However two requests interleave, no factory is listed twice.
FactoriesOnce ==
    \A a, b \in factories : a[1] = b[1] => a = b

=============================================================================

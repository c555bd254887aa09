-------------------------- MODULE InstructionUpdate --------------------------
(***************************************************************************)
(* The script that gives every product of an account German as the language *)
(* of its instructions (app/services/otto_instruction_language_service.py):  *)
(* it reads OTTO's products page by page, and sends those whose attribute   *)
(* says something else back whole, in batches, each followed by polls.  What *)
(* the seller changes at OTTO between the two is overwritten.                *)
(***************************************************************************)
EXTENDS Scenes, Places, Integers, Sequences, SequencesExt, FiniteSets, FiniteSetsExt

CONSTANTS
    Listings,       \* how OTTO says where its list ends ("links", "total" or "size")
                    \* -> its pages: a sequence of sequences of SKUs; an event of the scene
    Languages,      \* SKU -> its attributes of that name at first: a sequence of "de" or "en"
    InstrPage,      \* page_size
    InstrBatch,     \* submit_batch_size
    InstrRetries,   \* max_retries
    InstrPolls,     \* poll_max_attempts
    ScanLimit,      \* limit, where there is one
    MaxSellerEdits  \* bound: edits of the seller during the run

\* OTTO lists every product once, on pages that are not empty and, where only their size
\* tells the last one, are full before it.
ASSUME InstructionAssumption ==
    /\ IsFiniteSet(DOMAIN Languages)
    /\ Languages \in [DOMAIN Languages -> Seq({"de", "en"})]
    /\ DOMAIN Listings = {"links", "total", "size"}
    /\ \A way \in DOMAIN Listings :
          /\ Listings[way] \in Seq(Seq(DOMAIN Languages) \ {<<>>})
          /\ \A m, n \in DOMAIN Listings[way] :
                \A i \in DOMAIN Listings[way][m], j \in DOMAIN Listings[way][n] :
                    Listings[way][m][i] = Listings[way][n][j] => m = n /\ i = j
          /\ way # "links" =>
                \A n \in DOMAIN Listings[way] : n < Len(Listings[way]) => Len(Listings[way][n]) >= InstrPage
    /\ InstrPage \in Nat \ {0} /\ InstrBatch \in Nat \ {0}
    /\ InstrRetries \in Nat /\ InstrPolls \in Nat /\ ScanLimit \in Nat /\ MaxSellerEdits \in Nat

VARIABLES
    language,       \* per SKU: the attributes at OTTO
    edition,        \* per SKU: what else it is at OTTO, as a version
    ottoQueue,      \* per SKU: the version OTTO was sent and has not worked on, or Nothing
    rejected,       \* SKUs of which OTTO has rejected what it was sent last
    dropped,        \* SKUs it has ended a task without
    instrAt,        \* [at, page, shown, changed, next, attempt, polls, answer]
    instr,          \* the result: [status, scanned, changed, sent, failed]
    edits,          \* history, per SKU: the seller's last version
    overtaken,      \* history: SKUs edited between their page and OTTO's work on them
    unheard         \* history: SKUs sent whose outcome the run was not told

instrVars == <<language, edition, ottoQueue, rejected, dropped, instrAt, instr, edits, overtaken, unheard>>
ottoSide == <<language, edition, ottoQueue, rejected, dropped>>
instrHistory == <<edits, overtaken, unheard>>

Nothing == 0 - 1
Pages == Listings[CHOOSE way \in DOMAIN Listings : May(way)]
ListedSkus == UNION {ToSet(Pages[n]) : n \in DOMAIN Pages}
Doing(state) == instrAt.at = state

\* Seeded fault: the attribute is added where there is none.
NeedsChangeIfNotAll(p) == language[p] = <<>> \/ \E n \in DOMAIN language[p] : language[p][n] # "de"

\* replace_instruction_language_attribute: several attributes may have the name.
NeedsChange(p) == \E n \in DOMAIN language[p] : language[p][n] # "de"

-----------------------------------------------------------------------------
(* run_instruction_language_update                                         *)

HasLimit == May("limited")
LimitReached == HasLimit /\ instr.scanned >= ScanLimit

ReachLimit ==
    /\ Doing("fetch") /\ LimitReached /\ instrAt' = [instrAt EXCEPT !.at = "ended"]
    /\ UNCHANGED <<ottoSide, instr, instrHistory>>

\* A seeded fault: the limit is looked at before a page only.
WholePage(products) == products

\* page_products[:remaining]
Remaining(products) ==
    IF HasLimit THEN SubSeq(products, 1, Min({Len(products), ScanLimit - instr.scanned})) ELSE products

\* Of the products of a page, those that need a change, in its order.
ThoseToChange(products) ==
    Picked(products, {n \in DOMAIN products : NeedsChange(products[n])})

FetchPage ==
    /\ Doing("fetch") /\ ~LimitReached
    /\ LET products == Remaining(IF instrAt.page \in DOMAIN Pages THEN Pages[instrAt.page] ELSE <<>>)
           changed  == ThoseToChange(products)
       IN  /\ instr' = [instr EXCEPT !.scanned = @ + Len(products), !.changed = @ + Len(changed)]
           /\ instrAt' = [instrAt EXCEPT !.shown = Len(products), !.next = 1, !.attempt = 0,
                  !.changed = [n \in DOMAIN changed |-> <<changed[n], edition[changed[n]]>>],
                  !.at = IF changed = <<>> \/ May("dry_run") THEN "turn" ELSE "submit"]
    /\ UNCHANGED <<ottoSide, instrHistory>>

\* A seeded fault: a page that is not full is the last, whatever its links say.
IsLastIfShort == instrAt.shown < InstrPage \/ (May("total") /\ instrAt.page >= Len(Pages))

\* An empty page, no link to a next one, as many products as the total, or, where OTTO
\* says neither, a page that is not full.
IsLastPage ==
    \/ instrAt.shown = 0
    \/ May("links") /\ instrAt.page >= Len(Pages)
    \/ May("total") /\ instr.scanned >= Cardinality(ListedSkus)
    \/ ~May("links") /\ instrAt.shown < InstrPage

TurnPage ==
    /\ Doing("turn")
    /\ instrAt' = IF IsLastPage THEN [instrAt EXCEPT !.at = "ended"]
                  ELSE [instrAt EXCEPT !.at = "fetch", !.page = @ + 1]
    /\ UNCHANGED <<ottoSide, instr, instrHistory>>

-----------------------------------------------------------------------------
(* _submit_changed_products and poll_update_task                           *)

Rows == SubSeq(instrAt.changed, instrAt.next, Min({instrAt.next + InstrBatch - 1, Len(instrAt.changed)}))
SkusOf(rows) == {rows[n][1] : n \in DOMAIN rows}

\* OTTO is given the whole products, as they were on their page, in a new task.
Give(rows) ==
    /\ ottoQueue' = [p \in DOMAIN ottoQueue |->
           IF p \in SkusOf(rows) THEN (CHOOSE row \in ToSet(rows) : row[1] = p)[2] ELSE ottoQueue[p]]
    /\ rejected' = rejected \ SkusOf(rows) /\ dropped' = dropped \ SkusOf(rows)

AfterBatch ==
    [instrAt EXCEPT !.next = @ + InstrBatch, !.attempt = 0, !.polls = 0,
                    !.at = IF instrAt.next + InstrBatch > Len(instrAt.changed) THEN "turn" ELSE "submit"]

SubmitRows ==
    /\ Doing("submit") /\ Give(Rows)
    /\ instr' = [instr EXCEPT !.sent = @ + Len(Rows)]
    /\ IF May("no_poll") \/ May("no_id")
       THEN instrAt' = AfterBatch /\ unheard' = unheard \cup SkusOf(Rows)
       ELSE instrAt' = [instrAt EXCEPT !.at = "poll", !.attempt = 0] /\ UNCHANGED unheard
    /\ UNCHANGED <<language, edition, edits, overtaken>>

StillWorking == \E p \in SkusOf(Rows) : ottoQueue[p] # Nothing

\* A poll's answer; OTTO may leave the counter 'failed' out, which then reads 0.
PolledNow(said) ==
    LET state == IF StillWorking THEN "processing"
                 ELSE IF dropped \cap SkusOf(Rows) # {} THEN "failed" ELSE "done"
    IN  [failed |-> IF said THEN Cardinality(rejected \cap SkusOf(Rows)) ELSE 0,
         state  |-> state, told |-> said /\ state # "processing"]
SaidFailed == IF May("leaves_out") THEN BOOLEAN ELSE {TRUE}

\* A seeded fault: a task is known to have failed by its counter.
TaskFailedIfCounted(answer) == answer.failed > 0

TaskFailed(answer) == answer.state = "failed" \/ answer.failed > 0

\* The last poll is what counts; the run does not hear what comes later.
FinishBatch(answer) ==
    /\ instr' = [instr EXCEPT !.failed = @ + answer.failed,
                              !.status = IF TaskFailed(answer) THEN "failed" ELSE @]
    /\ instrAt' = AfterBatch
    /\ unheard' = unheard \cup (IF answer.told THEN {} ELSE SkusOf(Rows))
    /\ UNCHANGED <<ottoSide, edits, overtaken>>

\* A seeded fault: polled as long as OTTO works on it.
GivesUpNever(polls) == FALSE

GivesUp(polls) == polls >= InstrPolls

PollBatch ==
    /\ Doing("poll")
    /\ \E said \in SaidFailed :
       LET polls  == Min({instrAt.polls + 1, InstrPolls})
           answer == PolledNow(said)
       IN  IF StillWorking /\ ~GivesUp(polls)
           THEN /\ instrAt' = [instrAt EXCEPT !.polls = polls, !.attempt = 0]
                /\ UNCHANGED <<ottoSide, instr, instrHistory>>
           ELSE IF answer.failed > 0
           THEN /\ instrAt' = [instrAt EXCEPT !.at = "results", !.attempt = 0, !.answer = answer]
                /\ UNCHANGED <<ottoSide, instr, instrHistory>>
           ELSE FinishBatch(answer)

FetchRejected == Doing("results") /\ FinishBatch(instrAt.answer)

\* A busy OTTO is asked again; a request that timed out may have been taken.
MayRetryCall == May("busy") /\ instrAt.attempt < InstrRetries

CallAgain ==
    /\ instrAt.at \in {"fetch", "submit", "poll", "results"} /\ ~(Doing("fetch") /\ LimitReached) /\ MayRetryCall
    /\ instrAt' = [instrAt EXCEPT !.attempt = @ + 1]
    /\ (Doing("submit") /\ Give(Rows)) \/ UNCHANGED <<ottoQueue, rejected, dropped>>
    /\ UNCHANGED <<language, edition, instr, instrHistory>>

\* A seeded fault: a batch whose call was given up is logged, not counted.
LostNone(size) == 0

LostWith(size) == size

\* An error that is not tried again, or was too often: a page ends the run, a batch counts
\* as failed as a whole.
CallFails ==
    /\ May("raises") \/ (May("busy") /\ instrAt.attempt = InstrRetries)
    /\ \/ /\ Doing("fetch") /\ ~LimitReached /\ instrAt' = [instrAt EXCEPT !.at = "ended"]
          /\ instr' = [instr EXCEPT !.status = "failed"]
          /\ UNCHANGED unheard
       \/ /\ instrAt.at \in {"submit", "poll", "results"} /\ instrAt' = AfterBatch
          /\ instr' = [instr EXCEPT !.status = "failed", !.failed = @ + LostWith(Len(Rows))]
          /\ unheard' = unheard \cup (IF Doing("submit") THEN SkusOf(Rows) ELSE {})
    /\ UNCHANGED <<ottoSide, edits, overtaken>>

-----------------------------------------------------------------------------
(* OTTO and the seller.                                                    *)

OttoApplies(p) ==
    /\ ottoQueue[p] # Nothing
    /\ ottoQueue' = [ottoQueue EXCEPT ![p] = Nothing]
    /\ \/ /\ language' = [language EXCEPT ![p] = [n \in DOMAIN @ |-> "de"]]
          /\ edition' = [edition EXCEPT ![p] = ottoQueue[p]]
          /\ UNCHANGED rejected
       \/ /\ May("rejects") /\ rejected' = rejected \cup {p}
          /\ UNCHANGED <<language, edition>>
    /\ UNCHANGED <<dropped, instrAt, instr, instrHistory>>

\* A task that OTTO ends as failed, without those of its products it has not got to.
OttoDrops(p) ==
    /\ May("drops") /\ ottoQueue[p] # Nothing
    /\ ottoQueue' = [ottoQueue EXCEPT ![p] = Nothing] /\ dropped' = dropped \cup {p}
    /\ UNCHANGED <<language, edition, rejected, instrAt, instr, instrHistory>>

SellerEdits(p) ==
    /\ May("edits") /\ edits[p] = 0 /\ Cardinality({q \in DOMAIN edits : edits[q] > 0}) < MaxSellerEdits
    /\ edits' = [edits EXCEPT ![p] = @ + 1] /\ edition' = [edition EXCEPT ![p] = edits[p] + 1]
    /\ overtaken' = IF (instrAt.at \in {"submit", "poll", "results"} /\ p \in ToSet(Pages[instrAt.page])
                           /\ \E n \in DOMAIN Languages[p] : Languages[p][n] # "de")
                       \/ ottoQueue[p] # Nothing
                    THEN overtaken \cup {p} ELSE overtaken
    /\ UNCHANGED <<language, ottoQueue, rejected, dropped, instrAt, instr, unheard>>

InstrStep == ReachLimit \/ FetchPage \/ TurnPage \/ SubmitRows \/ PollBatch \/ FetchRejected

InstrNext ==
    /\ Plays("instructions")
    /\ \/ InstrStep \/ CallAgain \/ CallFails
       \/ \E p \in ListedSkus : OttoApplies(p) \/ OttoDrops(p) \/ SellerEdits(p)
    /\ UNCHANGED scene

InstrInit ==
    /\ language = Languages
    /\ edition = [p \in DOMAIN Languages |-> 0] /\ edits = edition
    /\ ottoQueue = [p \in DOMAIN Languages |-> Nothing]
    /\ instrAt = [at |-> "fetch", page |-> 1, shown |-> 0, changed |-> <<>>, next |-> 1,
                  attempt |-> 0, polls |-> 0, answer |-> [failed |-> 0, state |-> "", told |-> TRUE]]
    /\ instr = [status |-> "done", scanned |-> 0, changed |-> 0, sent |-> 0, failed |-> 0]
    /\ rejected = {} /\ dropped = {} /\ overtaken = {} /\ unheard = {}

InstrFairness == WF_instrVars(Plays("instructions") /\ (InstrStep \/ CallFails))

-----------------------------------------------------------------------------
(* Properties.                                                             *)

InstrTypeOK ==
    /\ instrAt.at \in {"fetch", "submit", "poll", "results", "turn", "ended"}
    /\ instrAt.attempt \in 0 .. InstrRetries /\ instrAt.polls \in 0 .. InstrPolls
    /\ instr.scanned \in 0 .. Cardinality(DOMAIN Languages)
    /\ \A p \in DOMAIN language : ottoQueue[p] \in {Nothing} \cup 0 .. edits[p]

\* A whole run that ends "done" and was told the end of every batch leaves German wherever
\* the attribute is, by whichever sign it found the end of OTTO's list.
DoneMeansGerman ==
    Doing("ended") /\ instr.status = "done" /\ unheard = {} /\ ~HasLimit /\ ~May("dry_run") =>
        \A p \in ListedSkus : ToSet(language[p]) \subseteq {"de"}

\* What OTTO has rejected is counted and makes the run failed, also if the call that would
\* have told so fails, and so does what it has dropped with its task, though no counter
\* tells of it; only what the polls did not tell, or OTTO does after the last, does not.
RejectedAreCounted ==
    Doing("ended") =>
        /\ instr.failed >= Cardinality(rejected \ unheard)
        /\ instr.failed = 0 \/ instr.status = "failed"
        /\ dropped \subseteq unheard \/ instr.status = "failed"

\* A seller's edit is lost only if it was made between the page the product was on and OTTO's
\* work on it, and only if its language had to be changed: other products are not sent.
EditLostOnlyIfOvertaken == \A p \in DOMAIN edits : edition[p] # edits[p] => p \in overtaken

\* A limited run changes no more products than its limit, a dry run none.
RunKeepsToItsBounds ==
    /\ (HasLimit => instr.scanned <= ScanLimit)
    /\ (May("dry_run") => instr.sent = 0 /\ language = Languages)

\* A run ends, however busy OTTO is.
InstructionsEnd == Plays("instructions") ~> Doing("ended")
=============================================================================

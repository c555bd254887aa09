---------------------------- MODULE MarketUpdates ----------------------------
(***************************************************************************)
(* Two routes of app/api/routes/products.py that change a product at OTTO   *)
(* and in the database, which no transaction spans.                         *)
(*                                                                         *)
(* update_db_product_prices sends the new prices to each account in turn,   *)
(* and commits the rows when the last one has accepted; what one account    *)
(* has accepted is not taken back when the next one refuses.                *)
(*                                                                         *)
(* deactivate_products_by_ean runs one coroutine for each identifier, each  *)
(* setting the quantity to zero and then the status, and commits the rows   *)
(* at the end.  Two identifiers may stand for one product.                  *)
(***************************************************************************)
EXTENDS Scenes, Integers, Sequences, FiniteSets

CONSTANTS
    ImportedIn,     \* account -> products that have an import row of it
    PriceRequests,  \* requests: name -> [controller, items : sequence of <<product, price>>]
    NoPrice,        \* a price that is cleared
    Identifiers,    \* identifier of the request to deactivate -> its product, or NotFound
    NotFound,
    DeactivateConcurrency   \* PRODUCT_DEACTIVATE_CONCURRENCY

Accounts  == DOMAIN ImportedIn
Priced    == UNION {ImportedIn[a] : a \in Accounts}
Shelved   == {Identifiers[i] : i \in DOMAIN Identifiers} \ {NotFound}
PriceChanges == DOMAIN PriceRequests

VARIABLES
    rowPrice,       \* products.price
    importPrice,    \* price of the import row, by account and product
    listedPrice,    \* the price at OTTO
    priceAt,        \* per request: [at, todo : accounts to send to, mixed : another one has
                    \* been at work, seen : the prices it has loaded]
    agreed,         \* history: <<account, product>> whose prices the last request made equal
    shelf,        \* at OTTO, by product: [quantity, active]
    rowOff,         \* products.active_status is "Inaktiv", by product
    offInSession,   \* the same in the session of the request, not committed yet
    offAt           \* per identifier: where its coroutine is

priceVars == <<rowPrice, importPrice, listedPrice, priceAt, agreed>>
offVars == <<shelf, rowOff, offInSession, offAt>>
marketVars == <<priceVars, offVars>>

-----------------------------------------------------------------------------
(* Prices.                                                                 *)

Items(r) == PriceRequests[r].items
ItemsOf(r) == {Items(r)[i] : i \in DOMAIN Items(r)}
Sent(r) == {item \in ItemsOf(r) : item[2] # NoPrice}

AccountsOf(r, p) ==
    {a \in Accounts : PriceRequests[r].controller \in {"auto", a} /\ p \in ImportedIn[a]}

\* No account, or with "auto" more than one: the request is refused as a whole.
OneAccountEach(r) == \A item \in Sent(r) : Cardinality(AccountsOf(r, item[1])) = 1

Pairs(r) == {<<a, item[1]>> : a \in Accounts, item \in Sent(r)}
SentPairs(r) == {pair \in Pairs(r) : pair[1] \in AccountsOf(r, pair[2])}

\* The last item of a product counts, in the payload as in the row.
LastPrice(r, p) ==
    LET at == {i \in DOMAIN Items(r) : Items(r)[i][1] = p}
    IN  Items(r)[CHOOSE i \in at : \A j \in at : j <= i][2]

Over(answer) == [at |-> answer, todo |-> {}, mixed |-> FALSE, seen |-> <<>>]
Sending == {r \in PriceChanges : priceAt[r].at = "send"}
Touches(r, p) == \E item \in ItemsOf(r) : item[1] = p

LoadPriceRows(r) ==
    /\ May(r) /\ priceAt[r].at = "idle"
    /\ \/ /\ OneAccountEach(r)
          /\ priceAt' = [q \in PriceChanges |->
                IF q = r THEN [at |-> "send", todo |-> {pair[1] : pair \in SentPairs(r)},
                               mixed |-> Sending # {}, seen |-> <<rowPrice, importPrice>>]
                ELSE IF q \in Sending THEN [priceAt[q] EXCEPT !.mixed = TRUE]
                ELSE priceAt[q]]
       \/ /\ ~OneAccountEach(r)
          /\ priceAt' = [priceAt EXCEPT ![r].at = "refused"]
    /\ UNCHANGED <<scene, rowPrice, importPrice, listedPrice, agreed, offVars>>

\* A seeded fault: any answer will do.
AcceptedAny(code) == TRUE

Accepted(code) == code = 202

\* OTTO accepts and lists, refuses, or lists and its answer is lost.
SendPrices(r, a) ==
    /\ priceAt[r].at = "send" /\ a \in priceAt[r].todo
    /\ \E code \in {202, 422, 0} :
          /\ code # 202 => May("refuses")
          /\ LET mine == {pair \in SentPairs(r) : pair[1] = a}
             IN  /\ listedPrice' = [pair \in DOMAIN listedPrice |->
                        IF code # 422 /\ pair \in mine THEN LastPrice(r, pair[2])
                        ELSE listedPrice[pair]]
                 /\ agreed' = agreed \ mine
          /\ priceAt' = [priceAt EXCEPT ![r] =
                IF Accepted(code) THEN [priceAt[r] EXCEPT !.todo = @ \ {a}]
                ELSE Over("refused")]
    /\ UNCHANGED <<scene, rowPrice, importPrice, offVars>>

\* A column is written if the new value is not the one the request has loaded.
Written(stored, loaded, new) == IF new = loaded THEN stored ELSE new

\* The rows of all items in one commit, those without a price to send as well.
CommitPrices(r) ==
    /\ priceAt[r].at = "send" /\ priceAt[r].todo = {}
    /\ rowPrice' = [p \in Priced |->
            IF Touches(r, p) THEN Written(rowPrice[p], priceAt[r].seen[1][p], LastPrice(r, p))
            ELSE rowPrice[p]]
    /\ importPrice' = [pair \in DOMAIN importPrice |->
            IF pair \in SentPairs(r)
            THEN Written(importPrice[pair], priceAt[r].seen[2][pair], LastPrice(r, pair[2]))
            ELSE importPrice[pair]]
    /\ agreed' = IF priceAt[r].mixed
                 THEN {pair \in agreed : ~Touches(r, pair[2])}
                 ELSE {pair \in agreed : ~Touches(r, pair[2])}
                         \cup {pair \in SentPairs(r) : LastPrice(r, pair[2]) # NoPrice}
    /\ priceAt' = [priceAt EXCEPT ![r] = Over("idle")]
    /\ UNCHANGED <<scene, listedPrice, offVars>>

CommitRaises(r) ==
    /\ May("commit_raises") /\ priceAt[r].at = "send" /\ priceAt[r].todo = {}
    /\ priceAt' = [priceAt EXCEPT ![r] = Over("refused")]
    /\ UNCHANGED <<scene, rowPrice, importPrice, listedPrice, agreed, offVars>>

-----------------------------------------------------------------------------
(* Deactivation: _deactivate_one, for identifier i.                        *)

ProductOf(i) == Identifiers[i]

\* A seeded fault: a failure leaves the semaphore taken.
UnderSemaphoreKept == {i \in DOMAIN Identifiers : offAt[i] \in {"quantity", "status", "failed"}}

UnderSemaphore == {i \in DOMAIN Identifiers : offAt[i] \in {"quantity", "status"}}

BeginOff(i) ==
    /\ offAt[i] = "waiting"
    /\ \/ /\ ProductOf(i) = NotFound
          /\ offAt' = [offAt EXCEPT ![i] = "failed"]
       \/ /\ ProductOf(i) # NotFound
          /\ Cardinality(UnderSemaphore) < DeactivateConcurrency
          /\ offAt' = [offAt EXCEPT ![i] = "quantity"]
    /\ UNCHANGED <<scene, priceVars, shelf, rowOff, offInSession>>

\* A seeded fault: the second call is made whatever the first one answers.
QuantityTakenAny(code) == TRUE

QuantityTaken(code) == code = 200

SetQuantity(i) ==
    /\ offAt[i] = "quantity"
    /\ \E code \in {200, 207, 0} :
          /\ code # 200 => May("refuses")
          /\ shelf' = [shelf EXCEPT ![ProductOf(i)].quantity = IF code = 207 THEN @ ELSE 0]
          /\ offAt' = [offAt EXCEPT ![i] = IF QuantityTaken(code) THEN "status" ELSE "failed"]
    /\ UNCHANGED <<scene, priceVars, rowOff, offInSession>>

\* Only an accepted status makes the row inactive; the row's earlier state stays
\* when a call fails, also when another identifier of the product has succeeded.
SetStatus(i) ==
    /\ offAt[i] = "status"
    /\ \E code \in {202, 422, 0} :
          /\ code # 202 => May("refuses")
          /\ shelf' = [shelf EXCEPT ![ProductOf(i)].active = (@ /\ code = 422)]
          /\ offAt' = [offAt EXCEPT ![i] = IF Accepted(code) THEN "done" ELSE "failed"]
          /\ offInSession' = IF Accepted(code) THEN offInSession \cup {ProductOf(i)}
                             ELSE offInSession
    /\ UNCHANGED <<scene, priceVars, rowOff>>

\* A seeded fault: a failure takes everything back.
CommittedIfAll == IF \E i \in DOMAIN Identifiers : offAt[i] = "failed" THEN {} ELSE offInSession

Committed == offInSession

\* asyncio.gather, then one commit.
CommitOff ==
    /\ \A i \in DOMAIN Identifiers : offAt[i] \in {"done", "failed"}
    /\ rowOff' = rowOff \cup Committed
    /\ offAt' = [i \in DOMAIN Identifiers |-> IF offAt[i] = "done" THEN "answered_done"
                                                ELSE "answered_failed"]
    /\ UNCHANGED <<scene, priceVars, shelf, offInSession>>

\* The same list is sent again.
AskAgain ==
    /\ \E i \in DOMAIN Identifiers : offAt[i] = "answered_failed"
    /\ offAt' = [i \in DOMAIN Identifiers |-> "waiting"] /\ offInSession' = {}
    /\ UNCHANGED <<scene, priceVars, shelf, rowOff>>

-----------------------------------------------------------------------------
MarketInit ==
    /\ rowPrice = [p \in Priced |-> 0]
    /\ importPrice = [pair \in {x \in Accounts \X Priced : x[2] \in ImportedIn[x[1]]} |-> 0]
    /\ listedPrice = importPrice
    /\ priceAt = [r \in PriceChanges |-> Over("idle")]
    /\ agreed = DOMAIN importPrice
    /\ shelf = [p \in Shelved |-> [quantity |-> 5, active |-> TRUE]]
    /\ rowOff = {} /\ offInSession = {}
    /\ offAt = [i \in DOMAIN Identifiers |-> "waiting"]

PriceStep(r) == \/ \E a \in Accounts : SendPrices(r, a)
                \/ CommitPrices(r) \/ CommitRaises(r)
OffStep == CommitOff \/ \E i \in DOMAIN Identifiers : BeginOff(i) \/ SetQuantity(i) \/ SetStatus(i)

MarketNext ==
    \/ Plays("prices") /\ \E r \in PriceChanges : LoadPriceRows(r) \/ PriceStep(r)
    \/ Plays("deactivate") /\ (OffStep \/ AskAgain)

\* A deactivation goes on; price changes need not.
MarketFairness == WF_marketVars(Plays("deactivate") /\ OffStep)

-----------------------------------------------------------------------------
(* Properties.                                                             *)

MarketTypeOK ==
    /\ \A r \in PriceChanges : priceAt[r].at \in {"idle", "send", "refused"}
    /\ agreed \subseteq DOMAIN listedPrice
    /\ rowOff \subseteq Shelved
    /\ \A p \in Shelved : shelf[p].quantity \in {0, 5}

\* A request that answers with success and met no other leaves one price in the row,
\* in the import row and at OTTO, until another request sends or clears that price.
PricesAgree ==
    \A pair \in agreed :
        /\ rowPrice[pair[2]] = listedPrice[pair]
        /\ importPrice[pair] = listedPrice[pair]

\* What the database calls inactive is inactive at OTTO, with no stock, whichever
\* of the identifiers of a product has failed.
InactiveIsOff ==
    \A p \in rowOff : shelf[p] = [quantity |-> 0, active |-> FALSE]

\* An identifier that is answered with success has its product off, here and there.
AnsweredIsOff ==
    \A i \in DOMAIN Identifiers : offAt[i] = "answered_done" => ProductOf(i) \in rowOff

\* The request ends although a call fails: no identifier keeps its place.
DeactivationEnds ==
    Plays("deactivate") =>
        []<>(\A i \in DOMAIN Identifiers : offAt[i] \in {"answered_done", "answered_failed"})

=============================================================================

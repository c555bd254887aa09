---------------------------- MODULE ProductTable ----------------------------
(***************************************************************************)
(* How the rows of an XLSX export become products: the rows of a file are  *)
(* deduplicated, and each batch of them is matched with the products by     *)
(* SKU, EAN or product reference (app/api/routes/products.py).  A row and a  *)
(* product are their three keys and a content; None is an empty cell.        *)
(***************************************************************************)
EXTENDS Naturals, Sequences, SequencesExt, FiniteSets, Places

CONSTANT None

Keys == <<"sku", "ean", "reference">>

\* The key a row goes by, as <<column, value>>: the first that is filled.
Identity(row) ==
    LET filled == {k \in 1 .. 3 : row[Keys[k]] # None}
    IN  IF filled = {} THEN <<>>
        ELSE LET k == CHOOSE k \in filled : \A l \in filled : k <= l
             IN  <<Keys[k], row[Keys[k]]>>

\* Of the rows of one identity, the content of the last, at the place of the first (a
\* dict keeps the place of a key it has already); the rows without identity come last.
LastLike(rows, row) ==
    CHOOSE i \in DOMAIN rows : /\ Identity(rows[i]) = Identity(row)
                              /\ \A j \in i + 1 .. Len(rows) : Identity(rows[j]) # Identity(row)

Deduplicated(rows) ==
    LET nameless == {i \in DOMAIN rows : Identity(rows[i]) = <<>>}
        firsts   == {i \in DOMAIN rows \ nameless :
                        \A j \in 1 .. i - 1 : Identity(rows[j]) # Identity(rows[i])}
        named    == Picked(rows, firsts)
    IN  [n \in DOMAIN named |-> rows[LastLike(rows, named[n])]] \o Picked(rows, nameless)

\* The index of a batch: for each column, which product a value stands for.  A
\* value of several products stands for the last of them; all products that share
\* a key with a row of the batch are in it.
Indexed(products, batch) ==
    LET known == {p \in DOMAIN products : \E k \in 1 .. 3, row \in Range(batch) :
                    row[Keys[k]] # None /\ products[p][Keys[k]] = row[Keys[k]]}
    IN  [key \in {<<Keys[k], products[p][Keys[k]]>> : k \in 1 .. 3, p \in known}
                 \ {<<Keys[k], None>> : k \in 1 .. 3}
          |-> CHOOSE p \in known : /\ products[p][key[1]] = key[2]
                                   /\ \A q \in known : products[q][key[1]] = key[2] => q <= p]

\* The product a row is written over: by SKU, else by EAN, else by reference; a new
\* one if there is none.
Matched(products, index, row) ==
    LET found == {k \in 1 .. 3 : <<Keys[k], row[Keys[k]]>> \in DOMAIN index}
    IN  IF found = {} THEN Len(products) + 1
        ELSE index[LET k == CHOOSE k \in found : \A l \in found : k <= l
                   IN  <<Keys[k], row[Keys[k]]>>]

\* One row: the product gets the columns of the row, and the index its keys.  Keys
\* the product had before stay in the index.
UpsertRow(state, row) ==
    LET p == Matched(state.products, state.index, row)
        keys == {<<Keys[k], row[Keys[k]]>> : k \in 1 .. 3} \ {<<Keys[k], None>> : k \in 1 .. 3}
    IN  [products |-> IF p \in DOMAIN state.products
                      THEN [state.products EXCEPT ![p] = row]
                      ELSE Append(state.products, row),
         index |-> [key \in keys \cup DOMAIN state.index |->
                        IF key \in keys THEN p ELSE state.index[key]]]

UpsertBatch(products, batch) ==
    LET after[n \in 0 .. Len(batch)] ==
            IF n = 0 THEN [products |-> products, index |-> Indexed(products, batch)]
            ELSE UpsertRow(after[n - 1], batch[n])
    IN  after[Len(batch)].products

\* uq_products_sku: the flush of a row raises if another product has its SKU.
SkusDistinct(products) ==
    \A p, q \in DOMAIN products :
        p # q /\ products[p].sku # None => products[p].sku # products[q].sku
=============================================================================

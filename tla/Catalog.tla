------------------------------- MODULE Catalog -------------------------------
(***************************************************************************)
(* What the market shows of products: their reviews and the ratings        *)
(* computed from these, wishlists and their alerts (review_service.go,     *)
(* wishlist_service.go, product_handler.go, product_repository.go).        *)
(*                                                                         *)
(* A rating is the sum and the number of the stars it averages.  A review  *)
(* is changed in a transaction that then updates the product and its       *)
(* merchant from what its statements see: committed rows and its own.      *)
(* Targets and the stock that orders take are not modelled here, and a     *)
(* product stays with its merchant, which an admin's edit may change.      *)
(***************************************************************************)
EXTENDS Integers, FiniteSets, Sums

CONSTANTS
    Users,
    Products,
    Merchants,
    MerchantOf,   \* the merchant of a product
    Stars,        \* a subset of 1..5
    Workers,      \* requests under way
    None

VARIABLES
    delivered,    \* products a user has a delivered order of
    review,       \* committed row of each product and user
    rating,       \* rating columns of products and merchants
    transaction,  \* open transactions
    raced,        \* history: ratings last written while another change was open
    product,      \* rows of products
    saved,        \* wishlist rows
    muted,        \* users who muted the market
    editor,       \* edits of products under way
    waiting,      \* history: who awaits an alert that an edit owes them
    missed        \* history: those of them whom an alert that failed left out

catalogVars == <<delivered, review, rating, transaction, raced, product, saved, muted, editor, waiting, missed>>
reviewVars == <<delivered, review, rating, transaction, raced>>
shopVars == <<product, saved, muted, editor, waiting, missed>>

Review == [stars : Stars, hidden : BOOLEAN, reply : BOOLEAN]
Rating == [sum : Nat, count : Nat]
Product == [live : BOOLEAN, published : BOOLEAN, stock : 0..1, price : 1..2]
Idle == [step |-> "idle"]

CatalogTypeOK ==
    /\ delivered \in [Users -> SUBSET Products]
    /\ review \in [Products -> [Users -> Review \cup {None}]]
    /\ DOMAIN rating = Products \cup Merchants /\ \A x \in DOMAIN rating : rating[x] \in Rating
    /\ \A w \in Workers : transaction[w] = Idle \/
          /\ transaction[w].step \in {"wrote", "sawProduct", "product", "sawMerchant"}
          /\ transaction[w].product \in Products /\ transaction[w].row \in Review \cup {None}
    /\ raced \subseteq Products \cup Merchants
    /\ product \in [Products -> Product]
    /\ saved \subseteq Users \X Products /\ missed \subseteq waiting /\ waiting \subseteq saved /\ muted \subseteq Users
    /\ editor \in [Workers -> [step : {"idle"}] \cup [step : {"loaded"}, product : Products, before : Product]
                                \cup [step : {"saved"}, product : Products, before : Product, after : Product]]

NoRating == [sum |-> 0, count |-> 0]
OnSale == [live |-> TRUE, published |-> TRUE, stock |-> 1, price |-> 1]

CatalogInit ==
    /\ delivered = [u \in Users |-> {}]
    /\ review = [p \in Products |-> [u \in Users |-> None]]
    /\ rating = [x \in Products \cup Merchants |-> NoRating]
    /\ transaction = [w \in Workers |-> Idle]
    /\ raced = {}
    /\ product = [p \in Products |-> OnSale]
    /\ saved = {} /\ muted = {} /\ waiting = {} /\ missed = {}
    /\ editor = [w \in Workers |-> Idle]

-----------------------------------------------------------------------------
(* Reviews *)

\* A delivered order of the product is the proof of purchase.
Purchased(u, p) == p \in delivered[u]

Open == {w \in Workers : transaction[w] # Idle}
OfMerchant(m) == {w \in Open : MerchantOf[transaction[w].product] = m}

\* The rows w sees: committed ones and its own.
Seen(w) ==
    LET t == transaction[w]
    IN  [p \in Products |-> [u \in Users |-> IF t.product = p /\ t.user = u THEN t.row ELSE review[p][u]]]

\* Mutant: a hidden review counts.
WithHidden(rows, p) == {u \in Users : rows[p][u] # None}
\* The reviews of a product that are shown.
Shown(rows, p) == {u \in Users : rows[p][u] # None /\ ~rows[p][u].hidden}
Average(rows, ps) ==
    [sum |-> Sum([p \in ps |-> Sum([u \in Shown(rows, p) |-> rows[p][u].stars], Shown(rows, p))], ps),
     count |-> Sum([p \in ps |-> Cardinality(Shown(rows, p))], ps)]

\* The row is locked, or the unique index makes a second one wait.
Write(w, p, u, row) ==
    /\ transaction[w] = Idle
    /\ ~\E x \in Open : transaction[x].product = p /\ transaction[x].user = u
    /\ LET others == OfMerchant(MerchantOf[p])
           mine == [step |-> "wrote", product |-> p, user |-> u, row |-> row, alone |-> others = {}]
       IN  transaction' = [x \in Workers |-> IF x = w THEN mine
                                             ELSE IF x \in others THEN [transaction[x] EXCEPT !.alone = FALSE]
                                             ELSE transaction[x]]
    /\ UNCHANGED <<delivered, review, rating, raced>> /\ UNCHANGED shopVars

Upsert(w, u, p, stars) ==
    /\ Purchased(u, p)
    /\ Write(w, p, u, IF review[p][u] = None THEN [stars |-> stars, hidden |-> FALSE, reply |-> FALSE]
                      ELSE [review[p][u] EXCEPT !.stars = stars])
Delete(w, u, p) == review[p][u] # None /\ Write(w, p, u, None)
SetHidden(w, u, p, hidden) == review[p][u] # None /\ Write(w, p, u, [review[p][u] EXCEPT !.hidden = hidden])

\* Reply changes its own columns and no rating.
Reply(u, p) ==
    /\ review[p][u] # None /\ ~\E x \in Open : transaction[x].product = p /\ transaction[x].user = u
    /\ review' = [review EXCEPT ![p][u].reply = ~@]
    /\ UNCHANGED <<delivered, rating, transaction, raced>> /\ UNCHANGED shopVars

\* The UPDATE of the product begins, and with it what it will see.
SeeProduct(w) ==
    /\ transaction[w].step = "wrote"
    /\ LET t == transaction[w]
       IN  transaction' = [transaction EXCEPT ![w] = [step |-> "sawProduct", product |-> t.product, user |-> t.user, row |-> t.row,
                                                      alone |-> t.alone, ofProduct |-> Average(Seen(w), {t.product})]]
    /\ UNCHANGED <<delivered, review, rating, raced>> /\ UNCHANGED shopVars

\* It gets the lock of the row, which others hold until they commit.
UpdateProductRating(w) ==
    /\ transaction[w].step = "sawProduct"
    /\ ~\E x \in Open : transaction[x].product = transaction[w].product /\ transaction[x].step \in {"product", "sawMerchant"}
    /\ transaction' = [transaction EXCEPT ![w].step = "product"]
    /\ UNCHANGED <<delivered, review, rating, raced>> /\ UNCHANGED shopVars

SeeMerchant(w) ==
    /\ transaction[w].step = "product"
    /\ LET t == transaction[w]
       IN  transaction' = [transaction EXCEPT ![w] =
               [step |-> "sawMerchant", product |-> t.product, user |-> t.user, row |-> t.row, alone |-> t.alone,
                ofProduct |-> t.ofProduct, ofMerchant |-> Average(Seen(w), {p \in Products : MerchantOf[p] = MerchantOf[t.product]})]]
    /\ UNCHANGED <<delivered, review, rating, raced>> /\ UNCHANGED shopVars

\* The merchant is updated and the transaction commits.
Commit(w) ==
    /\ transaction[w].step = "sawMerchant"
    /\ LET t == transaction[w]
           written == {t.product, MerchantOf[t.product]}
       IN  /\ review' = [review EXCEPT ![t.product][t.user] = t.row]
           /\ rating' = [rating EXCEPT ![t.product] = t.ofProduct, ![MerchantOf[t.product]] = t.ofMerchant]
           /\ raced' = IF t.alone THEN raced \ written ELSE raced \cup written
    /\ transaction' = [transaction EXCEPT ![w] = Idle]
    /\ UNCHANGED delivered /\ UNCHANGED shopVars

Rollback(w) ==
    /\ w \in Open
    /\ transaction' = [transaction EXCEPT ![w] = Idle]
    /\ UNCHANGED <<delivered, review, rating, raced>> /\ UNCHANGED shopVars

\* An order is delivered; a refund takes the proof away, never the review.
Deliver(u, p) ==
    /\ delivered' = [delivered EXCEPT ![u] = IF p \in @ THEN @ \ {p} ELSE @ \cup {p}]
    /\ UNCHANGED <<review, rating, transaction, raced>> /\ UNCHANGED shopVars

\* The summary of a product's page and the feed of its merchant.
ListForProduct(p) ==
    LET stars(u) == review[p][u].stars
        of(s) == {u \in Users : review[p][u] # None /\ ~review[p][u].hidden /\ stars(u) = s}
    IN  [sum |-> Sum([s \in Stars |-> s * Cardinality(of(s))], Stars), count |-> Sum([s \in Stars |-> Cardinality(of(s))], Stars)]
ListAll(hidden) == {x \in Users \X Products : review[x[2]][x[1]] # None /\ review[x[2]][x[1]].hidden = hidden}
ListForMerchant(m) == {x \in ListAll(FALSE) : MerchantOf[x[2]] = m}
ReviewableForOrder(u) == {<<p, review[p][u]>> : p \in delivered[u]}

-----------------------------------------------------------------------------
(* The shop *)

Found(p) == product[p].live /\ product[p].published
SearchProducts(inStock, maxPrice) == {p \in Products : Found(p) /\ (inStock => product[p].stock > 0) /\ product[p].price <= maxPrice}
Lookup(ids) == {p \in ids : Found(p)}
List(u) == {p \in Products : <<u, p>> \in saved /\ Found(p)}

\* Those left out wait until they are told or the product is gone again.
Missing(S) == missed' = {x \in (missed \cup S) \cap waiting' : product'[x[2]].stock # 0}

Add(u, p) ==
    /\ Found(p) /\ <<u, p>> \notin saved
    /\ saved' = saved \cup {<<u, p>>}
    /\ waiting' = IF product[p].stock = 0 /\ u \notin muted THEN waiting \cup {<<u, p>>} ELSE waiting
    /\ UNCHANGED <<product, muted, editor>> /\ UNCHANGED reviewVars
    /\ Missing({})

Remove(u, p) ==
    /\ <<u, p>> \in saved
    /\ saved' = saved \ {<<u, p>>} /\ waiting' = waiting \ {<<u, p>>}
    /\ UNCHANGED <<product, muted, editor>> /\ UNCHANGED reviewVars
    /\ Missing({})

Mute(u) ==
    /\ muted' = IF u \in muted THEN muted \ {u} ELSE muted \cup {u}
    /\ waiting' = IF u \in muted THEN waiting \cup {x \in saved : x[1] = u /\ product[x[2]].stock = 0}
                  ELSE {x \in waiting : x[1] # u}
    /\ UNCHANGED <<product, saved, editor>> /\ UNCHANGED reviewVars
    /\ Missing({})

\* UpdateProduct and UpdateMyProduct load the row and save it whole later.
LoadProduct(w, p) ==
    /\ editor[w] = Idle /\ product[p].live
    /\ editor' = [editor EXCEPT ![w] = [step |-> "loaded", product |-> p, before |-> product[p]]]
    /\ UNCHANGED <<product, saved, muted, waiting, missed>> /\ UNCHANGED reviewVars

\* Who awaits an alert once a row is out of stock, or was put back by an edit
\* that owes none: a stale one, or one of a row that is not on sale.
StillWaiting(p, before, after, current) ==
    LET those == {x \in saved : x[2] = p /\ x[1] \notin muted}
    IN  IF after.stock = 0 THEN waiting \cup those
        ELSE IF current # before \/ ~after.published \/ ~after.live THEN waiting \ those ELSE waiting

SaveProduct(w, after) ==
    /\ editor[w].step = "loaded"
    /\ LET p == editor[w].product
       IN  /\ product' = [product EXCEPT ![p] = after]
           /\ waiting' = StillWaiting(p, editor[w].before, after, product[p])
           /\ Missing({})
           /\ editor' = [editor EXCEPT ![w] = [step |-> "saved", product |-> p, before |-> editor[w].before, after |-> after]]
    /\ UNCHANGED <<saved, muted>> /\ UNCHANGED reviewVars

\* Mutant: only a lower price is news.
PriceOnly(before, after) == after.published /\ after.price < before.price /\ after.stock > 0

News(before, after) ==
    /\ after.published
    /\ (before.stock = 0 /\ after.stock > 0) \/ (after.price < before.price /\ after.stock > 0)

\* The alert goes to those who have saved it by now.  When a query or the
\* sender fails nobody is told, and the edit stands.
NotifyProductChange(w, sent) ==
    /\ editor[w].step = "saved"
    /\ UNCHANGED <<product, saved, muted>> /\ UNCHANGED reviewVars
    /\ LET p == editor[w].product
           owed == {x \in waiting : /\ x[2] = p /\ product[p].stock # 0
                                    /\ News(editor[w].before, editor[w].after)}
       IN  /\ waiting' = IF sent THEN waiting \ owed ELSE waiting
           /\ Missing(owed)
    /\ editor' = [editor EXCEPT ![w] = Idle]

\* A cancelled order puts stock back without an alert.
Order(p) ==
    /\ product' = [product EXCEPT ![p].stock = 1 - @]
    /\ waiting' = StillWaiting(p, None, product'[p], product[p])
    /\ Missing({})
    /\ UNCHANGED <<saved, muted, editor>> /\ UNCHANGED reviewVars

DeleteProduct(p) ==
    /\ product[p].live
    /\ product' = [product EXCEPT ![p].live = FALSE]
    /\ waiting' = {x \in waiting : x[2] # p}
    /\ Missing({})
    /\ UNCHANGED <<saved, muted, editor>> /\ UNCHANGED reviewVars

-----------------------------------------------------------------------------
ReviewStep ==
    \/ \E w \in Workers, u \in Users, p \in Products :
          Delete(w, u, p) \/ (\E s \in Stars : Upsert(w, u, p, s)) \/ (\E b \in BOOLEAN : SetHidden(w, u, p, b))
    \/ \E w \in Workers : SeeProduct(w) \/ UpdateProductRating(w) \/ SeeMerchant(w) \/ Commit(w) \/ Rollback(w)
    \/ \E u \in Users, p \in Products : Reply(u, p) \/ Deliver(u, p)

ShopStep ==
    \/ \E u \in Users, p \in Products : Add(u, p) \/ Remove(u, p)
    \/ \E u \in Users : Mute(u)
    \/ \E w \in Workers, p \in Products : LoadProduct(w, p)
    \/ \E w \in Workers, after \in Product : SaveProduct(w, after)
    \/ \E w \in Workers, sent \in BOOLEAN : NotifyProductChange(w, sent)
    \/ \E p \in Products : Order(p) \/ DeleteProduct(p)

CatalogNext == ReviewStep \/ ShopStep
CatalogSpec == CatalogInit /\ [][CatalogNext]_catalogVars

-----------------------------------------------------------------------------
(* Properties *)

(* recomputeRatings "refreshes the aggregates on the product and its merchant *)
(* from the visible reviews" (review_service.go:344): unless the last change  *)
(* of a product's or a merchant's reviews overlapped another, the rating      *)
(* columns are what the product's page computes, and a merchant's count is    *)
(* the length of its feed.                                                    *)
RatingsAgree ==
    /\ \A p \in Products \ raced : rating[p] = ListForProduct(p)
    /\ \A m \in Merchants \ raced : rating[m].count = Cardinality(ListForMerchant(m))
    /\ \A m \in Merchants \ raced :
        rating[m].sum = Sum([p \in Products |-> ListForProduct(p).sum], {p \in Products : MerchantOf[p] = m})

(* NotifyProductChange "tells everyone who saved it about the good news: back *)
(* in stock" (wishlist_service.go:84): a user who has saved a product that    *)
(* is out of stock, and is not muted, is alerted by the edit that puts it     *)
(* back on sale, unless that alert failed ("Best-effort", :86) and none has   *)
(* come since; what the wishlist shows is what a lookup and a search find.    *)
SaversAreTold ==
    /\ \A x \in waiting \ missed :
          product[x[2]].stock = 0 \/ \E w \in Workers : editor[w].step = "saved" /\ editor[w].product = x[2]
    /\ \A x \in saved \ waiting : product[x[2]].stock = 0 /\ product[x[2]].live => x[1] \in muted
    /\ \A u \in Users : List(u) = Lookup({p \in Products : <<u, p>> \in saved}) /\ List(u) \subseteq SearchProducts(FALSE, 2)
=============================================================================

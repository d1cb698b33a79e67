------------------------------ MODULE Listing ------------------------------
(***************************************************************************)
(* A visitor leafs through a list of products: ProductsService.list (the   *)
(* shop) and listForAdmin (the back-office). Each page is a request of its *)
(* own: the filter is computed again, and the database is free in the      *)
(* order of rows the ORDER BY does not tell apart.                         *)
(*                                                                         *)
(* A product is a record: on (ACTIVE), category, brand, ages (a pair),     *)
(* gender, price, promo (it has a promoPrice), stock (Product.stock),      *)
(* available (of the variant that has most, or of a product without any:   *)
(* pieces less those reserved), low (stock <= alertThreshold), sold (units *)
(* in orders that are not CANCELLED), rating (average of the approved      *)
(* reviews, or 0), created, updated, rank (how many products the engine    *)
(* places before it), and words, what its name and sku contain.            *)
(***************************************************************************)
EXTENDS Integers, Sequences, FiniteSets

CONSTANTS
  Unset,      \* the value of a filter that is not asked for
  Parent,     \* the parent of each category, or Unset
  Catalogues, \* the catalogues to leaf through: functions from products to records
  Queries,    \* the requests of the shop
  Desks,      \* the requests of the back-office: [category, status, lowStock, q]
  Promotions, \* the active promotions: [categories, brands, store]
  Limit,      \* products on a page
  MaxRanked   \* products the engine answers with, or the sales rank, at most

Ages == Int \X Int

(* QueryProductsDto: ages are whole numbers.                               *)
ListingAssumption ==
  /\ Limit \in Nat \ {0} /\ MaxRanked \in Nat
  /\ IsFiniteSet(DOMAIN Parent)
  /\ \A c \in Catalogues :
       IsFiniteSet(DOMAIN c) /\ \A p \in DOMAIN c : c[p].ages \in Ages /\ c[p].rank \in Nat
  /\ Unset \notin Ages /\ \A q \in Queries : q.ages \in Ages \cup {Unset}

VARIABLES
  catalogue, \* the products
  active,    \* the promotions of the moment
  engine,    \* the search engine answers
  query,     \* the filters and the sort of the visitor
  page,      \* pages seen
  seen,      \* the products shown, in the order of the pages
  total      \* what the last answer said of their number

vars == <<catalogue, active, engine, query, page, seen, total>>

Product == DOMAIN catalogue

Init ==
  /\ catalogue \in Catalogues /\ active \in Promotions /\ engine \in BOOLEAN
  /\ query \in Queries \cup Desks
  /\ page = 0 /\ seen = <<>> /\ total = 0

-----------------------------------------------------------------------------
(* The filter. A condition of Prisma's where is a set of products.         *)
Where(cond(_)) == {p \in Product : cond(catalogue[p])}

(* The category and all below it: the loop goes down one level at a time,  *)
(* until a level is empty. Nothing keeps a category from being made its    *)
(* own ancestor; then no level is, and the request never ends.             *)
Levels(c) ==
  LET level[k \in Nat] == IF k = 0 THEN {c} ELSE {d \in DOMAIN Parent : Parent[d] \in level[k - 1]}
  IN  level
Depth == Cardinality(DOMAIN Parent)
MutCategoryIds(c) == {c}
CategoryIds(c) == UNION {Levels(c)[k] : k \in 0 .. Depth}
Ends(c) == Levels(c)[Depth] = {}

(* Meilisearch answers with the active products that have the word, the    *)
(* first MaxRanked of them; when it does not answer, the same is asked of  *)
(* the database.                                                           *)
HasWord(q) == {p \in Product : q \in catalogue[p].words}
rankedIds  == {p \in HasWord(query.q) : catalogue[p].on /\ catalogue[p].rank < MaxRanked}

(* The MaxRanked products that sold best. (Of those that sold as much as   *)
(* the last of them, the database takes any; here all are in it.)          *)
bestsellerIds ==
  LET Sold == {p \in Product : catalogue[p].sold > 0}
      Better(p) == {o \in Sold : catalogue[o].sold > catalogue[p].sold}
  IN  {p \in Sold : Cardinality(Better(p)) < MaxRanked}

(* A promotion of the whole shop needs no filter: every price is cut.      *)
OnPromotion(r) ==
  r.promo \/ r.category \in active.categories \/ r.brand \in active.brands

(* The ids of the engine and those of the sales are one field of the       *)
(* filter: the latter are written last.                                    *)
Ids ==
  IF query.sort = "bestsellers" /\ bestsellerIds # {} THEN bestsellerIds
  ELSE IF query.q # Unset /\ engine THEN rankedIds
  ELSE Product
Words == IF query.q # Unset /\ ~engine THEN HasWord(query.q) ELSE Product

ShopWhere ==
  LET Fits(r) ==
        /\ r.on
        /\ query.category = Unset \/ r.category \in CategoryIds(query.category)
        /\ query.brand = Unset \/ r.brand = query.brand
        /\ query.ages = Unset \/ (r.ages[2] >= query.ages[1] /\ r.ages[1] <= query.ages[2])
        /\ (query.promoOnly /\ ~active.store) => OnPromotion(r)
        /\ query.inStockOnly => r.stock > 0
        /\ query.gender \in {Unset, r.gender} \/ r.gender = "UNISEX"
        /\ query.priceMin = Unset \/ r.price >= query.priceMin
        /\ query.priceMax = Unset \/ r.price <= query.priceMax
  IN  Where(Fits) \cap Ids \cap Words

DeskWhere ==
  LET Fits(r) ==
        /\ query.category = Unset \/ r.category = query.category
        /\ query.status = Unset \/ r.on = (query.status = "ACTIVE")
        /\ query.lowStock => r.low
        /\ query.q = Unset \/ query.q \in r.words
  IN  Where(Fits)

Shop     == query \in Queries
Filtered == IF Shop THEN ShopWhere ELSE DeskWhere

-----------------------------------------------------------------------------
(* The order. Rows it does not tell apart come in any order, in every      *)
(* request anew.                                                           *)
UsesRelevance ==
  query.q # Unset /\ engine /\ rankedIds # {} /\ query.sort \in {Unset, "relevance"}

Before(p, q) ==
  LET a == catalogue[p]  b == catalogue[q]
  IN  IF ~Shop THEN a.updated > b.updated
      ELSE CASE query.sort = "price_asc"  -> a.price < b.price
             [] query.sort = "price_desc" -> a.price > b.price
             [] query.sort = "bestsellers" /\ bestsellerIds # {} -> a.sold > b.sold
             [] query.sort = "rating" -> a.rating > b.rating \/ (a.rating = b.rating /\ a.created > b.created)
             [] UsesRelevance -> a.rank < b.rank
             [] OTHER -> a.created > b.created

Arrangements(S) ==
  {s \in [1 .. Cardinality(S) -> S] :
     \A i, j \in DOMAIN s : i < j => s[i] # s[j] /\ ~Before(s[j], s[i])}

Cut(s, n) == SubSeq(s, 1, IF n < Len(s) THEN n ELSE Len(s))
MutSlice(s, k) == SubSeq(Cut(s, k * Limit + 1), (k - 1) * Limit + 1, Len(Cut(s, k * Limit + 1)))
Slice(s, k)    == SubSeq(Cut(s, k * Limit), (k - 1) * Limit + 1, Len(Cut(s, k * Limit)))
totalPages  == (total + Limit - 1) \div Limit

(* The next page of the list.                                              *)
NextPage ==
  /\ page = 0 \/ page < totalPages
  /\ Shop /\ query.category # Unset => Ends(query.category)
  /\ page' = page + 1
  /\ \E s \in Arrangements(Filtered) : seen' = seen \o Slice(s, page + 1)
  /\ total' = Cardinality(Filtered)
  /\ UNCHANGED <<catalogue, active, engine, query>>

Next == NextPage
Spec == Init /\ [][Next]_vars

-----------------------------------------------------------------------------
TypeOK ==
  /\ seen \in Seq(Product) /\ page \in Nat /\ total \in Nat
  /\ query \in Queries \cup Desks /\ engine \in BOOLEAN

(* c is d or below it: it is in every set that has d and, with a category, *)
(* the children of it.                                                     *)
Below(c, d) ==
  \A U \in SUBSET (DOMAIN Parent \cup {d}) :
    d \in U /\ (\A e \in DOMAIN Parent : Parent[e] \in U => e \in U) => c \in U

(* What the visitor asked for, filter by filter, whoever answers.          *)
Wanted ==
  IF ~Shop THEN DeskWhere
  ELSE {p \in Product :
          LET r == catalogue[p]
          IN  /\ r.on
              /\ query.category = Unset \/ Below(r.category, query.category)
              /\ query.brand = Unset \/ r.brand = query.brand
              /\ query.ages = Unset \/ \E a \in query.ages[1] .. query.ages[2] : a \in r.ages[1] .. r.ages[2]
              /\ query.promoOnly => OnPromotion(r) \/ active.store
              /\ query.inStockOnly => r.available > 0
              /\ query.gender = Unset \/ r.gender \in {query.gender, "UNISEX"}
              /\ query.priceMin = Unset \/ r.price >= query.priceMin
              /\ query.priceMax = Unset \/ r.price <= query.priceMax
              /\ query.q = Unset \/ query.q \in r.words}

(* The best sellers are those that were sold, unless nothing was.          *)
Expected ==
  IF Shop /\ query.sort = "bestsellers" /\ bestsellerIds # {} THEN Wanted \cap bestsellerIds ELSE Wanted

(* The order does not tell two of them apart, and the database divides the *)
(* pages, or says which of those that sold as much are among the best.     *)
Tied ==
  \/ \E p, q \in Filtered : p # q /\ ~Before(p, q) /\ ~Before(q, p)
  \/ Shop /\ query.sort = "bestsellers" /\ Cardinality(bestsellerIds) > MaxRanked

(* The filter of the engine is lost in the list of the best sellers, and a *)
(* product that fits, in the list of a word that many have.                *)
LosesWords ==
  /\ Shop /\ query.q # Unset /\ engine
  /\ \/ query.sort = "bestsellers" /\ bestsellerIds # {}
     \/ \E p \in HasWord(query.q) : catalogue[p].on /\ catalogue[p].rank >= MaxRanked

(* A range of ages that ends before it begins: no DTO refuses it.          *)
Reversed ==
  /\ Shop /\ query.ages # Unset
  /\ \/ query.ages[1] > query.ages[2]
     \/ \E p \in Product : catalogue[p].ages[1] > catalogue[p].ages[2]

(* What is in stock is asked of Product.stock, which nobody updates for a  *)
(* product with variants and which counts the reserved pieces: these are   *)
(* shown though sold out, or missed though available.                      *)
StaleStock ==
  {p \in Product : Shop /\ query.inStockOnly
                     /\ (catalogue[p].stock > 0) # (catalogue[p].available > 0)}

(* A visitor who leafs through to the last page has seen every product     *)
(* that fits all his filters, each once and no other, with or without the  *)
(* engine: the filters of list() go to one where, and ranked lists are cut *)
(* by hand. (Whether a product of StaleStock is in a list of those in      *)
(* stock, nothing says; if it is, it is there once.)                       *)
EveryMatchOnce ==
  LET Shown == {seen[i] : i \in DOMAIN seen}
  IN  page > 0 /\ page >= totalPages /\ ~Tied /\ ~LosesWords /\ ~Reversed =>
        /\ Shown \ StaleStock = Expected \ StaleStock
        /\ Len(seen) = Cardinality(Shown) /\ total = Len(seen)
=============================================================================

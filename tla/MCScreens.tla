----------------------------- MODULE MCScreens ------------------------------
(***************************************************************************)
(* A small instance of Sites for TLC.                                      *)
(***************************************************************************)
EXTENDS Sites, TLC

(* Every component of the two sites, one further question, two clicks, one *)
(* call without an answer.                                                 *)
MCParts == Door!Shop!ShopParts \cup Door!Admin!AdminParts

-----------------------------------------------------------------------------
(* Three products in three levels of categories, on pages of one product,  *)
(* and a category that is its own parent. A variant of p1 is available,    *)
(* and p3 is sold out in one catalogue, whatever Product.stock says.       *)
Row(category, ages, gender, price, promo, stock, available, sold, rating, k, words) ==
  [on |-> TRUE, category |-> category, brand |-> "b", ages |-> ages, gender |-> gender, price |-> price,
   promo |-> promo, stock |-> stock, available |-> available, low |-> stock = 0, sold |-> sold, rating |-> rating,
   created |-> k, updated |-> 4 - k, rank |-> (k + 1) % 3, words |-> words]

Toys ==
  ("p1" :> Row("magnets", <<0, 2>>, "BOY", 1, FALSE, 0, 1, 0, 0, 1, {"bear"}))
  @@ ("p2" :> Row("toys", <<2, 5>>, "UNISEX", 2, TRUE, 1, 1, 2, 4, 2, {"bear", "car"}))
  @@ ("p3" :> Row("blocks", <<4, 6>>, "GIRL", 3, FALSE, 1, 1, 1, 4, 3, {"car"}))
Even  == [Toys EXCEPT !["p3"].price = 2, !["p3"].sold = 2, !["p3"].available = 0, !["p1"].on = FALSE, !["p2"].ages = <<5, 2>>]
Quiet == [p \in DOMAIN Toys |-> [Toys[p] EXCEPT !.sold = 0, !.available = @ * Toys[p].stock, !.rank = IF p = "p1" THEN 1 ELSE 0]]

MCCatalogues == {Toys, Even, Quiet}
MCParent == ("toys" :> Unset) @@ ("blocks" :> "toys") @@ ("magnets" :> "blocks") @@ ("odd" :> "odd")

MCQueries ==
  [category : {Unset, "toys", "blocks", "odd"}, brand : {Unset}, ages : {Unset, <<3, 5>>}, promoOnly : BOOLEAN,
   inStockOnly : BOOLEAN, gender : {Unset, "GIRL"}, priceMin : {Unset, 2}, priceMax : {Unset, 2}, q : {Unset, "bear"},
   sort : {Unset, "price_asc", "bestsellers", "rating"}]
MCDesks == [category : {Unset, "blocks"}, status : {Unset, "ACTIVE"}, lowStock : BOOLEAN, q : {Unset, "car"}]
MCPromotions == {[categories |-> {"blocks"}, brands |-> {}, store |-> FALSE],
                 [categories |-> {}, brands |-> {}, store |-> TRUE]}
=============================================================================

---------------------------- MODULE MCBackOffice ----------------------------
(***************************************************************************)
(* A small instance of BackOffice for TLC.                                 *)
(***************************************************************************)
EXTENDS BackOffice

CONSTANTS bear, kite, first, second, q1, q2, q3, q4, q5, q6, q7, old

-----------------------------------------------------------------------------
(* A product on sale (bear): edited, archived and reindexed while another  *)
(* one is created; or taken off sale while a sheet puts both of them on.   *)
Cell(p, status, text) == [product |-> p, status |-> status, text |-> text]
Do(op, rows) == [op |-> op, rows |-> rows]
Mix(j1, j2, j3, j4) ==
  [r \in StockRequest |-> CASE r = q1 -> j1 [] r = q2 -> j2 [] r = q3 -> j3 [] OTHER -> j4]
MCJobs ==
  { Mix(Do("update", <<Cell(bear, "ACTIVE", second)>>), Do("archive", <<Cell(bear, "ARCHIVED", second)>>),
        Do("create", <<Cell(kite, "ACTIVE", first)>>), Do("reindex", <<>>)),
    Mix(Do("update", <<Cell(bear, "INACTIVE", second)>>),
        Do("import", <<Cell(bear, "ACTIVE", first), Cell(kite, "ACTIVE", second)>>),
        Do("create", <<Cell(kite, "DRAFT", first)>>), Do("reindex", <<>>)) }
MCStocked == [p \in Product |-> IF p = bear THEN [status |-> "ACTIVE", text |-> first] ELSE None]

(* A picture is added (q1) and removed (q6) while the old one is removed   *)
(* (q2) and the list reordered (q3); a banner comes (q4), changes (q5),    *)
(* and goes (q7).                                                          *)
Wishes(op, z, list) == [op |-> op, picture |-> z, list |-> list]
MCWish == [r \in ImageRequest |->
  CASE r = q1 -> Wishes("add", r, <<>>)
    [] r = q2 -> Wishes("remove", old, <<>>)
    [] r = q3 -> Wishes("reorder", r, <<q1, old>>)
    [] r = q4 -> Wishes("banner", r, <<>>)
    [] r = q5 -> Wishes("rebanner", q4, <<>>)
    [] r = q6 -> Wishes("remove", q1, <<>>)
    [] r = q7 -> Wishes("unbanner", q4, <<>>)]

-----------------------------------------------------------------------------
(* Prices on both sides of half a dirham, a promoPrice above the base.     *)
Rules == {[type |-> "PERCENTAGE", value |-> 10], [type |-> "PERCENTAGE", value |-> 33],
          [type |-> "PERCENTAGE", value |-> 100], [type |-> "FIXED_AMOUNT", value |-> 550],
          [type |-> "FIXED_AMOUNT", value |-> 20000]}
AtMostOne == {<<>>} \cup {<<r>> : r \in Rules}
AtMostTwo == AtMostOne \cup {<<r, q>> : r, q \in Rules}

MCPriceCases ==
  [basePrice: {0, 4949, 4950, 10000}, promoPrice: {<<>>, <<4450>>, <<4949>>, <<9000>>, <<12000>>},
   category: AtMostTwo, brand: AtMostOne, store: AtMostOne]

(* Baskets below, at and above the threshold of free delivery, and one     *)
(* with centimes.                                                          *)
Coupons == {[type |-> "NONE", value |-> 0], [type |-> "FREE_SHIPPING", value |-> 0],
            [type |-> "FIXED_AMOUNT", value |-> 3000],
            [type |-> "PERCENTAGE", value |-> 15], [type |-> "PERCENTAGE", value |-> 100]}

MCAmountCases ==
  [subtotal: {1000, 1050, 3000, 20000, 30000}, coupon: Coupons, usePoints: BOOLEAN,
   balance: {0, 7, 25, 4000}, redeemRate: {0, 1, 10}, fee: {0, 3500},
   threshold: {20000}, vatRate: {0, 100, 200}]
=============================================================================

------------------------------- MODULE Quotes -------------------------------
(***************************************************************************)
(* The price engine and the amounts of a checkout: a behaviour is one      *)
(* question asked of Pricing, and nothing happens to it.                   *)
(***************************************************************************)
EXTENDS Pricing

CONSTANTS
  PriceCases,  \* a product's price and the offers of the moment
  AmountCases  \* a basket, its coupon, the customer's points, the settings

VARIABLE in

Rule == [type: {"PERCENTAGE", "FIXED_AMOUNT"}, value: Nat]

(* What the columns and DTOs allow; a price has at most one promoPrice.    *)
PriceInput ==
  [basePrice: Nat, promoPrice: Seq(Nat), category: Seq(Rule), brand: Seq(Rule), store: Seq(Rule)]
AmountInput ==
  [subtotal: Nat, coupon: [type: {"NONE", "FREE_SHIPPING", "FIXED_AMOUNT", "PERCENTAGE"}, value: Nat],
   usePoints: BOOLEAN, balance: Nat, redeemRate: Nat, fee: Nat, threshold: Nat, vatRate: Nat]

(* assertValidValue of the coupons: a percentage is at most 100.           *)
QuotesAssumption ==
  /\ \A q \in PriceCases : q \in PriceInput /\ Len(q.promoPrice) <= 1
  /\ \A q \in AmountCases :
       /\ q \in AmountInput
       /\ q.coupon.type = "PERCENTAGE" => q.coupon.value <= 100

Init == in \in PriceCases \cup AmountCases
Next == UNCHANGED in
Spec == Init /\ [][Next]_in

-----------------------------------------------------------------------------
Price(base, promo, category, brand, store) ==
  resolveEffectivePrice(base, promo, category, brand, store).price

Priority(source) ==
  CASE source = "BASE" -> 1
    [] source = "PRODUCT_PROMO" -> 2
    [] source = "CATEGORY_PROMOTION" -> 3
    [] source = "BRAND_PROMOTION" -> 4
    [] source = "STORE_PROMOTION" -> 5

(* The offer that wins is as cheap as any, and of the sources that are as  *)
(* cheap it is the first: the store is the least of them.                  *)
CheapestAndFirst ==
  LET result == resolveEffectivePrice(in.basePrice, in.promoPrice, in.category,
                                      in.brand, in.store)
      offers == Candidates(in.basePrice, in.promoPrice, in.category, in.brand, in.store)
  IN  \A i \in DOMAIN offers :
        /\ result.price <= offers[i].price
        /\ offers[i].price = result.price
             => Priority(result.source) <= Priority(offers[i].source)

(* Offers never add up: together they cost what the best of them costs     *)
(* alone, and a price struck through is one nobody pays.                   *)
OffersNeverCumulate ==
  LET b == in.basePrice
      all == resolveEffectivePrice(b, in.promoPrice, in.category, in.brand, in.store)
      alone == {Price(b, <<>>, <<>>, <<>>, <<>>), Price(b, in.promoPrice, <<>>, <<>>, <<>>)}
               \cup {Price(b, <<>>, <<in.category[i]>>, <<>>, <<>>) : i \in DOMAIN in.category}
               \cup {Price(b, <<>>, <<>>, <<in.brand[i]>>, <<>>) : i \in DOMAIN in.brand}
               \cup {Price(b, <<>>, <<>>, <<>>, <<in.store[i]>>) : i \in DOMAIN in.store}
  IN  /\ all.price \in alone
      /\ \A p \in alone : all.price <= p
      /\ all.compareAtPrice # <<>> => all.compareAtPrice[1] > all.price

(* resolveEffectivePrice: the best offer wins, and offers never add up.    *)
BestOfferWins == in \in PriceCases => CheapestAndFirst /\ OffersNeverCumulate

-----------------------------------------------------------------------------
Paid == checkoutAmounts(in)

(* A percentage of a basket with centimes (only the price of a variant has *)
(* them) may be rounded above the basket, by half a dirham at most.        *)
Centimes == in.coupon.type = "PERCENTAGE" /\ in.subtotal % 100 # 0
Excess   == IF Centimes THEN 50 ELSE 0

(* The points that pay never exceed the balance, are worth what they pay,  *)
(* and pay only for products, after the coupon.                            *)
PointsPayProductsOnly ==
  /\ Paid.pointsToRedeem <= 100 * in.balance
  /\ Paid.pointsToRedeem = Paid.loyaltyDiscount * in.redeemRate
  /\ Paid.loyaltyDiscount > 0 => Paid.discount + Paid.loyaltyDiscount <= in.subtotal
  /\ Paid.discount <= in.subtotal + Excess

(* The amounts of an order add up (but for that excess the clamp at zero   *)
(* hides no difference), and its VAT is the share of the total at the      *)
(* rate, to half a dirham.                                                 *)
SumAndTax ==
  LET sum == in.subtotal - Paid.discount - Paid.loyaltyDiscount + Paid.fee
      gap == Paid.vatAmount * (1000 + in.vatRate) - Paid.total * in.vatRate
  IN  /\ sum <= Paid.total /\ Paid.total <= sum + Excess
      /\ gap <= 50 * (1000 + in.vatRate)
      /\ -gap <= 50 * (1000 + in.vatRate)

(* checkout: discount, points, delivery and VAT add up.                    *)
TotalAddsUp == in \in AmountCases => PointsPayProductsOnly /\ SumAndTax
=============================================================================

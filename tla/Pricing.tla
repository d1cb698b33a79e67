------------------------------- MODULE Pricing -------------------------------
(***************************************************************************)
(* The pure money functions of the API: the effective price of a product,  *)
(* the coupon discount, the loyalty redemption, the VAT share of a total,  *)
(* the delivery fee and the total of an order.                             *)
(*                                                                         *)
(* Amounts are integers, in centimes: the columns are Decimal(10, 2).      *)
(* Math.round rounds to the dirham, i.e. to 100 centimes, halves upwards.  *)
(* A percentage is a whole number, a VAT rate a number of thousandths      *)
(* (Decimal(4, 3)), loyalty points are counted in hundredths of a point    *)
(* because pointsToRedeem is a product of two JavaScript numbers.          *)
(***************************************************************************)
EXTENDS Integers, Sequences

Smaller(a, b) == IF a <= b THEN a ELSE b
Larger(a, b)  == IF a >= b THEN a ELSE b

(* Math.round of n / d dirhams, in centimes. *)
RoundToDirham(n, d) == 100 * ((2 * n + d) \div (2 * d))

-----------------------------------------------------------------------------
(* effective-price.util.ts. The base price has already been rounded.       *)
applyRule(basePrice, rule) ==
  Larger(0, IF rule.type = "PERCENTAGE"
            THEN RoundToDirham(100 * basePrice - basePrice * rule.value, 10000)
            ELSE RoundToDirham(basePrice - rule.value, 100))

Candidate(price, source) == [price |-> price, source |-> source]

(* The promotions are taken off the product's own promotional price.       *)
MutCandidates(basePrice, promoPrice, category, brand, store) ==
  LET base == RoundToDirham(basePrice, 100)
      own  == IF promoPrice = <<>> THEN base ELSE RoundToDirham(promoPrice[1], 100)
      RulePrices(rules, source) ==
        [i \in DOMAIN rules |-> Candidate(applyRule(own, rules[i]), source)]
  IN  <<Candidate(base, "BASE")>>
      \o [i \in DOMAIN promoPrice |-> Candidate(own, "PRODUCT_PROMO")]
      \o RulePrices(category, "CATEGORY_PROMOTION")
      \o RulePrices(brand, "BRAND_PROMOTION")
      \o RulePrices(store, "STORE_PROMOTION")

(* The candidates in the order in which the code appends them: the base    *)
(* price, the product's own promoPrice (a sequence of at most one amount), *)
(* then the category, brand and store promotions.                          *)
Candidates(basePrice, promoPrice, category, brand, store) ==
  LET base == RoundToDirham(basePrice, 100)
      RulePrices(rules, source) ==
        [i \in DOMAIN rules |-> Candidate(applyRule(base, rules[i]), source)]
  IN  <<Candidate(base, "BASE")>>
      \o [i \in DOMAIN promoPrice |->
            Candidate(RoundToDirham(promoPrice[i], 100), "PRODUCT_PROMO")]
      \o RulePrices(category, "CATEGORY_PROMOTION")
      \o RulePrices(brand, "BRAND_PROMOTION")
      \o RulePrices(store, "STORE_PROMOTION")

(* The last of the cheapest.                                               *)
MutFirstCheapest(cands) ==
  CHOOSE i \in DOMAIN cands :
    \A j \in DOMAIN cands :
      /\ cands[i].price <= cands[j].price
      /\ cands[i].price = cands[j].price => i >= j

(* The scan replaces the best candidate only by a strictly cheaper one:    *)
(* it stops on the first of the cheapest.                                  *)
FirstCheapest(cands) ==
  CHOOSE i \in DOMAIN cands :
    \A j \in DOMAIN cands :
      /\ cands[i].price <= cands[j].price
      /\ cands[i].price = cands[j].price => i <= j

(* compareAtPrice is the empty sequence when the code returns null.        *)
resolveEffectivePrice(basePrice, promoPrice, category, brand, store) ==
  LET cands == Candidates(basePrice, promoPrice, category, brand, store)
      best  == cands[FirstCheapest(cands)]
  IN  [price          |-> best.price,
       compareAtPrice |-> IF best.price < cands[1].price
                          THEN <<cands[1].price>> ELSE <<>>,
       source         |-> best.source]

-----------------------------------------------------------------------------
(* coupon-discount.util.ts. FREE_SHIPPING leaves the subtotal alone.       *)
calculateCouponDiscount(subtotal, coupon) ==
  IF coupon.type = "PERCENTAGE" THEN RoundToDirham(subtotal * coupon.value, 10000)
  ELSE IF coupon.type = "FIXED_AMOUNT" THEN Smaller(coupon.value, subtotal)
  ELSE 0

(* Forgets the coupon: the points pay for what it already took off.        *)
MutCalculateLoyaltyRedemption(subtotal, couponDiscount, pointsBalance, redeemRate) ==
  LET discount == Smaller(100 * (pointsBalance \div redeemRate), subtotal)
  IN  IF redeemRate <= 0
      THEN [loyaltyDiscount |-> 0, pointsToRedeem |-> 0]
      ELSE [loyaltyDiscount |-> discount, pointsToRedeem |-> discount * redeemRate]

(* order-pricing.util.ts. A rate of zero redeems nothing.                  *)
calculateLoyaltyRedemption(subtotal, couponDiscount, pointsBalance, redeemRate) ==
  LET affordable == 100 * (pointsBalance \div redeemRate)
      discount   == Smaller(affordable, Larger(0, subtotal - couponDiscount))
  IN  IF redeemRate <= 0
      THEN [loyaltyDiscount |-> 0, pointsToRedeem |-> 0]
      ELSE [loyaltyDiscount |-> discount, pointsToRedeem |-> discount * redeemRate]

(* Takes the rate off the price with the tax in it.                        *)
MutCalculateVat(total, vatRate) == RoundToDirham(total * vatRate, 100000)

(* total - total / (1 + vatRate), rounded; vatRate in thousandths.         *)
calculateVat(total, vatRate) ==
  RoundToDirham(total * vatRate, 100 * (1000 + vatRate))

(* The points credited at delivery: one per 10 dirhams of products.        *)
earnedPoints(subtotal, discount) == (subtotal - discount) \div 1000

-----------------------------------------------------------------------------
(* orders.service.ts, checkout. The city's own free-delivery threshold,    *)
(* then its group's, then the global one; a threshold is a sequence of at  *)
(* most one amount, empty when the column is null.                         *)
freeFrom(city, group, global) ==
  CASE city # <<>>  -> city[1]
    [] group # <<>> -> group[1]
    [] OTHER        -> global

shippingFee(fee, threshold, subtotal, coupon) ==
  IF subtotal >= threshold \/ coupon.type = "FREE_SHIPPING" THEN 0 ELSE fee

(* What checkout charges: the amounts it writes in the order.              *)
checkoutAmounts(in) ==
  LET discount   == calculateCouponDiscount(in.subtotal, in.coupon)
      fee        == shippingFee(in.fee, in.threshold, in.subtotal, in.coupon)
      redemption == IF in.usePoints /\ in.balance > 0
                    THEN calculateLoyaltyRedemption(in.subtotal, discount,
                                                    in.balance, in.redeemRate)
                    ELSE [loyaltyDiscount |-> 0, pointsToRedeem |-> 0]
      total      == Larger(0, in.subtotal - discount
                                - redemption.loyaltyDiscount + fee)
  IN  [discount |-> discount, fee |-> fee, total |-> total,
       loyaltyDiscount |-> redemption.loyaltyDiscount,
       pointsToRedeem  |-> redemption.pointsToRedeem,
       vatAmount       |-> calculateVat(total, in.vatRate)]
=============================================================================

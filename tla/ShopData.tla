------------------------------ MODULE ShopData ------------------------------
(***************************************************************************)
(* The data every order-related module shares: carts, stock-keeping units, *)
(* customers, the one coupon of the model, and the lines of a cart.        *)
(*                                                                         *)
(* A Sku is a row of "ProductVariant", or of "Product" for a product       *)
(* without variants: the two branches of reserveStock, releaseReservation  *)
(* and deductOnDelivery do the same to one or the other.                   *)
(***************************************************************************)
EXTENDS Pricing, FiniteSets

CONSTANTS
  Cart,        \* carts, each one kept for ever on its ownerToken
  Sku,         \* rows that hold stock
  Customer,    \* customers, each with its loyalty account
  CustomerOf,  \* the customer a checkout of this cart resolves to
  MaxQty,      \* bound: pieces of one Sku in a cart
  Subtotal,    \* the price engine: what the lines of a cart cost, in centimes
  RedeemRate,  \* points for one dirham
  Coupon,      \* [type, value, minCartAmount, maxUses, maxUsesPerCustomer]
  NoLimit      \* the maxUses of a coupon that has none (NULL)

Lines == [Sku -> 0..MaxQty]

ASSUME DataAssumption ==
  /\ Sku # {}
  /\ MaxQty \in Nat
  /\ CustomerOf \in [Cart -> Customer]
  /\ RedeemRate \in Nat
  /\ NoLimit \notin Nat
  /\ Coupon.value \in Nat /\ Coupon.minCartAmount \in Nat
  /\ Coupon.maxUses \in Nat \cup {NoLimit}
  /\ Coupon.maxUsesPerCustomer \in Nat

(* Prices are whole dirhams here: module Pricing looks at the others.      *)
ASSUME SubtotalAssumption ==
  /\ Subtotal \in [Lines -> Nat]
  /\ \A l \in Lines : Subtotal[l] % 100 = 0

NoLines == [s \in Sku |-> 0]

SkusOf(l) == {s \in Sku : l[s] > 0}

CouponDiscount(l, useCoupon) ==
  IF useCoupon THEN calculateCouponDiscount(Subtotal[l], Coupon) ELSE 0

(* pointsToRedeem of a checkout, in whole points.                          *)
PointsToRedeem(l, useCoupon, balance) ==
  IF balance > 0
  THEN calculateLoyaltyRedemption(Subtotal[l], CouponDiscount(l, useCoupon),
                                  balance, RedeemRate).pointsToRedeem \div 100
  ELSE 0

(* An order, as far as the books need it. filling and activation are       *)
(* history: how many times the cart had been emptied and reopened when the *)
(* lines were read, and when the order was committed.                      *)
Order == [cart: Cart, customer: Customer, lines: Lines, coupon: BOOLEAN,
          points: Nat, filling: Nat, activation: Nat,
          phase: {"open", "delivered", "cancelled"}]

Earned(o) == LET e == earnedPoints(Subtotal[o.lines], CouponDiscount(o.lines, o.coupon))
             IN  IF e > 0 THEN e ELSE 0

(* stock - reservedStock covers every line.                                *)
Covers(stock, reserved, l) == \A s \in Sku : l[s] <= stock[s] - reserved[s]

Plus(f, l)  == [s \in Sku |-> f[s] + l[s]]
Minus(f, l) == [s \in Sku |-> f[s] - l[s]]

(* The numbers of the orders that redeemed the coupon: CouponRedemption.   *)
CouponOrders(orders) == {n \in DOMAIN orders : orders[n].coupon}
RedeemedBy(orders, k) == {n \in CouponOrders(orders) : orders[n].customer = k}
=============================================================================

----------------------------- MODULE MCCheckout -----------------------------
(***************************************************************************)
(* Small shops for TLC: prices, carts and requests for the runs of         *)
(* Checkout.                                                               *)
(***************************************************************************)
EXTENDS Checkout, FiniteSetsExt

CONSTANTS c1, c2, c3, c4, c5, s1, s2, k1, k2, k3, r1, r2, r3, r4, r5

(* Twenty dirhams for a piece of s1, ten for a piece of s2.                *)
MCSubtotal ==
  [l \in Lines |-> MapThenSumSet(LAMBDA s : l[s] * (IF s = s1 THEN 2000 ELSE 1000), Sku)]

(* Two dirhams off from twenty on, twice in all and once per customer.     *)
MCCoupon == [type |-> "FIXED_AMOUNT", value |-> 200, minCartAmount |-> 2000,
             maxUses |-> 2, maxUsesPerCustomer |-> 1]

OneCustomer == [c \in Cart |-> k1]
ThreeCustomers == [c \in Cart |-> CASE c = c4 -> k2 [] c = c5 -> k3 [] OTHER -> k1]

SameCart == [r \in Request |-> c1]
TwoCarts == [r \in Request |-> IF r = r2 THEN c2 ELSE c1]
OwnCart  == [r \in Request |-> CASE r = r1 -> c1 [] r = r2 -> c2 [] r = r3 -> c3 [] r = r4 -> c4 [] OTHER -> c5]

(* A double click (r1, r2) while the browser reloads the cart (r3) and     *)
(* another tab adds a line to it (r4).                                     *)
ClickKind == [r \in Request |-> CASE r = r3 -> "view" [] r = r4 -> "add" [] OTHER -> "checkout"]
AllCheckout == [r \in Request |-> "checkout"]

(* Three checkouts while another tab adds a line (r4).                     *)
RivalKind == [r \in Request |-> IF r = r4 THEN "add" ELSE "checkout"]
AddsS1 == [r \in Request |-> s1]
AddsS2 == [r \in Request |-> s2]
AllRedeem == [r \in Request |-> TRUE]

ActiveCarts == [c \in Cart |-> "ACTIVE"]
OneOfS1 == [c \in Cart |-> [s \in Sku |-> IF s = s1 THEN 1 ELSE 0]]
OwnProduct == [c \in Cart |-> [s \in Sku |-> IF (c = c1) = (s = s1) THEN 1 ELSE 0]]
OneOfEach == [c \in Cart |-> [s \in Sku |-> 1]]
CouponOnMost == [c \in Cart |-> c # c3]
CouponOff == [c \in Cart |-> FALSE]
LastS1 == [s \in Sku |-> IF s = s1 THEN 1 ELSE 2]
TwoOfEach == [s \in Sku |-> 2]
FiveOfEach == [s \in Sku |-> 5]
ThreePoints == [k \in Customer |-> 3]

(* Tally is the sum of the community modules, on small functions.          *)
ASSUME TallyIsSum ==
  \A f \in [1..3 -> 0..2] : \A S \in SUBSET (1..3) :
    Tally(S, f) = MapThenSumSet(LAMBDA n : f[n], S)
=============================================================================

SPECIFICATION Spec
CONSTANTS
  c1 = c1
  c2 = c2
  c3 = c3
  c4 = c4
  c5 = c5
  s1 = s1
  s2 = s2
  k1 = k1
  k2 = k2
  k3 = k3
  r1 = r1
  r2 = r2
  r3 = r3
  r4 = r4
  r5 = r5
  NoLimit = NoLimit
  MaxQty = 2
  RedeemRate = 1
  Coupon <- MCCoupon
  Subtotal <- MCSubtotal
  UsePoints <- AllRedeem
  Balance0 <- ThreePoints
  Cart = {c1}
  Customer = {k1}
  Sku = {s1, s2}
  CustomerOf <- OneCustomer
  Request = {r1, r2, r3, r4}
  CartOf <- SameCart
  Kind <- ClickKind
  SkuAdded <- AddsS2
  Status0 <- ActiveCarts
  Lines0 <- OneOfS1
  CouponOn0 <- CouponOff
  Stock0 <- TwoOfEach
INVARIANTS
  OneOrderPerFilling

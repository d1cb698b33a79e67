------------------------------ MODULE OrderBook ------------------------------
(***************************************************************************)
(* What the shop promises about its orders, with no request, no lock and   *)
(* no transaction in sight: placing an order, delivering it or cancelling  *)
(* it is one atomic step that is allowed only while the cart is open, the  *)
(* stock covers the lines, the coupon has uses left and the customer has   *)
(* the points; each order is settled at most once, and the books change by *)
(* exactly what the order says. Checkout implements this module.           *)
(***************************************************************************)
EXTENDS ShopData

VARIABLES
  open,      \* open[c]: the cart may be ordered
  activation,\* activation[c]: how many times the cart was reopened
  stock,     \* stock[s]: pieces on the shelves
  reserved,  \* reserved[s]: pieces promised to open orders
  used,      \* times the coupon was used
  balance,   \* balance[k]: loyalty points
  last,      \* the last order number given
  orders     \* orders[n], for n in 1..last

vars == <<open, activation, stock, reserved, used, balance, last, orders>>

Init ==
  /\ open \in [Cart -> BOOLEAN]
  /\ activation = [c \in Cart |-> 0]
  /\ stock \in [Sku -> Nat]
  /\ reserved = [s \in Sku |-> 0]
  /\ used = 0
  /\ balance \in [Customer -> Nat]
  /\ last = 0
  /\ orders = <<>>

CouponLeft(k) ==
  /\ Coupon.maxUses # NoLimit => used < Coupon.maxUses
  /\ Cardinality(RedeemedBy(orders, k)) < Coupon.maxUsesPerCustomer

(* o is the order that the step adds to the books.                         *)
Place(o) ==
  /\ o \in Order
  /\ o.customer = CustomerOf[o.cart]
  /\ o.activation = activation[o.cart]
  /\ o.phase = "open"
  /\ open[o.cart]
  /\ Covers(stock, reserved, o.lines)
  /\ o.coupon => CouponLeft(o.customer)
  /\ o.points > 0 => o.points <= balance[o.customer]
  /\ open' = [open EXCEPT ![o.cart] = FALSE]
  /\ reserved' = Plus(reserved, o.lines)
  /\ used' = IF o.coupon THEN used + 1 ELSE used
  /\ balance' = IF o.points > 0
                THEN [balance EXCEPT ![o.customer] = @ - o.points] ELSE balance
  /\ last' = last + 1
  /\ orders' = [n \in 1..(last + 1) |-> IF n = last + 1 THEN o ELSE orders[n]]
  /\ UNCHANGED <<activation, stock>>

Reopen(c) ==
  /\ ~open[c]
  /\ open' = [open EXCEPT ![c] = TRUE]
  /\ activation' = [activation EXCEPT ![c] = @ + 1]
  /\ UNCHANGED <<stock, reserved, used, balance, last, orders>>

Settle(n, phase) ==
  /\ n \in DOMAIN orders
  /\ orders[n].phase = "open"
  /\ orders' = [orders EXCEPT ![n].phase = phase]
  /\ UNCHANGED <<open, activation, used, last>>

Deliver(n) ==
  /\ Settle(n, "delivered")
  /\ stock' = Minus(stock, orders[n].lines)
  /\ reserved' = Minus(reserved, orders[n].lines)
  /\ balance' = [balance EXCEPT ![orders[n].customer] = @ + Earned(orders[n])]

Cancel(n) ==
  /\ Settle(n, "cancelled")
  /\ reserved' = Minus(reserved, orders[n].lines)
  /\ UNCHANGED <<stock, balance>>

Next ==
  \/ last' = last + 1 /\ Place(orders'[last + 1])
  \/ \E c \in Cart : Reopen(c)
  \/ \E n \in DOMAIN orders : Deliver(n) \/ Cancel(n)

Spec == Init /\ [][Next]_vars
=============================================================================

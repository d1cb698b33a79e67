------------------------------ MODULE DeskData ------------------------------
(***************************************************************************)
(* The orders of the Back-Office: what checkout wrote in them once and for *)
(* all, and the flow of their statuses (enums.ts, ORDER_NEXT_STATUS).      *)
(***************************************************************************)
EXTENDS Pricing

CONSTANTS
  Sku,       \* rows that hold stock, as in ShopData
  Customer,
  Account,   \* the customers who have a loyalty account
  OrderId,
  Placed     \* what an order says: [customer, lines, points, subtotal, discount, total]

(* The status of an order that is not placed yet, and the order of a       *)
(* movement that belongs to none.                                          *)
NotPlaced == "NONE"

ASSUME DeskAssumption ==
  /\ Sku # {}
  /\ Account \subseteq Customer
  /\ NotPlaced \notin OrderId
  /\ \A n \in OrderId :
       /\ Placed[n].customer \in Customer
       /\ Placed[n].lines \in [Sku -> Nat]
       /\ \E s \in Sku : Placed[n].lines[s] > 0
       /\ Placed[n].points \in Nat
       /\ Placed[n].points > 0 => Placed[n].customer \in Account
       /\ Placed[n].subtotal \in Nat
       /\ Placed[n].discount \in Nat
       /\ Placed[n].total \in Nat

OrderStatus == {"PENDING", "CONFIRMED", "PREPARING", "SHIPPED", "DELIVERED", "CANCELLED"}

ORDER_NEXT_STATUS ==
  [PENDING   |-> {"CONFIRMED", "CANCELLED"},
   CONFIRMED |-> {"PREPARING", "CANCELLED"},
   PREPARING |-> {"SHIPPED", "CANCELLED"},
   SHIPPED   |-> {"DELIVERED"},
   DELIVERED |-> {},
   CANCELLED |-> {}]

CANCELLABLE_STATUSES == {"PENDING", "CONFIRMED", "PREPARING"}

SkusOf(n) == {s \in Sku : Placed[n].lines[s] > 0}

(* f plus, or minus, the lines of the order.                               *)
PlusLines(f, n)  == [s \in Sku |-> f[s] + Placed[n].lines[s]]
MinusLines(f, n) == [s \in Sku |-> f[s] - Placed[n].lines[s]]

(* The points a delivery credits, if there is an account to credit.        *)
Earned(n) ==
  IF Placed[n].customer \in Account
  THEN Larger(0, earnedPoints(Placed[n].subtotal, Placed[n].discount))
  ELSE 0

(* What a customer's balance becomes.                                      *)
Credit(balance, k, points) ==
  [a \in Account |-> IF a = k THEN balance[a] + points ELSE balance[a]]
=============================================================================

---------------------------- MODULE MCOrderDesk ----------------------------
(***************************************************************************)
(* Small back-offices for TLC: two orders, two products, two clerks.       *)
(***************************************************************************)
EXTENDS OrderDesk, FiniteSetsExt

CONSTANTS o1, o2, s1, s2, k1, w1, w2

(* A piece of each product, and two pieces of s1 paid with two points.     *)
MCPlaced ==
  [n \in OrderId |->
     IF n = o1
     THEN [customer |-> k1, lines |-> [s \in Sku |-> 1], points |-> 0,
           subtotal |-> 3000, discount |-> 0, total |-> 3]
     ELSE [customer |-> k1, lines |-> [s \in Sku |-> IF s = s1 THEN 2 ELSE 1], points |-> 2,
           subtotal |-> 4000, discount |-> 1000, total |-> 2]]

Transitions(n) == {[op |-> "status", order |-> n, to |-> st] : st \in OrderStatus \ {"PENDING"}}
ByCustomer(n) == {[op |-> "cancel", order |-> n, by |-> k1]}
Pays(n) == {[op |-> "pay", order |-> n, amount |-> a] : a \in 1..2}
Adjusts(deltas) == {[op |-> "adjust", sku |-> s, delta |-> d] : s \in Sku, d \in deltas}
Forms(skus) == {[op |-> "form", sku |-> s] : s \in skus}

FlowTasks == UNION {Transitions(n) \cup ByCustomer(n) : n \in OrderId}
ShelfTasks == FlowTasks \cup Adjusts({-2}) \cup Forms(Sku \ {s1}) \cup UNION {Pays(n) : n \in OrderId}

Shelves == [s \in Sku |-> 3]
Purse == [k \in Account |-> 2]

(* Tally is the sum of the community modules, on small functions.          *)
ASSUME TallyIsSum ==
  \A f \in [1..3 -> 0..2] : \A S \in SUBSET (1..3) :
    Tally(S, f) = MapThenSumSet(LAMBDA n : f[n], S)

(* OPERATIONS.md: the refund of loyalty points goes through the order page *)
(* of the Back-Office, so cancelling there gives the points back.          *)
CancelRefundsPoints ==
  \A k \in Account :
    balance[k] = Balance0[k] - Tally(OrdersOf(k, OrderStatus \ {"CANCELLED"}), PointsUsed)
                             + Tally(OrdersOf(k, {"DELIVERED"}), PointsEarned)
=============================================================================

--------------------------- MODULE CheckoutProofs ---------------------------
(***************************************************************************)
(* Proofs about Checkout, for any number of requests, carts, rows of stock *)
(* and customers: its type invariant, its safety invariants, and that it   *)
(* implements OrderBook.                                                   *)
(***************************************************************************)
EXTENDS Checkout, TallyProofs

(* Rows of different tables, or with different keys, are different rows.   *)
LEMMA RowFacts ==
  /\ \A c \in Cart : CartRow(c) \in Row
  /\ \A s \in Sku : SkuRow(s) \in Row
  /\ \A k \in Customer : PointsRow(k) \in Row
  /\ CouponRow \in Row /\ SeqRow \in Row
  /\ \A c, d : CartRow(c) = CartRow(d) => c = d
  /\ \A s, t : SkuRow(s) = SkuRow(t) => s = t
  /\ \A j, k : PointsRow(j) = PointsRow(k) => j = k
  /\ \A c, s : CartRow(c) # SkuRow(s)
  /\ \A c, k : CartRow(c) # PointsRow(k)
  /\ \A c : CartRow(c) # CouponRow /\ CartRow(c) # SeqRow
  /\ \A s, k : SkuRow(s) # PointsRow(k)
  /\ \A s : SkuRow(s) # CouponRow /\ SkuRow(s) # SeqRow
  /\ \A k : PointsRow(k) # CouponRow /\ PointsRow(k) # SeqRow
  /\ CouponRow # SeqRow
  BY DEF Row, CartRow, SkuRow, PointsRow, CouponRow, SeqRow

(* The functions of module Pricing return numbers.                         *)
LEMMA PricingTypes ==
  ASSUME NEW l \in Lines, NEW b \in BOOLEAN, NEW x \in Int
  PROVE  /\ CouponDiscount(l, b) \in Int
         /\ PointsToRedeem(l, b, x) \in Nat
  <1>1. Subtotal[l] \in Int
    BY SubtotalAssumption
  <1>2. calculateCouponDiscount(Subtotal[l], Coupon) \in Int
    BY <1>1, DataAssumption DEF calculateCouponDiscount, RoundToDirham, Smaller
  <1>3. CouponDiscount(l, b) \in Int
    BY <1>2 DEF CouponDiscount
  <1>4. ASSUME x > 0
        PROVE  calculateLoyaltyRedemption(Subtotal[l], CouponDiscount(l, b), x, RedeemRate)
                 .pointsToRedeem \in Nat
    <2>1. CASE RedeemRate <= 0
      BY <2>1 DEF calculateLoyaltyRedemption
    <2>2. CASE RedeemRate > 0
      <3> DEFINE discount == Smaller(100 * (x \div RedeemRate),
                                     Larger(0, Subtotal[l] - CouponDiscount(l, b)))
      <3>1. x \div RedeemRate \in Nat
        BY <1>4, <2>2, DataAssumption
      <3>2. discount \in Nat
        BY <1>1, <1>3, <3>1 DEF Smaller, Larger
      <3> HIDE DEF discount
      <3>3. discount * RedeemRate \in Nat
        BY <3>2, DataAssumption
      <3> QED
        BY <2>2, <3>3, DataAssumption DEF calculateLoyaltyRedemption, discount
    <2> QED
      BY <2>1, <2>2, DataAssumption
  <1>5. ASSUME NEW y \in Nat PROVE y \div 100 \in Nat
    OBVIOUS
  <1> QED
    BY <1>3, <1>4, <1>5 DEF PointsToRedeem

LEMMA EarnedType == ASSUME NEW o \in Order PROVE Earned(o) \in Nat
  <1>1. o.lines \in Lines /\ o.coupon \in BOOLEAN
    BY DEF Order
  <1>2. Subtotal[o.lines] \in Int /\ CouponDiscount(o.lines, o.coupon) \in Int
    BY <1>1, PricingTypes, SubtotalAssumption
  <1> QED
    BY <1>2 DEF Earned, earnedPoints

LEMMA InitTypes == Init => TypeOK
  <1> SUFFICES ASSUME Init PROVE TypeOK
    OBVIOUS
  <1>1. AnySku \in Sku
    BY DataAssumption DEF AnySku
  <1>2. NoLines \in Lines
    BY DataAssumption DEF NoLines, Lines
  <1>3. NoSnap \in [lines: Lines, coupon: BOOLEAN, points: Nat, filling: Nat]
    BY <1>2 DEF NoSnap
  <1>4. orders \in [1..seq -> Order]
    BY DEF Init
  <1> QED
    BY <1>1, <1>3, <1>4, InitialTablesAssumption
    DEF Init, TypeOK, BeforeTx, InTx, Final

(* The labels of a request, and the type of what it read.                  *)
Label == BeforeTx \cup InTx \cup Final
Snap  == [lines: Lines, coupon: BOOLEAN, points: Nat, filling: Nat]

LEMMA GotoTypes ==
  ASSUME TypeOK, NEW r \in Request, NEW label \in Label, Goto(r, label)
  PROVE  pc' \in [Request -> Label]
  BY DEF Goto, TypeOK, Label

LEMMA LockTypes ==
  ASSUME TypeOK, NEW r \in Request, NEW row \in Row, Lock(r, row)
  PROVE  held' \in [Request -> SUBSET Row]
  <1>1. held[r] \cup {row} \in SUBSET Row
    BY DEF TypeOK
  <1> QED
    BY <1>1 DEF Lock, TypeOK

(* How a request that ends leaves the local state.                         *)
LEMMA EndTypes ==
  ASSUME TypeOK, NEW r \in Request, NEW label \in Final, End(r, label)
  PROVE  /\ pc' \in [Request -> Label]
         /\ snap' \in [Request -> Snap]
         /\ todo' \in [Request -> SUBSET Sku]
         /\ aim' \in [Request -> Sku]
         /\ num' \in [Request -> Nat]
         /\ held' \in [Request -> SUBSET Row]
  <1>1. AnySku \in Sku
    BY DataAssumption DEF AnySku
  <1>2. NoSnap \in Snap
    BY DataAssumption DEF NoSnap, NoLines, Lines, Snap
  <1>3. label \in Label
    BY DEF Label
  <1>4. /\ pc' \in [Request -> Label]
        /\ snap' \in [Request -> Snap]
        /\ aim' \in [Request -> Sku]
        /\ num' \in [Request -> Nat]
    BY <1>1, <1>2, <1>3 DEF End, Goto, TypeOK, Label, Snap
  <1>5. /\ todo' \in [Request -> SUBSET Sku]
        /\ held' \in [Request -> SUBSET Row]
    BY DEF End, TypeOK
  <1> QED
    BY <1>4, <1>5

(* TypeOK, table by table.                                                 *)
TablesOK ==
  /\ stock \in [Sku -> Int] /\ reserved \in [Sku -> Int]
  /\ used \in Nat /\ balance \in [Customer -> Int]
  /\ seq \in Nat /\ orders \in [1..seq -> Order]
CartsOK ==
  /\ status \in [Cart -> {"ACTIVE", "CONVERTED"}]
  /\ couponCode \in [Cart -> BOOLEAN]
  /\ lines \in [Cart -> Lines]
  /\ fill \in [Cart -> Nat]
LocalOK ==
  /\ pc \in [Request -> Label]
  /\ snap \in [Request -> Snap]
  /\ todo \in [Request -> SUBSET Sku]
  /\ aim \in [Request -> Sku]
  /\ num \in [Request -> Nat]
  /\ held \in [Request -> SUBSET Row]

LEMMA TypeParts ==
  /\ TypeOK <=> TablesOK /\ CartsOK /\ LocalOK /\ valid \in BOOLEAN
  /\ TypeOK' <=> TablesOK' /\ CartsOK' /\ LocalOK' /\ valid' \in BOOLEAN
  BY DEF TypeOK, TablesOK, CartsOK, LocalOK, Label, Snap

LEMMA UnchangedTypes ==
  /\ TypeOK /\ UNCHANGED tables => TablesOK'
  /\ TypeOK /\ UNCHANGED carts => CartsOK'
  BY DEF TypeOK, TablesOK, CartsOK, tables, carts

(* A statement that leaves the tables alone is well typed if what it does  *)
(* to the local state is.                                                  *)
LEMMA LocalTypes ==
  ASSUME TypeOK, UNCHANGED <<tables, carts, valid>>, LocalOK'
  PROVE  TypeOK'
  <1>1. valid' \in BOOLEAN
    BY DEF TypeOK
  <1> QED
    BY <1>1, UnchangedTypes, TypeParts

(* An ended request leaves the tables, and a well-typed local state.       *)
LEMMA RejectTypes ==
  ASSUME TypeOK, NEW r \in Request, End(r, "rejected"), UNCHANGED <<tables, carts, valid>>
  PROVE  TypeOK'
  <1>1. "rejected" \in Final
    BY DEF Final
  <1>2. LocalOK'
    BY <1>1, EndTypes DEF LocalOK
  <1> QED
    BY <1>2, LocalTypes

(* So does a transaction that locks one more row and goes on.              *)
LEMMA LockStepTypes ==
  ASSUME TypeOK, NEW r \in Request, NEW row \in Row, Lock(r, row),
         NEW label \in Label, Goto(r, label),
         UNCHANGED <<tables, carts, valid, snap, todo, aim>>, num' \in [Request -> Nat]
  PROVE  TypeOK'
  <1>1. pc' \in [Request -> Label] /\ held' \in [Request -> SUBSET Row]
    BY GotoTypes, LockTypes
  <1>2. LocalOK
    BY TypeParts
  <1>3. LocalOK'
    BY <1>1, <1>2 DEF LocalOK
  <1> QED
    BY <1>3, LocalTypes

LEMMA TypeStep == TypeOK /\ NumberInv /\ [Next]_vars => TypeOK'
  <1> SUFFICES ASSUME TypeOK, NumberInv, [Next]_vars PROVE TypeOK'
    OBVIOUS
  <1>0. \A r \in Request : CartFor(r) \in Cart /\ CustomerFor(r) \in Customer
    BY RequestAssumption, DataAssumption DEF CartFor, CustomerFor
  <1>t. TablesOK /\ CartsOK /\ LocalOK /\ valid \in BOOLEAN
    BY TypeParts
  <1>l. Label = BeforeTx \cup InTx \cup Final
    BY DEF Label
  <1>1. ASSUME NEW r \in Request, Arrive(r) PROVE TypeOK'
    BY <1>1 DEF Arrive, Goto, Handler, TypeOK, BeforeTx, Final, tables, carts, local
  <1>2. ASSUME NEW r \in Request, WipeLines(r) PROVE TypeOK'
    <2>1. NoLines \in Lines
      BY DataAssumption DEF NoLines, Lines
    <2> QED
      BY <1>0, <1>2, <2>1 DEF WipeLines, Goto, TypeOK, BeforeTx, tables, local
  <1>3. ASSUME NEW r \in Request, Reopen(r) PROVE TypeOK'
    BY <1>0, <1>3 DEF Reopen, Goto, Handler, TypeOK, BeforeTx, Final, tables, local
  <1>4. ASSUME NEW r \in Request, AddLine(r) PROVE TypeOK'
    <2>1. SkuAdded[r] \in Sku
      BY RequestAssumption
    <2>2. [lines[CartFor(r)] EXCEPT ![SkuAdded[r]] = @ + 1] \in Lines
      <3>1. lines[CartFor(r)] \in [Sku -> 0..MaxQty]
        BY <1>0 DEF TypeOK, Lines
      <3>2. lines[CartFor(r)][SkuAdded[r]] + 1 \in 0..MaxQty
        BY <1>4, <2>1, <3>1, DataAssumption DEF AddLine
      <3> QED
        BY <2>1, <3>1, <3>2 DEF Lines
    <2>3. \A c \in Cart \ {CartFor(r)} : lines'[c] = lines[c]
      BY <1>4 DEF AddLine, TypeOK
    <2>4. lines'[CartFor(r)] = [lines[CartFor(r)] EXCEPT ![SkuAdded[r]] = @ + 1]
      BY <1>0, <1>4 DEF AddLine, TypeOK
    <2>5. lines' \in [Cart -> Lines]
      <3>1. \A c \in Cart : lines'[c] \in Lines
        BY <2>2, <2>3, <2>4 DEF TypeOK
      <3>2. lines' = [c \in Cart |-> lines'[c]]
        BY <1>4 DEF AddLine, TypeOK
      <3> QED
        BY <3>1, <3>2
    <2> QED
      BY <1>4, <2>5 DEF AddLine, Goto, TypeOK, Final, tables, local
  <1>5. ASSUME NEW r \in Request, ReadCart(r) PROVE TypeOK'
    <2>1. CASE lines[CartFor(r)] = NoLines
      BY <1>5, <2>1, RejectTypes DEF ReadCart
    <2>2. CASE lines[CartFor(r)] # NoLines
      <3>1. [lines |-> lines[CartFor(r)], coupon |-> couponCode[CartFor(r)],
             points |-> 0, filling |-> fill[CartFor(r)]] \in Snap
        BY <1>0 DEF TypeOK, Snap
      <3>2. snap' \in [Request -> Snap]
        BY <1>t, <1>5, <2>2, <3>1 DEF ReadCart, LocalOK
      <3>3. pc' \in [Request -> Label]
        BY <1>5, <2>2, GotoTypes DEF ReadCart, Label, BeforeTx
      <3>4. LocalOK'
        BY <1>t, <1>5, <2>2, <3>2, <3>3 DEF ReadCart, LocalOK
      <3> QED
        BY <1>5, <3>4, LocalTypes DEF ReadCart
    <2> QED
      BY <2>1, <2>2
  <1>6. ASSUME NEW r \in Request, ReadOffers(r) PROVE TypeOK'
    <2>1. CASE snap[r].coupon /\ Unusable(r)
      BY <1>6, <2>1, RejectTypes DEF ReadOffers
    <2>2. CASE ~(snap[r].coupon /\ Unusable(r))
      <3>0. snap[r].lines \in Lines /\ snap[r].coupon \in BOOLEAN
            /\ balance[CustomerFor(r)] \in Int
        BY <1>0 DEF TypeOK
      <3>1. PointsToRedeem(snap[r].lines, snap[r].coupon, balance[CustomerFor(r)]) \in Nat
        BY <3>0, PricingTypes
      <3>2. snap' \in [Request -> Snap]
        BY <1>t, <1>6, <2>2, <3>1 DEF ReadOffers, LocalOK, Snap
      <3>3. pc' \in [Request -> Label]
        BY <1>6, <2>2, GotoTypes DEF ReadOffers, Label, InTx
      <3>4. LocalOK'
        BY <1>t, <1>6, <2>2, <3>2, <3>3 DEF ReadOffers, LocalOK
      <3> QED
        BY <1>6, <3>4, LocalTypes DEF ReadOffers
    <2> QED
      BY <2>1, <2>2
  <1>7. ASSUME NEW r \in Request, LockCart(r) PROVE TypeOK'
    <2>1. CASE CartStillOpen(CartFor(r))
      <3>1. held' \in [Request -> SUBSET Row]
        BY <1>0, <1>7, <2>1, RowFacts, LockTypes DEF LockCart
      <3>2. pc' \in [Request -> Label]
        BY <1>7, <2>1, GotoTypes DEF LockCart, Label, InTx
      <3>3. todo' \in [Request -> SUBSET Sku] /\ aim' \in [Request -> Sku]
        <4>1. SkusOf(snap[r].lines) \in SUBSET Sku
          BY DEF SkusOf
        <4>2. todo' = [todo EXCEPT ![r] = SkusOf(snap[r].lines)]
          BY <1>7, <2>1 DEF LockCart
        <4>3. PICK s \in SkusOf(snap[r].lines) : aim' = [aim EXCEPT ![r] = s]
          BY <1>7, <2>1 DEF LockCart
        <4> QED
          BY <1>t, <4>1, <4>2, <4>3 DEF LocalOK
      <3>4. LocalOK'
        BY <1>t, <1>7, <2>1, <3>1, <3>2, <3>3 DEF LockCart, LocalOK
      <3> QED
        BY <1>7, <3>4, LocalTypes DEF LockCart
    <2>2. CASE ~CartStillOpen(CartFor(r))
      BY <1>7, <2>2, RejectTypes DEF LockCart
    <2> QED
      BY <2>1, <2>2
  <1>8. ASSUME NEW r \in Request, LockStock(r) PROVE TypeOK'
    <2>1. CASE InStock(aim[r], snap[r].lines[aim[r]])
      <3>1. aim[r] \in Sku /\ SkuRow(aim[r]) \in Row
        BY RowFacts DEF TypeOK
      <3>2. held' \in [Request -> SUBSET Row]
        BY <1>8, <2>1, <3>1, LockTypes DEF LockStock
      <3>3. pc' \in [Request -> Label]
        BY <1>8, <2>1, GotoTypes DEF LockStock, AfterStock, Label, InTx, TypeOK
      <3>4. todo' \in [Request -> SUBSET Sku]
        <4>1. todo[r] \ {aim[r]} \in SUBSET Sku
          BY DEF TypeOK
        <4> QED
          BY <1>8, <2>1, <4>1 DEF LockStock, TypeOK
      <3>5. aim' \in [Request -> Sku]
        <4>1. CASE UNCHANGED aim
          BY <1>t, <4>1 DEF LocalOK
        <4>2. ASSUME NEW t \in todo[r], aim' = [aim EXCEPT ![r] = t] PROVE aim' \in [Request -> Sku]
          BY <1>t, <4>2 DEF LocalOK
        <4>3. UNCHANGED aim \/ \E t \in todo[r] : aim' = [aim EXCEPT ![r] = t]
          BY <1>8, <2>1 DEF LockStock
        <4> QED
          BY <4>1, <4>2, <4>3
      <3>6. LocalOK'
        BY <1>t, <1>8, <2>1, <3>2, <3>3, <3>4, <3>5 DEF LockStock, LocalOK
      <3> QED
        BY <1>8, <3>6, LocalTypes DEF LockStock
    <2>2. CASE ~InStock(aim[r], snap[r].lines[aim[r]])
      BY <1>8, <2>2, RejectTypes DEF LockStock
    <2> QED
      BY <2>1, <2>2
  <1>9. ASSUME NEW r \in Request, LockCoupon(r) PROVE TypeOK'
    <2>1. CASE CouponSpent \/ RedeemedOnce(CustomerFor(r))
      BY <1>9, <2>1, RejectTypes DEF LockCoupon
    <2>2. CASE ~(CouponSpent \/ RedeemedOnce(CustomerFor(r)))
      BY <1>9, <2>2, RowFacts, LockStepTypes DEF LockCoupon, Label, InTx, TypeOK, local
    <2> QED
      BY <2>1, <2>2
  <1>10. ASSUME NEW r \in Request, ReadCounter(r) PROVE TypeOK'
    <2>1. num' \in [Request -> Nat]
      BY <1>10 DEF ReadCounter, NextNumber, TypeOK
    <2>2. CASE seq # 0
      BY <1>10, <2>1, <2>2, RowFacts, LockStepTypes DEF ReadCounter, Label, InTx
    <2>3. CASE seq = 0
      <3>1. LocalOK'
        BY <1>t, <1>10, <2>1, <2>3, GotoTypes DEF ReadCounter, LocalOK, Label, InTx
      <3> QED
        BY <1>10, <3>1, LocalTypes DEF ReadCounter
    <2> QED
      BY <2>2, <2>3
  <1>11. ASSUME NEW r \in Request, WriteCounter(r) PROVE TypeOK'
    <2>1. CASE NumberTaken(num[r])
      BY <1>11, <2>1, RejectTypes DEF WriteCounter
    <2>2. CASE ~NumberTaken(num[r])
      BY <1>11, <2>2, RowFacts, LockStepTypes DEF WriteCounter, Label, InTx, TypeOK, local
    <2> QED
      BY <2>1, <2>2
  <1>12. ASSUME NEW r \in Request, LockPoints(r) PROVE TypeOK'
    <2>1. CASE EnoughPoints(CustomerFor(r), snap[r].points)
      BY <1>0, <1>12, <2>1, RowFacts, LockStepTypes DEF LockPoints, Label, InTx, TypeOK, local
    <2>2. CASE ~EnoughPoints(CustomerFor(r), snap[r].points)
      BY <1>12, <2>2, RejectTypes DEF LockPoints
    <2> QED
      BY <2>1, <2>2
  <1>13. ASSUME NEW r \in Request, Commit(r) PROVE TypeOK'
    <2>1. num[r] = seq + 1
      BY <1>13 DEF Commit, NumberInv, AfterNumber
    <2>2. NewOrder(r) \in Order
      BY <1>0 DEF NewOrder, Order, TypeOK
    <2>3. orders' \in [1..seq' -> Order]
      <3>1. DOMAIN orders \cup {num[r]} = 1..(seq + 1)
        BY <2>1 DEF TypeOK
      <3> QED
        BY <1>13, <2>1, <2>2, <3>1 DEF Commit, TypeOK
    <2>4. \A s \in Sku : reserved[s] + snap[r].lines[s] \in Int
      <3>1. snap[r].lines \in Lines
        BY DEF TypeOK
      <3> QED
        BY <3>1, DataAssumption DEF TypeOK, Lines
    <2>5. TablesOK'
      <3>1. reserved' \in [Sku -> Int]
        BY <1>13, <2>4 DEF Commit, Plus
      <3>2. balance' \in [Customer -> Int]
        BY <1>0, <1>13 DEF Commit, TypeOK
      <3> QED
        BY <1>13, <2>1, <2>3, <3>1, <3>2 DEF Commit, TablesOK, TypeOK
    <2>6. CartsOK' /\ (valid \in BOOLEAN)'
      BY <1>0, <1>13 DEF Commit, CartsOK, TypeOK
    <2>7. LocalOK'
      BY <1>13, EndTypes DEF Commit, LocalOK, Final
    <2> QED
      BY <2>5, <2>6, <2>7, TypeParts
  <1>14. ASSUME NEW r \in Request, Abort(r) \/ DeadlockAbort(r) PROVE TypeOK'
    BY <1>14, RejectTypes DEF Abort, DeadlockAbort
  <1>15. CASE ExpireCoupon
    BY <1>15 DEF ExpireCoupon, TypeOK, tables, carts, local
  <1>16. ASSUME NEW n \in DOMAIN orders, DeliverOrder(n) \/ CancelOrder(n) PROVE TypeOK'
    <2>1. orders[n] \in Order /\ orders[n].lines \in Lines /\ orders[n].customer \in Customer
      BY DEF TypeOK, Order
    <2>2. \A phase \in {"delivered", "cancelled"} : [orders[n] EXCEPT !.phase = phase] \in Order
      BY <2>1 DEF Order
    <2>3. \A s \in Sku : orders[n].lines[s] \in Int
      BY <2>1, DataAssumption DEF Lines
    <2>4. Earned(orders[n]) \in Int
      BY <2>1, EarnedType
    <2>5. orders' \in [1..seq -> Order]
      BY <1>16, <2>2 DEF DeliverOrder, CancelOrder, Settle, TypeOK
    <2>6. /\ stock' \in [Sku -> Int] /\ reserved' \in [Sku -> Int]
          /\ balance' \in [Customer -> Int]
      <3>1. Minus(stock, orders[n].lines) \in [Sku -> Int]
            /\ Minus(reserved, orders[n].lines) \in [Sku -> Int]
        BY <2>3 DEF Minus, TypeOK
      <3>2. [balance EXCEPT ![orders[n].customer] = @ + Earned(orders[n])]
              \in [Customer -> Int]
        BY <2>1, <2>4 DEF TypeOK
      <3>3. stock \in [Sku -> Int] /\ balance \in [Customer -> Int]
        BY DEF TypeOK
      <3> QED
        BY <1>16, <3>1, <3>2, <3>3 DEF DeliverOrder, CancelOrder, Settle
    <2>7. TablesOK'
      BY <1>16, <2>5, <2>6 DEF DeliverOrder, CancelOrder, Settle, TablesOK, TypeOK
    <2>8. CartsOK' /\ LocalOK' /\ (valid \in BOOLEAN)'
      BY <1>16 DEF DeliverOrder, CancelOrder, Settle, CartsOK, LocalOK, TypeOK, Label, Snap,
                   carts, local
    <2> QED
      BY <2>7, <2>8, TypeParts
  <1>17. CASE Rest \/ UNCHANGED vars
    BY <1>17 DEF Rest, TypeOK, vars, tables, carts, local
  <1> QED
    BY <1>1, <1>2, <1>3, <1>4, <1>5, <1>6, <1>7, <1>8, <1>9, <1>10, <1>11, <1>12, <1>13,
       <1>14, <1>15, <1>16, <1>17 DEF Next, Statement

-----------------------------------------------------------------------------
(* The invariant of one request: what its locks let it rely on.            *)
Good(r) ==
  /\ pc[r] \notin AfterCart => held[r] = {}
  /\ pc[r] \in AfterCart => /\ CartRow(CartFor(r)) \in held[r]
                            /\ CartStillOpen(CartFor(r))
  /\ \A s \in Sku : SkuRow(s) \in held[r] => InStock(s, snap[r].lines[s])
  /\ pc[r] \in AfterCart =>
       \A s \in SkusOf(snap[r].lines) : s \in todo[r] \/ SkuRow(s) \in held[r]
  /\ pc[r] \in AfterLines => todo[r] = {}
  /\ pc[r] \in AfterCoupon /\ snap[r].coupon
       => CouponRow \in held[r] /\ ~CouponSpent /\ ~RedeemedOnce(CustomerFor(r))
  /\ pc[r] = "number" => num[r] = IF SeqRow \in held[r] THEN seq + 1 ELSE 1
  /\ pc[r] \in AfterNumber => SeqRow \in held[r] /\ num[r] = seq + 1
  /\ pc[r] = "lockPoints" => snap[r].points > 0
  /\ pc[r] = "commit" /\ snap[r].points > 0
       => /\ PointsRow(CustomerFor(r)) \in held[r]
          /\ EnoughPoints(CustomerFor(r), snap[r].points)

Exclusive == \A r, q \in Request : r # q => held[r] \cap held[q] = {}

LEMMA GoodParts ==
  /\ Exclusive /\ (\A r \in Request : Good(r))
       <=> LockInv /\ CartInv /\ StockInv /\ CouponInv /\ NumberInv /\ PointsInv
  /\ Exclusive' /\ (\A r \in Request : Good(r)')
       <=> LockInv' /\ CartInv' /\ StockInv' /\ CouponInv' /\ NumberInv' /\ PointsInv'
  BY DEF Exclusive, Good, LockInv, CartInv, StockInv, CouponInv, NumberInv, PointsInv

(* A statement of one request leaves the local state of the others.        *)
LEMMA OthersKeep ==
  ASSUME TypeOK, NEW r \in Request, Statement(r) \/ DeadlockAbort(r) \/ Abort(r),
         NEW q \in Request, q # r
  PROVE  /\ pc'[q] = pc[q] /\ snap'[q] = snap[q] /\ todo'[q] = todo[q]
         /\ num'[q] = num[q] /\ held'[q] = held[q]
  <1> DEFINE Same == /\ pc'[q] = pc[q] /\ snap'[q] = snap[q] /\ todo'[q] = todo[q]
                     /\ num'[q] = num[q] /\ held'[q] = held[q]
  <1>0. LocalOK
    BY TypeParts
  <1>1. ASSUME NEW label, End(r, label) PROVE Same
    BY <1>0, <1>1 DEF End, Goto, LocalOK
  <1>2. ASSUME NEW label, Goto(r, label) PROVE pc'[q] = pc[q]
    BY <1>0, <1>2 DEF Goto, LocalOK
  <1>3. ASSUME NEW row, Lock(r, row) PROVE held'[q] = held[q]
    BY <1>0, <1>3 DEF Lock, LocalOK
  <1>4. CASE Arrive(r) \/ WipeLines(r) \/ Reopen(r) \/ AddLine(r)
    BY <1>2, <1>4 DEF Arrive, WipeLines, Reopen, AddLine, local
  <1>5. CASE ReadCart(r) \/ ReadOffers(r)
    BY <1>0, <1>1, <1>2, <1>5 DEF ReadCart, ReadOffers, LocalOK
  <1>6. CASE LockCart(r)
    BY <1>0, <1>1, <1>2, <1>3, <1>6 DEF LockCart, LocalOK
  <1>7. CASE LockStock(r)
    BY <1>0, <1>1, <1>2, <1>3, <1>7 DEF LockStock, LocalOK
  <1>8. CASE LockCoupon(r) \/ WriteCounter(r) \/ LockPoints(r)
    BY <1>1, <1>2, <1>3, <1>8 DEF LockCoupon, WriteCounter, LockPoints, local
  <1>9. CASE ReadCounter(r)
    BY <1>0, <1>2, <1>3, <1>9 DEF ReadCounter, LocalOK
  <1>10. CASE Commit(r) \/ DeadlockAbort(r) \/ Abort(r)
    BY <1>1, <1>10 DEF Commit, DeadlockAbort, Abort
  <1> QED
    BY <1>4, <1>5, <1>6, <1>7, <1>8, <1>9, <1>10 DEF Statement

(* It writes to the tables when it commits only, and to the status of a    *)
(* cart then and when it reopens it.                                       *)
LEMMA TablesKept ==
  ASSUME NEW r \in Request, Statement(r) \/ DeadlockAbort(r) \/ Abort(r)
  PROVE  /\ ~Commit(r) => UNCHANGED tables
         /\ ~Commit(r) /\ ~Reopen(r) => UNCHANGED <<status, fill>>
  BY DEF Statement, Arrive, WipeLines, Reopen, AddLine, ReadCart, ReadOffers, LockCart,
         LockStock, LockCoupon, ReadCounter, WriteCounter, LockPoints, DeadlockAbort, Abort,
         carts

LEMMA ExclusiveStep ==
  ASSUME TypeOK, Exclusive, NEW r \in Request,
         Statement(r) \/ DeadlockAbort(r) \/ Abort(r)
  PROVE  Exclusive'
  <1>0. LocalOK
    BY TypeParts
  <1>1. \/ held'[r] = {} \/ held'[r] = held[r]
        \/ \E row : held'[r] = held[r] \cup {row} /\ (Free(row) \/ row \in held[r])
    <2>1. ASSUME NEW label, End(r, label) PROVE held'[r] = {}
      BY <1>0, <2>1 DEF End, LocalOK
    <2>2. ASSUME NEW row, Lock(r, row)
          PROVE  held'[r] = held[r] \cup {row} /\ (Free(row) \/ row \in held[r])
      BY <1>0, <2>2 DEF Lock, LocalOK
    <2> QED
      BY <2>1, <2>2
      DEF Statement, Arrive, WipeLines, Reopen, AddLine, ReadCart, ReadOffers, LockCart,
          LockStock, LockCoupon, ReadCounter, WriteCounter, LockPoints, Commit,
          DeadlockAbort, Abort
  <1>2. \A q \in Request \ {r} : held'[q] = held[q]
    BY OthersKeep
  <1> QED
    BY <1>1, <1>2 DEF Exclusive, Free

(* A request outside the transaction, without locks, relies on nothing.    *)
LEMMA OutsideGood ==
  ASSUME NEW r \in Request, pc'[r] \notin AfterCart, held'[r] = {}
  PROVE  Good(r)'
  BY DEF Good, AfterCart, AfterLines, AfterCoupon, AfterNumber, InTx

LEMMA EndGood ==
  ASSUME TypeOK, NEW r \in Request, NEW label \in Final, End(r, label)
  PROVE  Good(r)'
  <1>1. pc'[r] = label /\ held'[r] = {}
    BY DEF End, Goto, TypeOK
  <1> QED
    BY <1>1, OutsideGood DEF Final, AfterCart, InTx
(* One step of a request keeps what it relies on itself.                   *)
LEMMA SelfGood ==
  ASSUME TypeOK, NEW r \in Request, Good(r),
         Statement(r) \/ DeadlockAbort(r) \/ Abort(r)
  PROVE  Good(r)'
  <1>t. LocalOK
    BY TypeParts
  <1>e. ASSUME NEW label \in Final, End(r, label) PROVE Good(r)'
    BY <1>e, EndGood
  <1>g. ASSUME NEW label, Goto(r, label) PROVE pc'[r] = label
    BY <1>t, <1>g DEF Goto, LocalOK
  <1>k. ASSUME NEW row, Lock(r, row) PROVE held'[r] = held[r] \cup {row}
    BY <1>t, <1>k DEF Lock, LocalOK
  <1>f. "done" \in Final /\ "rejected" \in Final
    BY DEF Final
  <1>1. CASE Arrive(r) \/ WipeLines(r) \/ Reopen(r) \/ AddLine(r) \/ ReadCart(r)
             \/ ReadOffers(r)
    <2>1. pc[r] \notin AfterCart
      BY <1>1 DEF Arrive, WipeLines, Reopen, AddLine, ReadCart, ReadOffers, AfterCart, InTx
    <2>2. held[r] = {}
      BY <2>1 DEF Good
    <2>3. (held' = held /\ pc'[r] \notin AfterCart) \/ Good(r)'
      BY <1>1, <1>e, <1>f, <1>g
      DEF Arrive, WipeLines, Reopen, AddLine, ReadCart, ReadOffers, Handler, AfterCart, InTx
    <2> QED
      BY <2>2, <2>3, OutsideGood
  <1>2. CASE LockCart(r)
    <2>1. CASE ~CartStillOpen(CartFor(r))
      BY <1>2, <1>e, <1>f, <2>1 DEF LockCart
    <2>2. CASE CartStillOpen(CartFor(r))
      <3>1. held[r] = {}
        BY <1>2 DEF LockCart, Good, AfterCart, InTx
      <3>2. /\ pc'[r] = "lockStock" /\ snap'[r] = snap[r]
            /\ todo'[r] = SkusOf(snap[r].lines) /\ held'[r] = {CartRow(CartFor(r))}
        BY <1>2, <1>t, <1>g, <1>k, <2>2, <3>1 DEF LockCart, LocalOK
      <3>3. CartStillOpen(CartFor(r))'
        BY <1>2, <2>2 DEF LockCart, CartStillOpen, carts
      <3> QED
        BY <3>2, <3>3, RowFacts
        DEF Good, AfterCart, AfterLines, AfterCoupon, AfterNumber, InTx
    <2> QED
      BY <2>1, <2>2
  <1>3. CASE LockStock(r)
    <2>1. CASE ~InStock(aim[r], snap[r].lines[aim[r]])
      BY <1>3, <1>e, <1>f, <2>1 DEF LockStock
    <2>2. CASE InStock(aim[r], snap[r].lines[aim[r]])
      <3>1. /\ pc[r] = "lockStock" /\ snap'[r] = snap[r]
            /\ held'[r] = held[r] \cup {SkuRow(aim[r])}
            /\ todo'[r] = todo[r] \ {aim[r]}
            /\ pc'[r] = IF todo'[r] = {} THEN AfterStock(r) ELSE pc[r]
        BY <1>3, <1>t, <1>g, <1>k, <2>2 DEF LockStock, LocalOK
      <3>2. /\ CartRow(CartFor(r)) \in held[r] /\ CartStillOpen(CartFor(r))
            /\ \A s \in Sku : SkuRow(s) \in held[r] => InStock(s, snap[r].lines[s])
            /\ \A s \in SkusOf(snap[r].lines) : s \in todo[r] \/ SkuRow(s) \in held[r]
        BY <3>1 DEF Good, AfterCart, InTx
      <3>3. UNCHANGED <<stock, reserved, status>>
        BY <1>3 DEF LockStock, carts, tables
      <3>4. \A s \in Sku : SkuRow(s) \in held'[r] => InStock(s, snap[r].lines[s])
        BY <2>2, <3>1, <3>2, RowFacts
      <3>5. \A s \in SkusOf(snap[r].lines) : s \in todo'[r] \/ SkuRow(s) \in held'[r]
        BY <3>1, <3>2
      <3>6. /\ pc'[r] \in {"lockStock", "lockCoupon", "counter"}
            /\ pc'[r] = "counter" => ~snap'[r].coupon
            /\ pc'[r] # "lockStock" => todo'[r] = {}
        BY <3>1 DEF AfterStock
      <3> QED
        BY <3>1, <3>2, <3>3, <3>4, <3>5, <3>6
        DEF Good, AfterCart, AfterLines, AfterCoupon, AfterNumber, InTx, CartStillOpen,
            InStock, CartFor, SkusOf
    <2> QED
      BY <2>1, <2>2
  <1>4. CASE LockCoupon(r)
    <2>1. CASE CouponSpent \/ RedeemedOnce(CustomerFor(r))
      BY <1>4, <1>e, <1>f, <2>1 DEF LockCoupon
    <2>2. CASE ~(CouponSpent \/ RedeemedOnce(CustomerFor(r)))
      <3>1. /\ pc[r] = "lockCoupon" /\ pc'[r] = "counter" /\ UNCHANGED local
            /\ held'[r] = held[r] \cup {CouponRow}
        BY <1>4, <1>g, <1>k, <2>2 DEF LockCoupon
      <3>2. UNCHANGED <<stock, reserved, used, orders, status>>
        BY <1>4 DEF LockCoupon, tables, carts
      <3> QED
        BY <2>2, <3>1, <3>2, RowFacts
        DEF Good, AfterCart, AfterLines, AfterCoupon, AfterNumber, InTx, CartStillOpen,
            InStock, CouponSpent, RedeemedOnce, CustomerFor, CartFor, SkusOf, local
    <2> QED
      BY <2>1, <2>2
  <1>5. CASE ReadCounter(r)
    <2>1. /\ pc[r] = "counter" /\ pc'[r] = "number" /\ UNCHANGED <<snap, todo>>
          /\ num'[r] = seq + 1
          /\ held'[r] = IF seq = 0 THEN held[r] ELSE held[r] \cup {SeqRow}
      BY <1>5, <1>t, <1>g, <1>k DEF ReadCounter, NextNumber, LocalOK
    <2>2. UNCHANGED <<stock, reserved, used, orders, status, seq>>
      BY <1>5 DEF ReadCounter, tables, carts
    <2>3. num'[r] = IF SeqRow \in held'[r] THEN seq' + 1 ELSE 1
      BY <2>1, <2>2
    <2> QED
      BY <2>1, <2>2, <2>3, RowFacts
      DEF Good, AfterCart, AfterLines, AfterCoupon, AfterNumber, InTx, CartStillOpen,
          InStock, CouponSpent, RedeemedOnce, CustomerFor, CartFor, SkusOf
  <1>6. CASE WriteCounter(r)
    <2>1. CASE NumberTaken(num[r])
      BY <1>6, <1>e, <1>f, <2>1 DEF WriteCounter
    <2>2. CASE ~NumberTaken(num[r])
      <3>1. /\ pc[r] = "number" /\ UNCHANGED local
            /\ pc'[r] = IF snap[r].points > 0 THEN "lockPoints" ELSE "commit"
            /\ held'[r] = held[r] \cup {SeqRow}
        BY <1>6, <1>g, <1>k, <2>2 DEF WriteCounter
      <3>2. UNCHANGED <<stock, reserved, used, orders, status, seq>>
        BY <1>6 DEF WriteCounter, tables, carts
      <3>3. num[r] = seq + 1
        <4>1. DOMAIN orders = 1..seq /\ seq \in Nat
          BY DEF TypeOK
        <4>2. num[r] = seq + 1 \/ num[r] = 1
          BY <3>1 DEF Good
        <4> QED
          BY <2>2, <4>1, <4>2 DEF NumberTaken
      <3> QED
        BY <3>1, <3>2, <3>3, RowFacts
        DEF Good, AfterCart, AfterLines, AfterCoupon, AfterNumber, InTx, CartStillOpen,
            InStock, CouponSpent, RedeemedOnce, CustomerFor, CartFor, SkusOf, local
    <2> QED
      BY <2>1, <2>2
  <1>7. CASE LockPoints(r)
    <2>1. CASE ~EnoughPoints(CustomerFor(r), snap[r].points)
      BY <1>7, <1>e, <1>f, <2>1 DEF LockPoints
    <2>2. CASE EnoughPoints(CustomerFor(r), snap[r].points)
      <3>1. /\ pc[r] = "lockPoints" /\ pc'[r] = "commit" /\ UNCHANGED local
            /\ held'[r] = held[r] \cup {PointsRow(CustomerFor(r))}
        BY <1>7, <1>g, <1>k, <2>2 DEF LockPoints
      <3>2. UNCHANGED <<stock, reserved, used, orders, status, seq, balance>>
        BY <1>7 DEF LockPoints, tables, carts
      <3> QED
        BY <2>2, <3>1, <3>2, RowFacts
        DEF Good, AfterCart, AfterLines, AfterCoupon, AfterNumber, InTx, CartStillOpen,
            InStock, CouponSpent, RedeemedOnce, EnoughPoints, CustomerFor, CartFor, SkusOf,
            local
    <2> QED
      BY <2>1, <2>2
  <1>8. CASE Commit(r) \/ DeadlockAbort(r) \/ Abort(r)
    BY <1>8, <1>e, <1>f DEF Commit, DeadlockAbort, Abort
  <1> QED
    BY <1>1, <1>2, <1>3, <1>4, <1>5, <1>6, <1>7, <1>8 DEF Statement
-----------------------------------------------------------------------------
(* A commit appends its order to the books.                                *)
LEMMA CommitOrders ==
  ASSUME TypeOK, NEW r \in Request, Good(r), Commit(r)
  PROVE  /\ num[r] = seq + 1 /\ seq' = seq + 1 /\ seq \in Nat
         /\ DOMAIN orders = 1..seq /\ DOMAIN orders' = 1..(seq + 1)
         /\ orders'[seq + 1] = NewOrder(r)
         /\ \A n \in 1..seq : orders'[n] = orders[n]
  <1>1. num[r] = seq + 1
    BY DEF Good, Commit, AfterNumber
  <1>2. seq \in Nat /\ DOMAIN orders = 1..seq
    BY DEF TypeOK
  <1>3. DOMAIN orders \cup {num[r]} = 1..(seq + 1)
    BY <1>1, <1>2
  <1> QED
    BY <1>1, <1>2, <1>3 DEF Commit

(* The redemptions of the coupon, before and after a commit.               *)
LEMMA CommitRedemptions ==
  ASSUME TypeOK, NEW r \in Request, Good(r), Commit(r), NEW k
  PROVE  /\ CouponOrders(orders') = IF snap[r].coupon THEN CouponOrders(orders) \cup {seq + 1}
                                    ELSE CouponOrders(orders)
         /\ RedeemedBy(orders', k) = IF snap[r].coupon /\ CustomerFor(r) = k
                                     THEN RedeemedBy(orders, k) \cup {seq + 1}
                                     ELSE RedeemedBy(orders, k)
         /\ seq + 1 \notin CouponOrders(orders) /\ seq + 1 \notin RedeemedBy(orders, k)
         /\ IsFiniteSet(CouponOrders(orders)) /\ IsFiniteSet(RedeemedBy(orders, k))
  <1>1. /\ num[r] = seq + 1 /\ seq' = seq + 1 /\ seq \in Nat
        /\ DOMAIN orders = 1..seq /\ DOMAIN orders' = 1..(seq + 1)
        /\ orders'[seq + 1] = NewOrder(r)
        /\ \A n \in 1..seq : orders'[n] = orders[n]
    BY CommitOrders
  <1>2. NewOrder(r).coupon = snap[r].coupon /\ NewOrder(r).customer = CustomerFor(r)
    BY DEF NewOrder
  <1>3. 1..(seq + 1) = 1..seq \cup {seq + 1} /\ seq + 1 \notin 1..seq
    BY <1>1
  <1>4. IsFiniteSet(1..seq)
    BY <1>1, FS_Interval
  <1>5. CouponOrders(orders) \subseteq 1..seq /\ RedeemedBy(orders, k) \subseteq 1..seq
    BY <1>1 DEF CouponOrders, RedeemedBy
  <1>6. IsFiniteSet(CouponOrders(orders)) /\ IsFiniteSet(RedeemedBy(orders, k))
    BY <1>4, <1>5, FS_Subset
  <1>7. CouponOrders(orders') = IF snap[r].coupon THEN CouponOrders(orders) \cup {seq + 1}
                                ELSE CouponOrders(orders)
    BY <1>1, <1>2, <1>3 DEF CouponOrders
  <1>8. RedeemedBy(orders', k) = IF snap[r].coupon /\ CustomerFor(r) = k
                                 THEN RedeemedBy(orders, k) \cup {seq + 1}
                                 ELSE RedeemedBy(orders, k)
    BY <1>1, <1>2, <1>3, <1>5, <1>7 DEF CouponOrders, RedeemedBy
  <1> QED
    BY <1>3, <1>5, <1>6, <1>7, <1>8

(* Settling an order changes its phase only.                               *)
LEMMA SettleOrders ==
  ASSUME TypeOK, NEW n \in DOMAIN orders, NEW phase \in {"delivered", "cancelled"},
         Settle(n, phase)
  PROVE  /\ DOMAIN orders' = DOMAIN orders
         /\ \A m \in DOMAIN orders :
              /\ orders'[m].cart = orders[m].cart
              /\ orders'[m].customer = orders[m].customer
              /\ orders'[m].coupon = orders[m].coupon
              /\ orders'[m].activation = orders[m].activation
         /\ CouponOrders(orders') = CouponOrders(orders)
         /\ \A k : RedeemedBy(orders', k) = RedeemedBy(orders, k)
  <1>1. DOMAIN orders' = DOMAIN orders
    BY DEF Settle, TypeOK
  <1>2. \A m \in DOMAIN orders : orders[m] \in Order
    BY DEF TypeOK
  <1>3. \A m \in DOMAIN orders :
          orders'[m] = IF m = n THEN [orders[m] EXCEPT !.phase = phase] ELSE orders[m]
    BY DEF Settle, TypeOK
  <1>4. \A m \in DOMAIN orders :
          /\ orders'[m].cart = orders[m].cart
          /\ orders'[m].customer = orders[m].customer
          /\ orders'[m].coupon = orders[m].coupon
          /\ orders'[m].activation = orders[m].activation
    BY <1>2, <1>3 DEF Order
  <1>5. CouponOrders(orders') = CouponOrders(orders)
    BY <1>1, <1>4 DEF CouponOrders
  <1>6. \A k : RedeemedBy(orders', k) = RedeemedBy(orders, k)
    BY <1>4, <1>5 DEF CouponOrders, RedeemedBy
  <1> QED
    BY <1>1, <1>4, <1>5, <1>6

(* When r has the lock of a row, nobody else has.                          *)
LEMMA OnlyHolder ==
  ASSUME Exclusive, NEW r \in Request, NEW q \in Request, q # r, NEW row, row \in held[r]
  PROVE  row \notin held[q]
  BY DEF Exclusive

(* A transaction that commits has locked every row of stock that it        *)
(* writes, so the stock of rows it has not locked stays as it is.          *)
LEMMA CommitStock ==
  ASSUME TypeOK, NEW r \in Request, Good(r), Commit(r), NEW s \in Sku
  PROVE  /\ stock'[s] = stock[s] /\ reserved'[s] = reserved[s] + snap[r].lines[s]
         /\ snap[r].lines[s] \in Nat
         /\ snap[r].lines[s] > 0 => /\ SkuRow(s) \in held[r]
                                    /\ reserved[s] + snap[r].lines[s] <= stock[s]
  <1>1. snap[r].lines \in [Sku -> 0..MaxQty]
    BY DEF TypeOK, Lines
  <1>2. snap[r].lines[s] \in Nat
    BY <1>1, DataAssumption
  <1>3. pc[r] = "commit" /\ stock' = stock /\ reserved' = Plus(reserved, snap[r].lines)
    BY DEF Commit
  <1>4. ASSUME snap[r].lines[s] > 0 PROVE SkuRow(s) \in held[r]
    <2>1. s \in SkusOf(snap[r].lines) /\ todo[r] = {}
      BY <1>3, <1>4 DEF SkusOf, Good, AfterLines, AfterCart, InTx
    <2> QED
      BY <1>3, <2>1 DEF Good, AfterCart, InTx
  <1>5. stock[s] \in Int /\ reserved[s] \in Int
    BY DEF TypeOK
  <1>6. SkuRow(s) \in held[r] => stock[s] - reserved[s] >= snap[r].lines[s]
    BY DEF Good, InStock
  <1> QED
    BY <1>2, <1>3, <1>4, <1>5, <1>6 DEF Plus

(* A step of r takes away nothing that another request relies on.          *)
LEMMA OthersGood ==
  ASSUME TypeOK, Exclusive, NEW r \in Request, Good(r),
         Statement(r) \/ DeadlockAbort(r) \/ Abort(r),
         NEW q \in Request, q # r, Good(q)
  PROVE  Good(q)'
  <1>1. /\ pc'[q] = pc[q] /\ snap'[q] = snap[q] /\ todo'[q] = todo[q]
        /\ num'[q] = num[q] /\ held'[q] = held[q]
    BY OthersKeep
  <1>2. CASE ~Commit(r) /\ ~Reopen(r)
    <2>1. UNCHANGED <<tables, status>>
      BY <1>2, TablesKept
    <2> QED
      BY <1>1, <2>1
      DEF Good, CartStillOpen, InStock, CouponSpent, RedeemedOnce, EnoughPoints, CustomerFor,
          CartFor, SkusOf, tables
  <1>3. CASE Reopen(r)
    <2>1. UNCHANGED tables
      BY <1>3 DEF Reopen
    <2>2. pc[q] \in AfterCart => CartStillOpen(CartFor(q))'
      BY <1>3 DEF Reopen, Good, CartStillOpen, CartFor, Free, TypeOK
    <2> QED
      BY <1>1, <2>1, <2>2
      DEF Good, InStock, CouponSpent, RedeemedOnce, EnoughPoints, CustomerFor, CartFor,
          SkusOf, tables
  <1>4. CASE Commit(r)
    <2>0. /\ pc[r] = "commit" /\ CartRow(CartFor(r)) \in held[r] /\ SeqRow \in held[r]
          /\ snap[r].coupon => CouponRow \in held[r]
          /\ snap[r].points > 0 => PointsRow(CustomerFor(r)) \in held[r]
      BY <1>4
      DEF Commit, Good, AfterCart, AfterLines, AfterCoupon, AfterNumber, InTx
    <2>1. pc[q] \in AfterCart => CartRow(CartFor(q)) \in held[q] /\ CartStillOpen(CartFor(q))'
      <3> HAVE pc[q] \in AfterCart
      <3>1. CartRow(CartFor(q)) \in held[q] /\ status[CartFor(q)] = "ACTIVE"
        BY DEF Good, CartStillOpen
      <3>2. CartFor(q) # CartFor(r)
        BY <2>0, <3>1, OnlyHolder
      <3> QED
        BY <1>4, <3>1, <3>2 DEF Commit, CartStillOpen, CartFor, TypeOK
    <2>2. ASSUME NEW s \in Sku, SkuRow(s) \in held[q]
          PROVE  stock'[s] - reserved'[s] >= snap[q].lines[s]
      <3>1. SkuRow(s) \notin held[r]
        BY <2>2, OnlyHolder
      <3>2. stock'[s] = stock[s] /\ reserved'[s] = reserved[s] + snap[r].lines[s]
            /\ ~(snap[r].lines[s] > 0) /\ snap[r].lines[s] \in Nat
        BY <1>4, <3>1, CommitStock
      <3>3. reserved'[s] = reserved[s]
        BY <3>2 DEF TypeOK
      <3> QED
        BY <2>2, <3>2, <3>3 DEF Good, InStock
    <2>3. pc[q] \in AfterCoupon /\ snap[q].coupon
            => CouponRow \in held[q] /\ ~CouponSpent' /\ ~RedeemedOnce(CustomerFor(q))'
      <3> HAVE pc[q] \in AfterCoupon /\ snap[q].coupon
      <3>1. CouponRow \in held[q] /\ ~CouponSpent /\ ~RedeemedOnce(CustomerFor(q))
        BY DEF Good
      <3>2. ~snap[r].coupon
        BY <2>0, <3>1, OnlyHolder
      <3>3. used' = used /\ RedeemedBy(orders', CustomerFor(q)) = RedeemedBy(orders, CustomerFor(q))
        BY <1>4, <3>2, CommitRedemptions DEF Commit
      <3> QED
        BY <3>1, <3>3 DEF CouponSpent, RedeemedOnce, CustomerFor
    <2>4. SeqRow \notin held[q] /\ pc[q] \notin AfterNumber
      BY <2>0, OnlyHolder DEF Good
    <2>5. pc[q] = "commit" => FALSE
      BY <2>4 DEF AfterNumber
    <2> QED
      BY <1>1, <2>1, <2>2, <2>3, <2>4, <2>5
      DEF Good, InStock, AfterNumber, CustomerFor, CartFor, SkusOf
  <1> QED
    BY <1>2, <1>3, <1>4
-----------------------------------------------------------------------------
(* The settling of an order leaves what the running transactions rely on.  *)
LEMMA SettleKeeps ==
  ASSUME TypeOK, NEW n \in DOMAIN orders, DeliverOrder(n) \/ CancelOrder(n)
  PROVE  /\ UNCHANGED <<used, seq, carts, valid, local, pc, held>>
         /\ \A s \in Sku :
              /\ orders[n].lines[s] \in Nat
              /\ reserved'[s] = reserved[s] - orders[n].lines[s]
              /\ stock'[s] = stock[s] \/ stock'[s] = stock[s] - orders[n].lines[s]
              /\ \A r \in Request : SkuRow(s) \in held[r] => orders[n].lines[s] = 0
         /\ \A k \in Customer : balance'[k] >= balance[k]
         /\ DOMAIN orders' = DOMAIN orders
         /\ \A m \in DOMAIN orders :
              /\ orders'[m].cart = orders[m].cart
              /\ orders'[m].customer = orders[m].customer
              /\ orders'[m].activation = orders[m].activation
         /\ CouponOrders(orders') = CouponOrders(orders)
         /\ \A k : RedeemedBy(orders', k) = RedeemedBy(orders, k)
  <1>1. PICK phase \in {"delivered", "cancelled"} : Settle(n, phase)
    BY DEF DeliverOrder, CancelOrder
  <1>2. orders[n] \in Order /\ orders[n].lines \in [Sku -> 0..MaxQty]
    BY DEF TypeOK, Order, Lines
  <1>3. \A s \in Sku : orders[n].lines[s] \in Nat
    BY <1>2, DataAssumption
  <1>4. Earned(orders[n]) \in Nat
    BY <1>2, EarnedType
  <1>5. \A k \in Customer : balance'[k] >= balance[k]
    <2>1. \A k \in Customer : balance[k] \in Int
      BY DEF TypeOK
    <2>2. CASE DeliverOrder(n)
      BY <1>4, <2>1, <2>2 DEF DeliverOrder, TypeOK
    <2>3. CASE CancelOrder(n)
      BY <2>1, <2>3 DEF CancelOrder
    <2> QED
      BY <2>2, <2>3
  <1>6. ASSUME NEW s \in Sku
        PROVE  /\ reserved'[s] = reserved[s] - orders[n].lines[s]
               /\ stock'[s] = stock[s] \/ stock'[s] = stock[s] - orders[n].lines[s]
               /\ \A r \in Request : SkuRow(s) \in held[r] => orders[n].lines[s] = 0
    <2>1. reserved'[s] = reserved[s] - orders[n].lines[s]
      BY <1>1 DEF Settle, Minus
    <2>2. stock' = stock \/ stock' = Minus(stock, orders[n].lines)
      BY DEF DeliverOrder, CancelOrder
    <2>3. stock'[s] = stock[s] \/ stock'[s] = stock[s] - orders[n].lines[s]
      BY <2>2 DEF Minus
    <2>4. orders[n].lines[s] > 0 => Free(SkuRow(s))
      BY <1>1 DEF Settle, SkusOf
    <2> QED
      BY <1>3, <2>1, <2>3, <2>4 DEF Free
  <1>7. UNCHANGED <<used, seq, carts, valid, local, pc, held>>
    BY <1>1 DEF Settle
  <1> QED
    BY <1>1, <1>3, <1>5, <1>6, <1>7, SettleOrders

LEMMA SettleGood ==
  ASSUME TypeOK, NEW n \in DOMAIN orders, DeliverOrder(n) \/ CancelOrder(n),
         NEW r \in Request, Good(r)
  PROVE  Good(r)'
  <1>1. UNCHANGED <<used, seq, status, snap, todo, num, pc, held>>
    BY SettleKeeps DEF carts, local
  <1>2. ASSUME NEW s \in Sku, SkuRow(s) \in held[r]
        PROVE  stock'[s] - reserved'[s] >= snap[r].lines[s]
    <2>1. stock[s] \in Int /\ reserved[s] \in Int
      BY DEF TypeOK
    <2>2. stock'[s] = stock[s] /\ reserved'[s] = reserved[s]
      <3>1. orders[n].lines[s] = 0
        BY <1>2, SettleKeeps
      <3>2. /\ reserved'[s] = reserved[s] - orders[n].lines[s]
            /\ stock'[s] = stock[s] \/ stock'[s] = stock[s] - orders[n].lines[s]
        BY SettleKeeps
      <3> QED
        BY <2>1, <3>1, <3>2
    <2> QED
      BY <1>2, <2>2 DEF Good, InStock
  <1>3. RedeemedBy(orders', CustomerFor(r)) = RedeemedBy(orders, CustomerFor(r))
    BY SettleKeeps
  <1>4. CustomerFor(r) \in Customer
    BY RequestAssumption, DataAssumption DEF CustomerFor
  <1>5. /\ balance'[CustomerFor(r)] >= balance[CustomerFor(r)]
        /\ balance[CustomerFor(r)] \in Int /\ balance'[CustomerFor(r)] \in Int
        /\ snap[r].points \in Int
    <2>1. balance' \in [Customer -> Int]
      <3>1. orders[n] \in Order /\ orders[n].customer \in Customer
        BY DEF TypeOK, Order
      <3>2. Earned(orders[n]) \in Int
        BY <3>1, EarnedType
      <3> QED
        BY <3>1, <3>2 DEF DeliverOrder, CancelOrder, TypeOK
    <2>2. balance'[CustomerFor(r)] >= balance[CustomerFor(r)]
      BY <1>4, SettleKeeps
    <2> QED
      BY <1>4, <2>1, <2>2 DEF TypeOK
  <1>6. EnoughPoints(CustomerFor(r), snap[r].points)
          => balance'[CustomerFor(r)] >= snap[r].points
    BY <1>5 DEF EnoughPoints
  <1>7. ~RedeemedOnce(CustomerFor(r)) => ~RedeemedOnce(CustomerFor(r))'
    BY <1>3 DEF RedeemedOnce, CustomerFor
  <1> QED
    BY <1>1, <1>2, <1>6, <1>7
    DEF Good, CartStillOpen, InStock, CouponSpent, EnoughPoints, CustomerFor, CartFor, SkusOf
-----------------------------------------------------------------------------
(* The books after a step: one lemma per invariant, for the steps that     *)
(* write to the tables it is about.                                        *)
LEMMA OversellCommit ==
  ASSUME TypeOK, NoOversell, NEW r \in Request, Good(r), Commit(r)
  PROVE  NoOversell'
  <1> SUFFICES ASSUME NEW s \in Sku PROVE reserved'[s] <= stock'[s]
    BY DEF NoOversell
  <1>1. /\ stock'[s] = stock[s] /\ reserved'[s] = reserved[s] + snap[r].lines[s]
        /\ snap[r].lines[s] \in Nat
        /\ snap[r].lines[s] > 0 => reserved[s] + snap[r].lines[s] <= stock[s]
    BY CommitStock
  <1>2. reserved[s] <= stock[s] /\ stock[s] \in Int /\ reserved[s] \in Int
    BY DEF NoOversell, TypeOK
  <1> QED
    BY <1>1, <1>2

LEMMA OversellSettle ==
  ASSUME TypeOK, NoOversell, NEW n \in DOMAIN orders, DeliverOrder(n) \/ CancelOrder(n)
  PROVE  NoOversell'
  <1> SUFFICES ASSUME NEW s \in Sku PROVE reserved'[s] <= stock'[s]
    BY DEF NoOversell
  <1>1. /\ orders[n].lines[s] \in Nat
        /\ reserved'[s] = reserved[s] - orders[n].lines[s]
        /\ stock'[s] = stock[s] \/ stock'[s] = stock[s] - orders[n].lines[s]
    BY SettleKeeps
  <1>2. reserved[s] <= stock[s] /\ stock[s] \in Int /\ reserved[s] \in Int
    BY DEF NoOversell, TypeOK
  <1> QED
    BY <1>1, <1>2

LEMMA CouponStep ==
  ASSUME TypeOK, CouponWithinLimits, NEW r \in Request, Good(r), Commit(r)
  PROVE  CouponWithinLimits'
  <1>0. pc[r] = "commit" /\ used' = IF snap[r].coupon THEN used + 1 ELSE used
    BY DEF Commit
  <1>1. used \in Nat /\ Coupon.maxUses \in Nat \cup {NoLimit}
        /\ Coupon.maxUsesPerCustomer \in Nat
    BY DataAssumption DEF TypeOK
  <1>2. CASE ~snap[r].coupon
    <2>1. used' = used /\ CouponOrders(orders') = CouponOrders(orders)
          /\ \A k : RedeemedBy(orders', k) = RedeemedBy(orders, k)
      BY <1>0, <1>2, CommitRedemptions
    <2> QED
      BY <2>1 DEF CouponWithinLimits
  <1>3. CASE snap[r].coupon
    <2>1. ~CouponSpent /\ ~RedeemedOnce(CustomerFor(r))
      BY <1>0, <1>3 DEF Good, AfterCoupon, AfterLines, AfterCart, InTx
    <2>2. Cardinality(CouponOrders(orders')) = Cardinality(CouponOrders(orders)) + 1
      BY <1>3, CommitRedemptions, FS_AddElement
    <2>3. used' = Cardinality(CouponOrders(orders'))
      BY <1>0, <1>3, <2>2 DEF CouponWithinLimits
    <2>4. Coupon.maxUses # NoLimit => used' <= Coupon.maxUses
      BY <1>0, <1>1, <1>3, <2>1 DEF CouponSpent
    <2>5. ASSUME NEW k \in Customer
          PROVE  Cardinality(RedeemedBy(orders', k)) <= Coupon.maxUsesPerCustomer
      <3>1. CASE k # CustomerFor(r)
        <4>1. RedeemedBy(orders', k) = RedeemedBy(orders, k)
          BY <3>1, CommitRedemptions
        <4> QED
          BY <4>1 DEF CouponWithinLimits
      <3>2. CASE k = CustomerFor(r)
        <4>1. /\ RedeemedBy(orders', k) = RedeemedBy(orders, k) \cup {seq + 1}
              /\ seq + 1 \notin RedeemedBy(orders, k) /\ IsFiniteSet(RedeemedBy(orders, k))
          BY <1>3, <3>2, CommitRedemptions
        <4>2. /\ Cardinality(RedeemedBy(orders', k)) = Cardinality(RedeemedBy(orders, k)) + 1
              /\ Cardinality(RedeemedBy(orders, k)) \in Nat
          BY <4>1, FS_AddElement, FS_CardinalityType
        <4>3. ~(Cardinality(RedeemedBy(orders, k)) >= Coupon.maxUsesPerCustomer)
          BY <2>1, <3>2 DEF RedeemedOnce
        <4> QED
          BY <1>1, <4>2, <4>3
      <3> QED
        BY <3>1, <3>2
    <2> QED
      BY <2>3, <2>4, <2>5 DEF CouponWithinLimits
  <1> QED
    BY <1>2, <1>3

LEMMA PointsStep ==
  ASSUME TypeOK, NeverOverdrawn, NEW r \in Request, Good(r), Commit(r)
  PROVE  NeverOverdrawn'
  <1>1. CustomerFor(r) \in Customer
    BY RequestAssumption, DataAssumption DEF CustomerFor
  <1>2. /\ \A k \in Customer : balance[k] \in Int
        /\ snap[r].points \in Int
        /\ balance \in [Customer -> Int]
    BY DEF TypeOK
  <1>3. snap[r].points > 0 => balance[CustomerFor(r)] >= snap[r].points
    BY DEF Commit, Good, EnoughPoints
  <1>4. balance' = IF snap[r].points > 0
                   THEN [balance EXCEPT ![CustomerFor(r)] = @ - snap[r].points]
                   ELSE balance
    BY DEF Commit
  <1> QED
    BY <1>1, <1>2, <1>3, <1>4 DEF NeverOverdrawn

LEMMA ActivationStep ==
  ASSUME TypeOK, ActivationInv, OneOrderPerActivation, NEW r \in Request, Good(r), Commit(r)
  PROVE  ActivationInv' /\ OneOrderPerActivation'
  <1>1. /\ num[r] = seq + 1 /\ seq' = seq + 1 /\ seq \in Nat
        /\ DOMAIN orders = 1..seq /\ DOMAIN orders' = 1..(seq + 1)
        /\ orders'[seq + 1] = NewOrder(r)
        /\ \A n \in 1..seq : orders'[n] = orders[n]
    BY CommitOrders
  <1>2. /\ NewOrder(r).cart = CartFor(r) /\ NewOrder(r).customer = CustomerOf[CartFor(r)]
        /\ NewOrder(r).activation = fill[CartFor(r)]
    BY DEF NewOrder, CustomerFor, CartFor
  <1>3. CartStillOpen(CartFor(r)) /\ CartFor(r) \in Cart
    BY RequestAssumption DEF Commit, Good, AfterCart, InTx, CartFor
  <1>4. /\ status' = [status EXCEPT ![CartFor(r)] = "CONVERTED"] /\ fill' = fill
        /\ status \in [Cart -> {"ACTIVE", "CONVERTED"}] /\ fill \in [Cart -> Nat]
    BY DEF Commit, TypeOK
  <1>5. \A n \in 1..seq : orders[n].cart \in Cart /\ orders[n].activation \in Nat
    BY DEF TypeOK, Order
  <1>6. \A n \in 1..(seq + 1) : n \in 1..seq \/ n = seq + 1
    BY <1>1
  <1>7. ASSUME NEW n \in 1..(seq + 1)
        PROVE  /\ orders'[n].customer = CustomerOf[orders'[n].cart]
               /\ orders'[n].activation <= fill'[orders'[n].cart]
               /\ status'[orders'[n].cart] = "ACTIVE"
                    => orders'[n].activation < fill'[orders'[n].cart]
    <2>1. CASE n = seq + 1
      BY <1>1, <1>2, <1>3, <1>4, <2>1
    <2>2. CASE n \in 1..seq
      <3>1. /\ orders[n].customer = CustomerOf[orders[n].cart]
            /\ orders[n].activation <= fill[orders[n].cart]
            /\ status[orders[n].cart] = "ACTIVE"
                 => orders[n].activation < fill[orders[n].cart]
        BY <1>1, <2>2 DEF ActivationInv, CartStillOpen
      <3> QED
        BY <1>1, <1>3, <1>4, <1>5, <2>2, <3>1
    <2> QED
      BY <1>6, <2>1, <2>2
  <1>8. ActivationInv'
    BY <1>1, <1>7 DEF ActivationInv, CartStillOpen
  <1>9. \A n \in 1..seq : orders[n].cart = CartFor(r)
                            => orders[n].activation < fill[CartFor(r)]
    BY <1>1, <1>3 DEF ActivationInv
  <1>10. OneOrderPerActivation'
    <2> SUFFICES ASSUME NEW m \in 1..(seq + 1), NEW n \in 1..(seq + 1), m # n,
                        orders'[m].cart = orders'[n].cart
                 PROVE  orders'[m].activation # orders'[n].activation
      BY <1>1 DEF OneOrderPerActivation
    <2>1. CASE m \in 1..seq /\ n \in 1..seq
      BY <1>1, <2>1 DEF OneOrderPerActivation
    <2>2. CASE m = seq + 1 /\ n \in 1..seq
      BY <1>1, <1>2, <1>3, <1>4, <1>5, <1>9, <2>2
    <2>3. CASE n = seq + 1 /\ m \in 1..seq
      BY <1>1, <1>2, <1>3, <1>4, <1>5, <1>9, <2>3
    <2> QED
      BY <1>6, <2>1, <2>2, <2>3
  <1> QED
    BY <1>8, <1>10

(* Reopening a cart starts an activation that no order has.                *)
LEMMA ReopenStep ==
  ASSUME TypeOK, ActivationInv, NEW r \in Request, Reopen(r)
  PROVE  ActivationInv'
  <1>1. CartFor(r) \in Cart
    BY RequestAssumption DEF CartFor
  <1>2. \A n \in DOMAIN orders : orders[n].cart \in Cart /\ orders[n].activation \in Nat
    BY DEF TypeOK, Order
  <1>3. /\ orders' = orders
        /\ status' = [status EXCEPT ![CartFor(r)] = "ACTIVE"]
        /\ fill' = IF status[CartFor(r)] = "ACTIVE" THEN fill
                   ELSE [fill EXCEPT ![CartFor(r)] = @ + 1]
        /\ status \in [Cart -> {"ACTIVE", "CONVERTED"}] /\ fill \in [Cart -> Nat]
    BY DEF Reopen, tables, TypeOK
  <1> QED
    BY <1>1, <1>2, <1>3 DEF ActivationInv, CartStillOpen
-----------------------------------------------------------------------------
(* The invariant is inductive.                                             *)
LEMMA InitInv == Init => IInv
  <1> SUFFICES ASSUME Init PROVE IInv
    OBVIOUS
  <1>1. TypeOK
    BY InitTypes
  <1>2. /\ orders = <<>> /\ used = 0 /\ stock = Stock0 /\ balance = Balance0
        /\ reserved = [s \in Sku |-> 0]
        /\ \A r \in Request : pc[r] = "idle" /\ held[r] = {}
    BY DEF Init
  <1>3. Exclusive /\ \A r \in Request : Good(r)
    BY <1>2 DEF Exclusive, Good, AfterCart, AfterLines, AfterCoupon, AfterNumber, InTx
  <1>4. DOMAIN orders = {}
    BY <1>2
  <1>5. ActivationInv /\ OneOrderPerActivation
    BY <1>4 DEF ActivationInv, OneOrderPerActivation
  <1>6. NoOversell /\ NeverOverdrawn
    BY <1>2, InitialTablesAssumption DEF NoOversell, NeverOverdrawn
  <1>7. CouponWithinLimits
    <2>1. CouponOrders(orders) = {} /\ \A k : RedeemedBy(orders, k) = {}
      BY <1>4 DEF CouponOrders, RedeemedBy
    <2>2. Cardinality({}) = 0
      BY FS_EmptySet
    <2>3. Coupon.maxUses # NoLimit => 0 <= Coupon.maxUses
      <3>1. Coupon.maxUses \in Nat \/ Coupon.maxUses = NoLimit
        BY DataAssumption
      <3> QED
        BY <3>1
    <2>4. 0 <= Coupon.maxUsesPerCustomer
      BY DataAssumption
    <2>5. used = 0
      BY <1>2
    <2> QED
      BY <2>1, <2>2, <2>3, <2>4, <2>5 DEF CouponWithinLimits
  <1> QED
    BY <1>1, <1>3, <1>5, <1>6, <1>7, GoodParts DEF IInv

LEMMA NextInv == IInv /\ [Next]_vars => IInv'
  <1> SUFFICES ASSUME IInv, [Next]_vars PROVE IInv'
    OBVIOUS
  <1>0. /\ TypeOK /\ Exclusive /\ (\A r \in Request : Good(r)) /\ ActivationInv
        /\ NoOversell /\ CouponWithinLimits /\ NeverOverdrawn /\ OneOrderPerActivation
    BY GoodParts DEF IInv
  <1>1. TypeOK'
    BY TypeStep DEF IInv
  <1>2. ASSUME NEW r \in Request, Statement(r) \/ DeadlockAbort(r) \/ Abort(r)
        PROVE  IInv'
    <2>1. Exclusive'
      BY <1>0, <1>2, ExclusiveStep
    <2>2. ASSUME NEW q \in Request PROVE Good(q)'
      <3>1. CASE q = r
        BY <1>0, <1>2, <3>1, SelfGood
      <3>2. CASE q # r
        BY <1>0, <1>2, <3>2, OthersGood
      <3> QED
        BY <3>1, <3>2
    <2>3. LockInv' /\ CartInv' /\ StockInv' /\ CouponInv' /\ NumberInv' /\ PointsInv'
      BY <2>1, <2>2, GoodParts
    <2>4. /\ ActivationInv' /\ OneOrderPerActivation'
          /\ NoOversell' /\ CouponWithinLimits' /\ NeverOverdrawn'
      <3>1. CASE Commit(r)
        BY <1>0, <3>1, ActivationStep, OversellCommit, CouponStep, PointsStep
      <3>2. CASE ~Commit(r)
        <4>1. UNCHANGED tables
          BY <1>2, <3>2, TablesKept
        <4>2. /\ OneOrderPerActivation' /\ NoOversell' /\ CouponWithinLimits'
              /\ NeverOverdrawn'
          BY <1>0, <4>1
          DEF OneOrderPerActivation, NoOversell, CouponWithinLimits, NeverOverdrawn, tables
        <4>3. CASE Reopen(r)
          BY <1>0, <4>2, <4>3, ReopenStep
        <4>4. CASE ~Reopen(r)
          <5>1. UNCHANGED <<status, fill>>
            BY <1>2, <3>2, <4>4, TablesKept
          <5>2. ActivationInv'
            BY <1>0, <4>1, <5>1 DEF ActivationInv, CartStillOpen, tables
          <5> QED
            BY <4>2, <5>2
        <4> QED
          BY <4>3, <4>4
      <3> QED
        BY <3>1, <3>2
    <2> QED
      BY <1>1, <2>3, <2>4 DEF IInv
  <1>3. ASSUME NEW n \in DOMAIN orders, DeliverOrder(n) \/ CancelOrder(n)
        PROVE  IInv'
    <2>1. UNCHANGED <<used, status, fill, held>>
      BY <1>0, <1>3, SettleKeeps DEF carts
    <2>2. Exclusive'
      BY <1>0, <2>1 DEF Exclusive
    <2>3. \A r \in Request : Good(r)'
      BY <1>0, <1>3, SettleGood
    <2>4. NoOversell'
      BY <1>0, <1>3, OversellSettle
    <2>5. NeverOverdrawn'
      <3>1. \A k \in Customer : balance'[k] >= balance[k] /\ balance[k] \in Int
                                /\ balance'[k] \in Int
        BY <1>0, <1>1, <1>3, SettleKeeps DEF TypeOK
      <3> QED
        BY <1>0, <3>1 DEF NeverOverdrawn
    <2>6. CouponWithinLimits'
      <3>1. CouponOrders(orders') = CouponOrders(orders)
            /\ \A k : RedeemedBy(orders', k) = RedeemedBy(orders, k)
        BY <1>0, <1>3, SettleKeeps
      <3> QED
        BY <1>0, <2>1, <3>1 DEF CouponWithinLimits
    <2>7. ActivationInv' /\ OneOrderPerActivation'
      <3>1. /\ DOMAIN orders' = DOMAIN orders
            /\ \A m \in DOMAIN orders :
                 /\ orders'[m].cart = orders[m].cart
                 /\ orders'[m].customer = orders[m].customer
                 /\ orders'[m].activation = orders[m].activation
        BY <1>0, <1>3, SettleKeeps
      <3> QED
        BY <1>0, <2>1, <3>1 DEF ActivationInv, OneOrderPerActivation, CartStillOpen
    <2>8. LockInv' /\ CartInv' /\ StockInv' /\ CouponInv' /\ NumberInv' /\ PointsInv'
      BY <2>2, <2>3, GoodParts
    <2> QED
      BY <1>1, <2>4, <2>5, <2>6, <2>7, <2>8 DEF IInv
  <1>4. CASE ExpireCoupon \/ Rest \/ UNCHANGED vars
    <2>1. UNCHANGED <<tables, carts, local, pc, held>>
      BY <1>4 DEF ExpireCoupon, Rest, vars
    <2> QED
      BY <1>0, <1>1, <2>1
      DEF IInv, LockInv, CartInv, StockInv, CouponInv, NumberInv, PointsInv, ActivationInv,
          NoOversell, CouponWithinLimits, NeverOverdrawn, OneOrderPerActivation,
          CartStillOpen, InStock, CouponSpent, RedeemedOnce, EnoughPoints, tables, carts,
          local
  <1> QED
    BY <1>2, <1>3, <1>4 DEF Next

LEMMA InductiveInvariant == Spec => []IInv
  BY InitInv, NextInv, PTL DEF Spec

(* Every table and every local variable keeps its type, for any number of  *)
(* requests, carts, rows and customers: the numbers of the orders are      *)
(* always 1 to the counter of the year, without a gap.                     *)
THEOREM TypeCorrect == Spec => []TypeOK
  <1>1. IInv => TypeOK
    BY DEF IInv
  <1> QED
    BY <1>1, InductiveInvariant, PTL

(* Whatever the interleaving of checkouts, deliveries and cancellations,   *)
(* reservedStock never exceeds stock.                                      *)
THEOREM NeverOversold == Spec => []NoOversell
  <1>1. IInv => NoOversell
    BY DEF IInv
  <1> QED
    BY <1>1, InductiveInvariant, PTL

(* Concurrent checkouts with the coupon keep both of its limits, although  *)
(* the check before the transaction is not locked.                         *)
THEOREM CouponLimitsKept == Spec => []CouponWithinLimits
  <1>1. IInv => CouponWithinLimits
    BY DEF IInv
  <1> QED
    BY <1>1, InductiveInvariant, PTL

(* The balance of a loyalty account never goes below zero, although the    *)
(* points to redeem come from an unlocked read.                            *)
THEOREM PointsNeverOverdrawn == Spec => []NeverOverdrawn
  <1>1. IInv => NeverOverdrawn
    BY DEF IInv
  <1> QED
    BY <1>1, InductiveInvariant, PTL

(* One activation of a cart becomes at most one order, however many        *)
(* requests check it out at once.                                          *)
THEOREM OneOrderEach == Spec => []OneOrderPerActivation
  <1>1. IInv => OneOrderPerActivation
    BY DEF IInv
  <1> QED
    BY <1>1, InductiveInvariant, PTL
-----------------------------------------------------------------------------
(* Checkout implements OrderBook.                                          *)
LEMMA InitRefines == Init => OB!Init
  <1> SUFFICES ASSUME Init PROVE OB!Init
    OBVIOUS
  <1>1. [c \in Cart |-> status[c] = "ACTIVE"] \in [Cart -> BOOLEAN]
    OBVIOUS
  <1> QED
    BY <1>1, InitialTablesAssumption DEF Init, OB!Init

(* The operators on data are the same ones through the instance.           *)
LEMMA SameData ==
  /\ OB!Order = Order
  /\ \A f, g, l : /\ OB!Covers(f, g, l) <=> Covers(f, g, l)
                  /\ OB!Plus(f, l) = Plus(f, l)
                  /\ OB!Minus(f, l) = Minus(f, l)
  /\ \A b, k : OB!RedeemedBy(b, k) = RedeemedBy(b, k)
  /\ \A S : OB!Cardinality(S) = Cardinality(S)
  /\ \A o : OB!Earned(o) = Earned(o)
  <1>1. OB!Order = Order
    BY DEF OB!Order, Order, OB!Lines, Lines
  <1>2. \A f, g, l : /\ OB!Covers(f, g, l) <=> Covers(f, g, l)
                    /\ OB!Plus(f, l) = Plus(f, l)
                    /\ OB!Minus(f, l) = Minus(f, l)
    BY DEF OB!Covers, Covers, OB!Plus, Plus, OB!Minus, Minus
  <1>3. \A b, k : OB!RedeemedBy(b, k) = RedeemedBy(b, k)
    BY DEF OB!RedeemedBy, RedeemedBy, OB!CouponOrders, CouponOrders
  <1>4. \A x, c : OB!calculateCouponDiscount(x, c) = calculateCouponDiscount(x, c)
    BY DEF OB!calculateCouponDiscount, calculateCouponDiscount, OB!RoundToDirham,
           RoundToDirham, OB!Smaller, Smaller
  <1>5. \A l, b : OB!CouponDiscount(l, b) = CouponDiscount(l, b)
    BY <1>4 DEF OB!CouponDiscount, CouponDiscount
  <1>6. \A o : OB!Earned(o) = Earned(o)
    BY <1>5 DEF OB!Earned, Earned, OB!earnedPoints, earnedPoints
  <1>7. \A S : OB!Cardinality(S) = Cardinality(S)
    BY Zenon DEF OB!Cardinality, Cardinality
  <1> QED
    BY <1>1, <1>2, <1>3, <1>6, <1>7

(* A commit is an order the books may accept at that moment.               *)
LEMMA CommitRefines ==
  ASSUME IInv, IInv', NEW r \in Request, Commit(r)
  PROVE  seq' = seq + 1 /\ OB!Place(orders'[seq + 1])
  <1>1. TypeOK /\ Good(r)
    BY GoodParts DEF IInv
  <1>2. /\ num[r] = seq + 1 /\ seq' = seq + 1 /\ seq \in Nat
        /\ DOMAIN orders = 1..seq /\ DOMAIN orders' = 1..(seq + 1)
        /\ orders'[seq + 1] = NewOrder(r)
        /\ \A n \in 1..seq : orders'[n] = orders[n]
    BY <1>1, CommitOrders
  <1> DEFINE o == orders'[seq + 1]
  <1>3. o = NewOrder(r) /\ o \in Order
    BY <1>2 DEF IInv, TypeOK
  <1>4. /\ o.cart = CartFor(r) /\ o.customer = CustomerFor(r)
        /\ o.customer = CustomerOf[o.cart] /\ o.lines = snap[r].lines
        /\ o.coupon = snap[r].coupon /\ o.points = snap[r].points
        /\ o.activation = fill[CartFor(r)] /\ o.phase = "open"
    BY <1>3 DEF NewOrder, CustomerFor, CartFor
  <1>5. CartFor(r) \in Cart /\ status[CartFor(r)] = "ACTIVE"
    BY <1>1, RequestAssumption DEF Commit, Good, AfterCart, InTx, CartFor, CartStillOpen
  <1>6. Covers(stock, reserved, o.lines)
    <2> SUFFICES ASSUME NEW s \in Sku PROVE snap[r].lines[s] <= stock[s] - reserved[s]
      BY <1>4 DEF Covers
    <2>1. /\ snap[r].lines[s] \in Nat
          /\ snap[r].lines[s] > 0 => reserved[s] + snap[r].lines[s] <= stock[s]
      BY <1>1, CommitStock
    <2>2. reserved[s] <= stock[s] /\ stock[s] \in Int /\ reserved[s] \in Int
      BY DEF IInv, NoOversell, TypeOK
    <2> QED
      BY <2>1, <2>2
  <1>7. o.coupon => OB!CouponLeft(o.customer)
    <2> HAVE o.coupon
    <2>1. ~CouponSpent /\ ~RedeemedOnce(CustomerFor(r))
      BY <1>1, <1>4 DEF Commit, Good, AfterCoupon, AfterLines, AfterCart, InTx
    <2>2. Cardinality(RedeemedBy(orders, CustomerFor(r))) \in Nat
      BY <1>1, CommitRedemptions, FS_CardinalityType
    <2>3. used \in Nat /\ Coupon.maxUsesPerCustomer \in Nat
          /\ (Coupon.maxUses \in Nat \/ Coupon.maxUses = NoLimit)
      BY <1>1, DataAssumption DEF TypeOK
    <2> QED
      BY <1>4, <2>1, <2>2, <2>3, SameData DEF CouponSpent, RedeemedOnce, OB!CouponLeft
  <1>8. o.points > 0 => o.points <= balance[o.customer]
    <2>1. CustomerFor(r) \in Customer
      BY RequestAssumption, DataAssumption DEF CustomerFor
    <2>2. balance[CustomerFor(r)] \in Int /\ snap[r].points \in Int
      BY <1>1, <2>1 DEF TypeOK
    <2>3. snap[r].points > 0 => balance[CustomerFor(r)] >= snap[r].points
      BY <1>1 DEF Commit, Good, EnoughPoints
    <2> QED
      BY <1>4, <2>2, <2>3
  <1>9. [c \in Cart |-> status'[c] = "ACTIVE"]
          = [[c \in Cart |-> status[c] = "ACTIVE"] EXCEPT ![o.cart] = FALSE]
    BY <1>1, <1>4, <1>5 DEF Commit, TypeOK
  <1>10. /\ reserved' = Plus(reserved, o.lines)
         /\ used' = IF o.coupon THEN used + 1 ELSE used
         /\ balance' = IF o.points > 0
                       THEN [balance EXCEPT ![o.customer] = @ - o.points] ELSE balance
         /\ UNCHANGED <<fill, stock>>
    BY <1>4 DEF Commit
  <1>11. orders' = [n \in 1..(seq + 1) |-> IF n = seq + 1 THEN o ELSE orders[n]]
    <2>1. 1..(seq + 1) = 1..seq \cup {seq + 1} /\ num[r] = seq + 1
      BY <1>2
    <2> QED
      BY <1>2, <1>3, <2>1 DEF Commit
  <1>12. [c \in Cart |-> status[c] = "ACTIVE"][o.cart]
    BY <1>4, <1>5
  <1>13. o.activation = fill[o.cart]
    BY <1>4
  <1> HIDE DEF o
  <1>14. OB!Place(o)
    BY <1>2, <1>3, <1>4, <1>6, <1>7, <1>8, <1>9, <1>10, <1>11, <1>12, <1>13, SameData
    DEF OB!Place
  <1> QED
    BY <1>2, <1>14 DEF o

LEMMA ReopenRefines ==
  ASSUME TypeOK, NEW r \in Request, Reopen(r)
  PROVE  OB!Reopen(CartFor(r)) \/ UNCHANGED OB!vars
  <1>1. CartFor(r) \in Cart
    BY RequestAssumption DEF CartFor
  <1>2. /\ status \in [Cart -> {"ACTIVE", "CONVERTED"}]
        /\ UNCHANGED <<stock, reserved, used, balance, seq, orders>>
        /\ status' = [status EXCEPT ![CartFor(r)] = "ACTIVE"]
    BY DEF Reopen, TypeOK, tables
  <1>3. [c \in Cart |-> status'[c] = "ACTIVE"]
          = [[c \in Cart |-> status[c] = "ACTIVE"] EXCEPT ![CartFor(r)] = TRUE]
    BY <1>1, <1>2
  <1>4. CASE status[CartFor(r)] = "ACTIVE"
    <2>1. fill' = fill /\ status' = status
      BY <1>1, <1>2, <1>4 DEF Reopen
    <2> QED
      BY <1>2, <2>1 DEF OB!vars
  <1>5. CASE status[CartFor(r)] # "ACTIVE"
    <2>1. fill' = [fill EXCEPT ![CartFor(r)] = @ + 1]
      BY <1>5 DEF Reopen
    <2>2. ~[c \in Cart |-> status[c] = "ACTIVE"][CartFor(r)]
      BY <1>1, <1>5
    <2> QED
      BY <1>2, <1>3, <2>1, <2>2 DEF OB!Reopen
  <1> QED
    BY <1>4, <1>5

LEMMA NextRefines == IInv /\ IInv' /\ [Next]_vars => [OB!Next]_(OB!vars)
  <1> SUFFICES ASSUME IInv, IInv', [Next]_vars PROVE OB!Next \/ UNCHANGED OB!vars
    OBVIOUS
  <1>1. ASSUME NEW r \in Request, Statement(r) \/ DeadlockAbort(r) \/ Abort(r)
        PROVE  OB!Next \/ UNCHANGED OB!vars
    <2>1. CASE Commit(r)
      BY <2>1, CommitRefines DEF OB!Next
    <2>2. CASE Reopen(r)
      <3>1. CartFor(r) \in Cart
        BY RequestAssumption DEF CartFor
      <3> QED
        BY <2>2, <3>1, ReopenRefines DEF OB!Next, IInv
    <2>3. CASE ~Commit(r) /\ ~Reopen(r)
      BY <1>1, <2>3, TablesKept DEF OB!vars, tables
    <2> QED
      BY <2>1, <2>2, <2>3
  <1>2. ASSUME NEW n \in DOMAIN orders, DeliverOrder(n) PROVE OB!Next
    <2>1. OB!Deliver(n)
      BY <1>2, SameData DEF DeliverOrder, Settle, Unsettled, OB!Deliver, OB!Settle, carts
    <2> QED
      BY <2>1 DEF OB!Next
  <1>3. ASSUME NEW n \in DOMAIN orders, CancelOrder(n) PROVE OB!Next
    <2>1. OB!Cancel(n)
      BY <1>3, SameData DEF CancelOrder, Settle, Unsettled, OB!Cancel, OB!Settle, carts
    <2> QED
      BY <2>1 DEF OB!Next
  <1>4. CASE ExpireCoupon \/ Rest \/ UNCHANGED vars
    BY <1>4 DEF ExpireCoupon, Rest, vars, tables, carts, OB!vars
  <1> QED
    BY <1>1, <1>2, <1>3, <1>4 DEF Next

(* Checkout, with its unlocked reads, row locks and deadlocks, does to the *)
(* books what atomic orders, reopenings, deliveries and cancellations do.  *)
THEOREM Refinement == Spec => ImplementsOrderBook
  BY InitRefines, InductiveInvariant, NextRefines, PTL
  DEF ImplementsOrderBook, Spec, OB!Spec

-----------------------------------------------------------------------------
(* The ledger equations, as sums of finitely many pieces. They need of the *)
(* rest of the invariant only what a commit numbers its order.             *)
LedgerInv ==
  /\ \A s \in Sku : IsTally(OpenOrders, LinesWith(s), reserved[s])
  /\ \A k \in Customer : \E took, earned \in Nat :
       /\ IsTally(OrdersOf(k), PointsUsed, took)
       /\ IsTally(DeliveredTo(k), PointsEarned, earned)
       /\ balance[k] = Balance0[k] - took + earned

LEMMA LedgerFacts ==
  ASSUME TypeOK, NEW n \in DOMAIN orders
  PROVE  /\ \A s \in Sku : LinesWith(s)[n] = orders[n].lines[s] /\ LinesWith(s)[n] \in Nat
         /\ PointsUsed[n] = orders[n].points /\ PointsUsed[n] \in Nat
         /\ PointsEarned[n] = Earned(orders[n]) /\ PointsEarned[n] \in Nat
  <1>1. orders[n] \in Order /\ orders[n].lines \in [Sku -> 0..MaxQty] /\ orders[n].points \in Nat
    BY DEF TypeOK, Order, Lines
  <1>2. \A s \in Sku : orders[n].lines[s] \in Nat
    BY <1>1, DataAssumption
  <1>3. Earned(orders[n]) \in Nat
    BY <1>1, EarnedType
  <1> QED
    BY <1>1, <1>2, <1>3 DEF LinesWith, PointsUsed, PointsEarned

(* What an order is worth after a step that leaves it, but for its phase.  *)
LEMMA LedgerAfter ==
  ASSUME NEW n \in DOMAIN orders'
  PROVE  /\ \A s : LinesWith(s)'[n] = orders'[n].lines[s]
         /\ PointsUsed'[n] = orders'[n].points
         /\ PointsEarned'[n] = Earned(orders'[n])
  BY DEF LinesWith, PointsUsed, PointsEarned

LEMMA InitLedger == Init => LedgerInv
  <1> SUFFICES ASSUME Init PROVE LedgerInv
    OBVIOUS
  <1>1. /\ OpenOrders = {} /\ \A k : OrdersOf(k) = {} /\ DeliveredTo(k) = {}
        /\ balance = Balance0 /\ \A s \in Sku : reserved[s] = 0
    BY DEF Init, OpenOrders, OrdersOf, DeliveredTo
  <1>2. \A s \in Sku : IsTally(OpenOrders, LinesWith(s), reserved[s])
    BY <1>1, TallyOfNone
  <1>3. \A k \in Customer : \E took, earned \in Nat :
          /\ IsTally(OrdersOf(k), PointsUsed, took)
          /\ IsTally(DeliveredTo(k), PointsEarned, earned)
          /\ balance[k] = Balance0[k] - took + earned
    <2> TAKE k \in Customer
    <2>1. IsTally(OrdersOf(k), PointsUsed, 0) /\ IsTally(DeliveredTo(k), PointsEarned, 0)
      BY <1>1, TallyOfNone
    <2>2. balance[k] = Balance0[k] - 0 + 0
      BY <1>1, InitialTablesAssumption
    <2> QED
      BY <2>1, <2>2
  <1> QED
    BY <1>2, <1>3 DEF LedgerInv

LEMMA LedgerSame ==
  ASSUME LedgerInv, UNCHANGED <<orders, reserved, balance>>
  PROVE  LedgerInv'
  <1>1. /\ OpenOrders' = OpenOrders /\ PointsUsed' = PointsUsed /\ PointsEarned' = PointsEarned
        /\ \A k : OrdersOf(k)' = OrdersOf(k) /\ DeliveredTo(k)' = DeliveredTo(k)
        /\ \A s : LinesWith(s)' = LinesWith(s)
    BY DEF OpenOrders, PointsUsed, PointsEarned, OrdersOf, DeliveredTo, LinesWith
  <1> QED
    BY <1>1 DEF LedgerInv

(* A commit adds one open order to the ledgers.                            *)
LEMMA LedgerCommit ==
  ASSUME TypeOK, LedgerInv, NEW r \in Request, Good(r), Commit(r)
  PROVE  LedgerInv'
  <1> DEFINE new == seq + 1
  <1>1. /\ DOMAIN orders = 1..seq /\ DOMAIN orders' = 1..seq \cup {new}
        /\ new \notin 1..seq /\ orders'[new] = NewOrder(r)
        /\ \A n \in 1..seq : orders'[n] = orders[n]
    <2>1. seq \in Nat
      BY DEF TypeOK
    <2>2. 1..(seq + 1) = 1..seq \cup {new} /\ new \notin 1..seq
      BY <2>1
    <2> QED
      BY <2>2, CommitOrders
  <1>2. /\ NewOrder(r).lines = snap[r].lines /\ NewOrder(r).points = snap[r].points
        /\ NewOrder(r).customer = CustomerFor(r) /\ NewOrder(r).phase = "open"
    BY DEF NewOrder
  <1>3. CustomerFor(r) \in Customer /\ snap[r].points \in Nat
        /\ snap[r].lines \in [Sku -> 0..MaxQty]
    BY RequestAssumption, DataAssumption DEF CustomerFor, TypeOK, Lines
  <1> HIDE DEF new
  <1>4. /\ OpenOrders' = OpenOrders \cup {new} /\ new \notin OpenOrders
        /\ \A n \in OpenOrders : n \in DOMAIN orders /\ n \in DOMAIN orders'
    BY <1>1, <1>2 DEF OpenOrders
  <1>5. \A k : /\ OrdersOf(k)' = IF k = CustomerFor(r) THEN OrdersOf(k) \cup {new} ELSE OrdersOf(k)
               /\ new \notin OrdersOf(k)
               /\ \A n \in OrdersOf(k) : n \in DOMAIN orders /\ n \in DOMAIN orders'
    BY <1>1, <1>2 DEF OrdersOf
  <1>6. \A k : /\ DeliveredTo(k)' = DeliveredTo(k)
               /\ \A n \in DeliveredTo(k) : n \in DOMAIN orders /\ n \in DOMAIN orders'
    BY <1>1, <1>2 DEF DeliveredTo, OrdersOf
  <1>7. ASSUME NEW s \in Sku
        PROVE  IsTally(OpenOrders', LinesWith(s)', reserved'[s])
    <2>1. IsTally(OpenOrders, LinesWith(s), reserved[s])
      BY DEF LedgerInv
    <2>2. \A n \in OpenOrders : LinesWith(s)[n] = LinesWith(s)'[n]
      BY <1>1, <1>4, LedgerFacts, LedgerAfter
    <2>3. IsTally(OpenOrders, LinesWith(s)', reserved[s])
      BY <2>1, <2>2, TallyOfSame
    <2>4. LinesWith(s)'[new] = snap[r].lines[s] /\ snap[r].lines[s] \in Nat
      BY <1>1, <1>2, <1>3, LedgerAfter, DataAssumption
    <2>5. IsTally(OpenOrders \cup {new}, LinesWith(s)', reserved[s] + LinesWith(s)'[new])
      BY <1>4, <2>3, <2>4, TallyOfMore
    <2>6. reserved'[s] = reserved[s] + snap[r].lines[s]
      BY DEF Commit, Plus
    <2> QED
      BY <1>4, <2>4, <2>5, <2>6
  <1>8. ASSUME NEW k \in Customer
        PROVE  \E took, earned \in Nat :
                 /\ IsTally(OrdersOf(k)', PointsUsed', took)
                 /\ IsTally(DeliveredTo(k)', PointsEarned', earned)
                 /\ balance'[k] = Balance0[k] - took + earned
    <2>1. PICK took, earned \in Nat :
            /\ IsTally(OrdersOf(k), PointsUsed, took)
            /\ IsTally(DeliveredTo(k), PointsEarned, earned)
            /\ balance[k] = Balance0[k] - took + earned
      BY DEF LedgerInv
    <2>2. \A n \in OrdersOf(k) : PointsUsed[n] = PointsUsed'[n]
      BY <1>1, <1>5, LedgerFacts, LedgerAfter
    <2>3. \A n \in DeliveredTo(k) : PointsEarned[n] = PointsEarned'[n]
      BY <1>1, <1>6, LedgerFacts, LedgerAfter
    <2>4. IsTally(OrdersOf(k), PointsUsed', took)
      BY <2>1, <2>2, TallyOfSame
    <2>5. IsTally(DeliveredTo(k)', PointsEarned', earned)
      BY <1>6, <2>1, <2>3, TallyOfSame
    <2>6. PointsUsed'[new] = snap[r].points
      BY <1>1, <1>2, LedgerAfter
    <2>7. /\ balance \in [Customer -> Int]
          /\ balance' = IF snap[r].points > 0
                        THEN [balance EXCEPT ![CustomerFor(r)] = @ - snap[r].points] ELSE balance
      BY DEF Commit, TypeOK
    <2>8. CASE k = CustomerFor(r)
      <3>1. IsTally(OrdersOf(k) \cup {new}, PointsUsed', took + PointsUsed'[new])
        BY <1>3, <1>5, <2>4, <2>6, TallyOfMore
      <3>2. OrdersOf(k)' = OrdersOf(k) \cup {new}
        BY <1>5, <2>8
      <3>3. took + snap[r].points \in Nat
            /\ balance'[k] = Balance0[k] - (took + snap[r].points) + earned
        BY <1>3, <2>1, <2>7, <2>8, InitialTablesAssumption
      <3> QED
        BY <2>5, <2>6, <3>1, <3>2, <3>3
    <2>9. CASE k # CustomerFor(r)
      <3>1. OrdersOf(k)' = OrdersOf(k)
        BY <1>5, <2>9
      <3>2. balance'[k] = balance[k]
        BY <2>7, <2>9
      <3> QED
        BY <2>1, <2>4, <2>5, <3>1, <3>2
    <2> QED
      BY <2>8, <2>9
  <1> QED
    BY <1>7, <1>8 DEF LedgerInv

(* An open order that is settled leaves reservedStock; a delivery credits  *)
(* what it earned.                                                         *)
LEMMA LedgerSettle ==
  ASSUME TypeOK, LedgerInv, NEW n \in DOMAIN orders, DeliverOrder(n) \/ CancelOrder(n)
  PROVE  LedgerInv'
  <1>1. PICK phase \in {"delivered", "cancelled"} :
          /\ Settle(n, phase)
          /\ balance' = IF phase = "delivered"
                        THEN [balance EXCEPT ![orders[n].customer] = @ + Earned(orders[n])]
                        ELSE balance
    BY DEF DeliverOrder, CancelOrder
  <1>2. orders[n] \in Order /\ orders[n].phase = "open" /\ orders[n].customer \in Customer
        /\ Earned(orders[n]) \in Nat
    BY <1>1, EarnedType DEF TypeOK, Order, Settle, Unsettled
  <1>3. /\ DOMAIN orders' = DOMAIN orders
        /\ \A m \in DOMAIN orders :
             /\ orders'[m].customer = orders[m].customer
             /\ orders'[m].lines = orders[m].lines
             /\ orders'[m].coupon = orders[m].coupon
             /\ orders'[m].points = orders[m].points
             /\ orders'[m].phase = IF m = n THEN phase ELSE orders[m].phase
    <2>1. \A m \in DOMAIN orders : orders[m] \in Order
      BY DEF TypeOK
    <2>2. /\ DOMAIN orders' = DOMAIN orders
          /\ \A m \in DOMAIN orders :
               orders'[m] = IF m = n THEN [orders[m] EXCEPT !.phase = phase] ELSE orders[m]
      BY <1>1 DEF Settle, TypeOK
    <2> QED
      BY <2>1, <2>2 DEF Order
  <1>4. /\ \A s : \A m \in DOMAIN orders : LinesWith(s)[m] = LinesWith(s)'[m]
        /\ \A m \in DOMAIN orders : PointsUsed[m] = PointsUsed'[m]
        /\ \A m \in DOMAIN orders : PointsEarned[m] = PointsEarned'[m]
    BY <1>3 DEF LinesWith, PointsUsed, PointsEarned, Earned
  <1>5. /\ OpenOrders' = OpenOrders \ {n} /\ n \in OpenOrders
        /\ OpenOrders \subseteq DOMAIN orders
    BY <1>2, <1>3 DEF OpenOrders
  <1>6. \A k : OrdersOf(k)' = OrdersOf(k) /\ OrdersOf(k) \subseteq DOMAIN orders
    BY <1>3 DEF OrdersOf
  <1>7. \A k : /\ n \notin DeliveredTo(k) /\ DeliveredTo(k) \subseteq DOMAIN orders
               /\ DeliveredTo(k)' = IF phase = "delivered" /\ orders[n].customer = k
                                    THEN DeliveredTo(k) \cup {n} ELSE DeliveredTo(k)
    BY <1>2, <1>3 DEF DeliveredTo, OrdersOf
  <1>8. ASSUME NEW s \in Sku
        PROVE  IsTally(OpenOrders', LinesWith(s)', reserved'[s])
    <2>1. IsTally(OpenOrders, LinesWith(s), reserved[s])
      BY DEF LedgerInv
    <2>2. \A m \in OpenOrders : LinesWith(s)[m] = LinesWith(s)'[m]
      BY <1>4, <1>5
    <2>3. IsTally(OpenOrders, LinesWith(s)', reserved[s])
      BY <2>1, <2>2, TallyOfSame
    <2>4. LinesWith(s)'[n] = orders[n].lines[s] /\ LinesWith(s)'[n] \in Nat
      BY <1>4, LedgerFacts
    <2>5. IsTally(OpenOrders \ {n}, LinesWith(s)', reserved[s] - LinesWith(s)'[n])
      BY <1>5, <2>3, <2>4, TallyOfLess
    <2>6. reserved'[s] = reserved[s] - orders[n].lines[s]
      BY <1>1 DEF Settle, Minus
    <2> QED
      BY <1>5, <2>4, <2>5, <2>6
  <1>9. ASSUME NEW k \in Customer
        PROVE  \E took, earned \in Nat :
                 /\ IsTally(OrdersOf(k)', PointsUsed', took)
                 /\ IsTally(DeliveredTo(k)', PointsEarned', earned)
                 /\ balance'[k] = Balance0[k] - took + earned
    <2>1. PICK took, earned \in Nat :
            /\ IsTally(OrdersOf(k), PointsUsed, took)
            /\ IsTally(DeliveredTo(k), PointsEarned, earned)
            /\ balance[k] = Balance0[k] - took + earned
      BY DEF LedgerInv
    <2>2. IsTally(OrdersOf(k)', PointsUsed', took)
      <3>1. \A m \in OrdersOf(k) : PointsUsed[m] = PointsUsed'[m]
        BY <1>4, <1>6
      <3> QED
        BY <1>6, <2>1, <3>1, TallyOfSame
    <2>3. IsTally(DeliveredTo(k), PointsEarned', earned)
      <3>1. \A m \in DeliveredTo(k) : PointsEarned[m] = PointsEarned'[m]
        BY <1>4, <1>7
      <3> QED
        BY <2>1, <3>1, TallyOfSame
    <2>4. balance \in [Customer -> Int]
      BY DEF TypeOK
    <2>5. CASE phase = "delivered" /\ orders[n].customer = k
      <3>1. PointsEarned'[n] = Earned(orders[n]) /\ PointsEarned'[n] \in Nat
        BY <1>4, LedgerFacts
      <3>2. IsTally(DeliveredTo(k) \cup {n}, PointsEarned', earned + PointsEarned'[n])
        BY <1>7, <2>3, <3>1, TallyOfMore
      <3>3. DeliveredTo(k)' = DeliveredTo(k) \cup {n}
        BY <1>7, <2>5
      <3>4. balance'[k] = balance[k] + Earned(orders[n])
        BY <1>1, <2>4, <2>5
      <3>5. earned + Earned(orders[n]) \in Nat
            /\ balance'[k] = Balance0[k] - took + (earned + Earned(orders[n]))
        BY <1>2, <2>1, <3>4, InitialTablesAssumption
      <3> QED
        BY <2>2, <3>1, <3>2, <3>3, <3>5
    <2>6. CASE ~(phase = "delivered" /\ orders[n].customer = k)
      <3>1. DeliveredTo(k)' = DeliveredTo(k)
        BY <1>7, <2>6
      <3>2. balance'[k] = balance[k]
        BY <1>1, <2>4, <2>6
      <3> QED
        BY <2>1, <2>2, <2>3, <3>1, <3>2
    <2> QED
      BY <2>5, <2>6
  <1> QED
    BY <1>8, <1>9 DEF LedgerInv

LEMMA LedgerNext == IInv /\ LedgerInv /\ [Next]_vars => LedgerInv'
  <1> SUFFICES ASSUME IInv, LedgerInv, [Next]_vars PROVE LedgerInv'
    OBVIOUS
  <1>0. TypeOK /\ \A r \in Request : Good(r)
    BY GoodParts DEF IInv
  <1>1. ASSUME NEW r \in Request, Statement(r) \/ DeadlockAbort(r) \/ Abort(r)
        PROVE  LedgerInv'
    <2>1. CASE Commit(r)
      BY <1>0, <2>1, LedgerCommit
    <2>2. CASE ~Commit(r)
      <3>1. UNCHANGED tables
        BY <1>1, <2>2, TablesKept
      <3> QED
        BY <3>1, LedgerSame DEF tables
    <2> QED
      BY <2>1, <2>2
  <1>2. ASSUME NEW n \in DOMAIN orders, DeliverOrder(n) \/ CancelOrder(n)
        PROVE  LedgerInv'
    BY <1>0, <1>2, LedgerSettle
  <1>3. CASE ExpireCoupon \/ Rest \/ UNCHANGED vars
    <2>1. UNCHANGED tables
      BY <1>3 DEF ExpireCoupon, Rest, vars
    <2> QED
      BY <2>1, LedgerSame DEF tables
  <1> QED
    BY <1>1, <1>2, <1>3 DEF Next

LEMMA LedgerInvariant == Spec => []LedgerInv
  BY InitLedger, LedgerNext, InductiveInvariant, PTL DEF Spec

(* Whatever aborts, deadlocks or is settled in between, reservedStock is   *)
(* exactly what the open orders hold.                                      *)
THEOREM ReservationsExact == Spec => []ReservedIsOpenOrders
  <1>1. LedgerInv => ReservedIsOpenOrders
    BY DEF LedgerInv, ReservedIsOpenOrders, IsTally
  <1> QED
    BY <1>1, LedgerInvariant, PTL

(* A loyalty balance is exactly what the orders took from it and what the  *)
(* deliveries earned.                                                      *)
THEOREM BalancesExact == Spec => []BalanceIsLedger
  <1>1. LedgerInv => BalanceIsLedger
    BY DEF LedgerInv, BalanceIsLedger, IsTally
  <1> QED
    BY <1>1, LedgerInvariant, PTL
=============================================================================

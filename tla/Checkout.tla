------------------------------ MODULE Checkout ------------------------------
(***************************************************************************)
(* HTTP requests on carts, down to the row locks of PostgreSQL.            *)
(*                                                                         *)
(* Every request goes through CartService.resolveCart, then views the      *)
(* cart, adds a line to it, or checks it out. A checkout reads cart, coupon*)
(* and loyalty balance without a lock, then runs one transaction that      *)
(* takes its row locks one after the other and re-checks under each lock.  *)
(* The isolation level is READ COMMITTED: what a transaction writes is     *)
(* seen by the others when it commits, and all the rows it writes are      *)
(* locked until then, so its writes are one action, Commit. An abort       *)
(* writes nothing.                                                         *)
(*                                                                         *)
(* Deliveries and cancellations of the Back-Office are atomic here: module *)
(* OrderDesk is about them.                                                *)
(***************************************************************************)
EXTENDS ShopData, Tally

CONSTANTS
  Request,   \* requests, each sent once
  CartOf,    \* the cart each request is about
  Kind,      \* "checkout", "add" or "view"
  SkuAdded,  \* what an "add" request puts in the cart
  UsePoints, \* dto.useLoyaltyPoints
  Status0, Lines0, CouponOn0, Stock0, Balance0  \* the tables before the first request

ASSUME RequestAssumption ==
  /\ CartOf \in [Request -> Cart]
  /\ Kind \in [Request -> {"checkout", "add", "view"}]
  /\ SkuAdded \in [Request -> Sku]
  /\ UsePoints \in [Request -> BOOLEAN]

ASSUME InitialTablesAssumption ==
  /\ Stock0 \in [Sku -> Nat]
  /\ Balance0 \in [Customer -> Nat]
  /\ Status0 \in [Cart -> {"ACTIVE", "CONVERTED"}]
  /\ Lines0 \in [Cart -> Lines]
  /\ CouponOn0 \in [Cart -> BOOLEAN]

VARIABLES
  (* Tables of the database, as committed *)
  status,      \* Cart.status
  couponCode,  \* Cart.couponCode: the coupon is attached to the cart
  lines,       \* CartLine
  stock,       \* stock
  reserved,    \* reservedStock
  valid,       \* the coupon is ACTIVE, started and not ended
  used,        \* Coupon.usedCount
  balance,     \* LoyaltyAccount.pointsBalance
  seq,         \* SystemSetting order_seq_<year>; 0: the row does not exist
  orders,      \* Order, by number
  fill,        \* history: how many times the cart was emptied and reopened
  (* Requests *)
  pc,          \* the next statement of the request
  snap,        \* what it read before its transaction
  todo,        \* the lines reserveStock has still to lock
  aim,         \* the line it is locking now
  num,         \* the order number it computed
  held         \* the rows its transaction has locked FOR UPDATE

tables == <<stock, reserved, used, balance, seq, orders>>
carts  == <<status, couponCode, lines, fill>>
local  == <<snap, todo, aim, num>>
vars   == <<tables, carts, valid, local, pc, held>>

-----------------------------------------------------------------------------
(* Rows that transactions lock.                                            *)
CartRow(c)   == <<"Cart", c>>
SkuRow(s)    == <<"Sku", s>>
PointsRow(k) == <<"LoyaltyAccount", k>>
CouponRow    == <<"Coupon", "code">>
SeqRow       == <<"SystemSetting", "order_seq">>

Row == {CartRow(c) : c \in Cart} \cup {SkuRow(s) : s \in Sku}
       \cup {PointsRow(k) : k \in Customer} \cup {CouponRow, SeqRow}

Free(row) == \A r \in Request : row \notin held[r]

CartFor(r)     == CartOf[r]
CustomerFor(r) == CustomerOf[CartOf[r]]

BeforeTx == {"idle", "wipe", "reopen", "add", "read", "offers"}
InTx     == {"lockCart", "lockStock", "lockCoupon", "counter", "number",
             "lockPoints", "commit"}
Final    == {"done", "rejected"}

(* The statement a request runs once its cart is resolved.                 *)
Handler(r) ==
  IF Kind[r] = "checkout" THEN "read"
  ELSE IF Kind[r] = "add" THEN "add"
  ELSE "done"

NoSnap == [lines |-> NoLines, coupon |-> FALSE, points |-> 0, filling |-> 0]

Goto(r, label) == pc' = [pc EXCEPT ![r] = label]

(* Take the row's lock, which another transaction must not hold.           *)
Lock(r, row) ==
  /\ Free(row) \/ row \in held[r]
  /\ held' = [held EXCEPT ![r] = @ \cup {row}]

AnySku == CHOOSE s \in Sku : TRUE

(* A rejected request whose transaction stays open.                        *)
MutEnd(r, label) ==
  /\ Goto(r, label)
  /\ snap' = [snap EXCEPT ![r] = NoSnap]
  /\ todo' = [todo EXCEPT ![r] = {}]
  /\ aim' = [aim EXCEPT ![r] = AnySku]
  /\ num' = [num EXCEPT ![r] = 0]
  /\ UNCHANGED held

(* The end of a request: what it knew is gone and a transaction that ends  *)
(* releases its locks.                                                     *)
End(r, label) ==
  /\ Goto(r, label)
  /\ snap' = [snap EXCEPT ![r] = NoSnap]
  /\ todo' = [todo EXCEPT ![r] = {}]
  /\ aim' = [aim EXCEPT ![r] = AnySku]
  /\ num' = [num EXCEPT ![r] = 0]
  /\ held' = [held EXCEPT ![r] = {}]

Init ==
  /\ status = Status0
  /\ couponCode = CouponOn0
  /\ lines = Lines0
  /\ stock = Stock0
  /\ reserved = [s \in Sku |-> 0]
  /\ valid = TRUE
  /\ used = 0
  /\ balance = Balance0
  /\ seq = 0
  /\ orders = <<>>
  /\ fill = [c \in Cart |-> 0]
  /\ pc = [r \in Request |-> "idle"]
  /\ snap = [r \in Request |-> NoSnap]
  /\ todo = [r \in Request |-> {}]
  /\ aim = [r \in Request |-> AnySku]
  /\ num = [r \in Request |-> 0]
  /\ held = [r \in Request |-> {}]

-----------------------------------------------------------------------------
(* resolveCart: an unlocked read of the cart. One that is not ACTIVE is    *)
(* emptied and reopened, in two writes outside any transaction.            *)
Arrive(r) ==
  /\ pc[r] = "idle"
  /\ Goto(r, IF status[CartFor(r)] = "ACTIVE" THEN Handler(r) ELSE "wipe")
  /\ UNCHANGED <<tables, carts, valid, local, held>>

WipeLines(r) ==
  /\ pc[r] = "wipe"
  /\ lines' = [lines EXCEPT ![CartFor(r)] = NoLines]
  /\ Goto(r, "reopen")
  /\ UNCHANGED <<tables, status, couponCode, fill, valid, local, held>>

(* The UPDATE has no condition on the status: it waits for a transaction   *)
(* that has locked the cart, whatever that one does to it.                 *)
Reopen(r) ==
  LET c == CartFor(r)
  IN  /\ pc[r] = "reopen"
      /\ Free(CartRow(c))
      /\ status' = [status EXCEPT ![c] = "ACTIVE"]
      /\ couponCode' = [couponCode EXCEPT ![c] = FALSE]
      /\ fill' = IF status[c] = "ACTIVE" THEN fill ELSE [fill EXCEPT ![c] = @ + 1]
      /\ Goto(r, Handler(r))
      /\ UNCHANGED <<tables, lines, valid, local, held>>

(* addLine: one short transaction under an advisory lock of its own. A new *)
(* line references the cart, so its INSERT waits for a checkout that holds *)
(* the cart FOR UPDATE; one more piece on an existing line does not.       *)
AddLine(r) ==
  LET c == CartFor(r)
      s == SkuAdded[r]
  IN  /\ pc[r] = "add"
      /\ lines[c][s] < MaxQty
      /\ lines[c][s] > 0 \/ Free(CartRow(c))
      /\ lines' = [lines EXCEPT ![c][s] = @ + 1]
      /\ Goto(r, "done")
      /\ UNCHANGED <<tables, status, couponCode, fill, valid, local, held>>

-----------------------------------------------------------------------------
(* checkout, before its transaction.                                       *)
ReadCart(r) ==
  LET c == CartFor(r)
  IN  /\ pc[r] = "read"
      /\ IF lines[c] = NoLines
         THEN End(r, "rejected")
         ELSE /\ Goto(r, "offers")
              /\ snap' = [snap EXCEPT ![r] =
                            [lines |-> lines[c], coupon |-> couponCode[c],
                             points |-> 0, filling |-> fill[c]]]
              /\ UNCHANGED <<todo, aim, num, held>>
      /\ UNCHANGED <<tables, carts, valid>>

RedeemedOnce(k) == Cardinality(RedeemedBy(orders, k)) >= Coupon.maxUsesPerCustomer

Unusable(r) ==
  ~valid \/ Subtotal[snap[r].lines] < Coupon.minCartAmount \/ RedeemedOnce(CustomerFor(r))

(* The coupon must still be valid, for a cart of this amount, and unspent  *)
(* by this customer; the points to redeem come from the balance as it is   *)
(* now.                                                                    *)
ReadOffers(r) ==
  LET k == CustomerFor(r)
  IN  /\ pc[r] = "offers"
      /\ IF snap[r].coupon /\ Unusable(r)
         THEN End(r, "rejected")
         ELSE /\ Goto(r, "lockCart")
              /\ snap' = [snap EXCEPT ![r].points =
                            IF UsePoints[r]
                            THEN PointsToRedeem(snap[r].lines, snap[r].coupon, balance[k])
                            ELSE 0]
              /\ UNCHANGED <<todo, aim, num, held>>
      /\ UNCHANGED <<tables, carts, valid>>

-----------------------------------------------------------------------------
(* checkout, the transaction. A check that fails under a lock aborts it.   *)
AfterStock(r) == IF snap[r].coupon THEN "lockCoupon" ELSE "counter"

(* Without the re-check under the lock.                                    *)
MutCartStillOpen(c) == TRUE

CartStillOpen(c) == status[c] = "ACTIVE"

LockCart(r) ==
  LET c == CartFor(r)
  IN  /\ pc[r] = "lockCart"
      /\ Free(CartRow(c))
      /\ IF CartStillOpen(c)
         THEN /\ Lock(r, CartRow(c))
              /\ Goto(r, "lockStock")
              /\ todo' = [todo EXCEPT ![r] = SkusOf(snap[r].lines)]
              /\ \E s \in SkusOf(snap[r].lines) : aim' = [aim EXCEPT ![r] = s]
              /\ UNCHANGED <<snap, num>>
         ELSE End(r, "rejected")
      /\ UNCHANGED <<tables, carts, valid>>

(* Forgets what the open orders hold.                                      *)
MutInStock(s, quantity) == stock[s] >= quantity

InStock(s, quantity) == stock[s] - reserved[s] >= quantity

(* reserveStock: the lines come in no particular order.                    *)
LockStock(r) ==
  LET s    == aim[r]
      left == todo[r] \ {s}
  IN  /\ pc[r] = "lockStock"
      /\ Free(SkuRow(s))
      /\ IF InStock(s, snap[r].lines[s])
         THEN /\ Lock(r, SkuRow(s))
              /\ todo' = [todo EXCEPT ![r] = left]
              /\ IF left = {}
                 THEN Goto(r, AfterStock(r)) /\ UNCHANGED aim
                 ELSE /\ \E t \in left : aim' = [aim EXCEPT ![r] = t]
                      /\ UNCHANGED pc
              /\ UNCHANGED <<snap, num>>
         ELSE End(r, "rejected")
      /\ UNCHANGED <<tables, carts, valid>>

(* One use too many.                                                       *)
MutCouponSpent == Coupon.maxUses # NoLimit /\ used > Coupon.maxUses

CouponSpent == Coupon.maxUses # NoLimit /\ used >= Coupon.maxUses

LockCoupon(r) ==
  /\ pc[r] = "lockCoupon"
  /\ Free(CouponRow)
  /\ IF CouponSpent \/ RedeemedOnce(CustomerFor(r))
     THEN End(r, "rejected")
     ELSE Lock(r, CouponRow) /\ Goto(r, "counter") /\ UNCHANGED local
  /\ UNCHANGED <<tables, carts, valid>>

(* Forgets the increment.                                                  *)
MutNextNumber == seq

NextNumber == seq + 1

(* nextOrderNumber reads the counter FOR UPDATE. Before the first order of *)
(* the year there is no row to lock, and nobody waits.                     *)
ReadCounter(r) ==
  /\ pc[r] = "counter"
  /\ IF seq = 0
     THEN UNCHANGED held
     ELSE Lock(r, SeqRow)
  /\ num' = [num EXCEPT ![r] = NextNumber]
  /\ Goto(r, "number")
  /\ UNCHANGED <<tables, carts, valid, snap, todo, aim>>

NumberTaken(n) == n \in DOMAIN orders

(* The upsert of the counter locks its row (or waits for the transaction   *)
(* that inserts it), then the order is inserted: a number that is taken    *)
(* violates its unique constraint and aborts the transaction.              *)
WriteCounter(r) ==
  /\ pc[r] = "number"
  /\ Free(SeqRow) \/ SeqRow \in held[r]
  /\ IF NumberTaken(num[r])
     THEN End(r, "rejected")
     ELSE /\ Lock(r, SeqRow)
          /\ Goto(r, IF snap[r].points > 0 THEN "lockPoints" ELSE "commit")
          /\ UNCHANGED local
  /\ UNCHANGED <<tables, carts, valid>>

(* Trusts the balance read before the transaction.                         *)
MutEnoughPoints(k, points) == TRUE

EnoughPoints(k, points) == balance[k] >= points

LockPoints(r) ==
  LET k == CustomerFor(r)
  IN  /\ pc[r] = "lockPoints"
      /\ Free(PointsRow(k))
      /\ IF EnoughPoints(k, snap[r].points)
         THEN Lock(r, PointsRow(k)) /\ Goto(r, "commit") /\ UNCHANGED local
         ELSE End(r, "rejected")
      /\ UNCHANGED <<tables, carts, valid>>

NewOrder(r) ==
  [cart |-> CartFor(r), customer |-> CustomerFor(r), lines |-> snap[r].lines,
   coupon |-> snap[r].coupon, points |-> snap[r].points,
   filling |-> snap[r].filling, activation |-> fill[CartFor(r)], phase |-> "open"]

Commit(r) ==
  LET c == CartFor(r)
      k == CustomerFor(r)
  IN  /\ pc[r] = "commit"
      /\ reserved' = Plus(reserved, snap[r].lines)
      /\ used' = IF snap[r].coupon THEN used + 1 ELSE used
      /\ balance' = IF snap[r].points > 0
                    THEN [balance EXCEPT ![k] = @ - snap[r].points] ELSE balance
      /\ seq' = num[r]
      /\ orders' = [n \in DOMAIN orders \cup {num[r]} |->
                      IF n = num[r] THEN NewOrder(r) ELSE orders[n]]
      /\ status' = [status EXCEPT ![c] = "CONVERTED"]
      /\ End(r, "done")
      /\ UNCHANGED <<stock, couponCode, lines, fill, valid>>

-----------------------------------------------------------------------------
(* The row a request is waiting for, were it taken.                        *)
Wanted(r) ==
  CASE pc[r] = "lockCart"              -> CartRow(CartFor(r))
    [] pc[r] = "lockStock"             -> SkuRow(aim[r])
    [] pc[r] = "lockCoupon"            -> CouponRow
    [] pc[r] = "counter" /\ seq # 0    -> SeqRow
    [] pc[r] = "number"                -> SeqRow
    [] pc[r] = "lockPoints"            -> PointsRow(CustomerFor(r))
    [] OTHER                           -> <<>>

WaitsFor(r, q) == r # q /\ Wanted(r) \in held[q]

(* No deadlock detector.                                                   *)
MutDeadlocked(r) == FALSE

(* r is on a cycle of the waits-for graph: a row has one holder and r one  *)
(* wish, so a set in which each waits for another and each is waited for   *)
(* is a union of cycles.                                                   *)
Deadlocked(r) ==
  \E S \in SUBSET Request :
    /\ r \in S
    /\ \A q \in S : \E p \in S : WaitsFor(q, p)
    /\ \A q \in S : \E p \in S : WaitsFor(p, q)

(* PostgreSQL's deadlock detector picks a victim.                          *)
DeadlockAbort(r) ==
  /\ pc[r] \in InTx
  /\ Deadlocked(r)
  /\ End(r, "rejected")
  /\ UNCHANGED <<tables, carts, valid>>

(* The transaction's timeout, a lost connection or a crash of the API: the *)
(* transaction is rolled back.                                             *)
Abort(r) ==
  /\ pc[r] \in InTx
  /\ End(r, "rejected")
  /\ UNCHANGED <<tables, carts, valid>>

-----------------------------------------------------------------------------
(* The rest of the shop.                                                   *)
ExpireCoupon ==
  /\ valid
  /\ valid' = FALSE
  /\ UNCHANGED <<tables, carts, local, pc, held>>

(* Settles an order again.                                                 *)
MutUnsettled(n) == TRUE

Unsettled(n) == orders[n].phase = "open"

(* Keeps the reservation of an order that is settled.                      *)
MutSettle(n, phase) ==
  /\ Unsettled(n)
  /\ orders' = [orders EXCEPT ![n].phase = phase]
  /\ UNCHANGED <<reserved, used, seq, carts, valid, local, pc, held>>

Settle(n, phase) ==
  /\ Unsettled(n)
  /\ \A s \in SkusOf(orders[n].lines) : Free(SkuRow(s))
  /\ orders' = [orders EXCEPT ![n].phase = phase]
  /\ reserved' = Minus(reserved, orders[n].lines)
  /\ UNCHANGED <<used, seq, carts, valid, local, pc, held>>

DeliverOrder(n) ==
  /\ Settle(n, "delivered")
  /\ Earned(orders[n]) > 0 => Free(PointsRow(orders[n].customer))
  /\ stock' = Minus(stock, orders[n].lines)
  /\ balance' = [balance EXCEPT ![orders[n].customer] = @ + Earned(orders[n])]

CancelOrder(n) ==
  /\ Settle(n, "cancelled")
  /\ UNCHANGED <<stock, balance>>

(* Every request was answered and nothing is left to settle.               *)
Rest ==
  /\ \A r \in Request : pc[r] \in Final
  /\ \A n \in DOMAIN orders : ~Unsettled(n)
  /\ UNCHANGED vars

Statement(r) ==
  \/ Arrive(r) \/ WipeLines(r) \/ Reopen(r) \/ AddLine(r)
  \/ ReadCart(r) \/ ReadOffers(r)
  \/ LockCart(r) \/ LockStock(r) \/ LockCoupon(r)
  \/ ReadCounter(r) \/ WriteCounter(r) \/ LockPoints(r)
  \/ Commit(r)

Next ==
  \/ \E r \in Request : Statement(r) \/ DeadlockAbort(r) \/ Abort(r)
  \/ ExpireCoupon
  \/ \E n \in DOMAIN orders : DeliverOrder(n) \/ CancelOrder(n)
  \/ Rest

(* PostgreSQL serves the queue of a lock in order and runs its deadlock    *)
(* detector, and the API runs every request to its end.                    *)
Fairness == \A r \in Request : WF_vars(Statement(r) \/ DeadlockAbort(r))

Spec     == Init /\ [][Next]_vars
FairSpec == Spec /\ Fairness

-----------------------------------------------------------------------------
TypeOK ==
  /\ status \in [Cart -> {"ACTIVE", "CONVERTED"}]
  /\ couponCode \in [Cart -> BOOLEAN]
  /\ lines \in [Cart -> Lines]
  /\ fill \in [Cart -> Nat]
  /\ stock \in [Sku -> Int]
  /\ reserved \in [Sku -> Int]
  /\ valid \in BOOLEAN
  /\ used \in Nat
  /\ balance \in [Customer -> Int]
  /\ seq \in Nat
  /\ orders \in [1..seq -> Order]
  /\ pc \in [Request -> BeforeTx \cup InTx \cup Final]
  /\ snap \in [Request -> [lines: Lines, coupon: BOOLEAN, points: Nat, filling: Nat]]
  /\ todo \in [Request -> SUBSET Sku]
  /\ aim \in [Request -> Sku]
  /\ num \in [Request -> Nat]
  /\ held \in [Request -> SUBSET Row]

(* Concurrent checkouts never promise more pieces than the shelves hold,   *)
(* while deliveries and cancellations change both numbers (R3).            *)
NoOversell == \A s \in Sku : reserved[s] <= stock[s]

(* A coupon is never redeemed beyond maxUses nor by one customer beyond    *)
(* maxUsesPerCustomer, and usedCount counts the redemptions.               *)
CouponWithinLimits ==
  /\ used = Cardinality(CouponOrders(orders))
  /\ Coupon.maxUses # NoLimit => used <= Coupon.maxUses
  /\ \A k \in Customer : Cardinality(RedeemedBy(orders, k)) <= Coupon.maxUsesPerCustomer

(* Two checkouts of one customer that redeem points never overdraw them.   *)
NeverOverdrawn == \A k \in Customer : balance[k] >= 0

(* What every order holds of a Sku, took from a balance, and earns.        *)
LinesWith(s) == [n \in DOMAIN orders |-> orders[n].lines[s]]
PointsUsed   == [n \in DOMAIN orders |-> orders[n].points]
PointsEarned == [n \in DOMAIN orders |-> Earned(orders[n])]

OpenOrders     == {n \in DOMAIN orders : orders[n].phase = "open"}
OrdersOf(k)    == {n \in DOMAIN orders : orders[n].customer = k}
DeliveredTo(k) == {n \in OrdersOf(k) : orders[n].phase = "delivered"}

(* reservedStock is, row by row, what the open orders hold: nothing is     *)
(* reserved for an order that is not there, nothing is released twice.     *)
ReservedIsOpenOrders ==
  \A s \in Sku : reserved[s] = Tally(OpenOrders, LinesWith(s))

(* A loyalty balance is what it was, plus what the deliveries earned,      *)
(* minus what the orders redeemed.                                         *)
BalanceIsLedger ==
  \A k \in Customer :
    balance[k] = Balance0[k] - Tally(OrdersOf(k), PointsUsed)
                             + Tally(DeliveredTo(k), PointsEarned)

(* However many orders come from one cart, two of them are separated by a  *)
(* reopening of the cart: the locked re-check of the status lets one       *)
(* checkout per activation through.                                        *)
OneOrderPerActivation ==
  \A m, n \in DOMAIN orders :
    m # n /\ orders[m].cart = orders[n].cart
      => orders[m].activation # orders[n].activation

(* Checkout in lock steps implements the atomic order book: every commit   *)
(* is an order the books may accept at that moment.                        *)
OB == INSTANCE OrderBook
        WITH open <- [c \in Cart |-> status[c] = "ACTIVE"],
             activation <- fill, last <- seq
ImplementsOrderBook == OB!Spec

(* Every request that arrives is answered, deadlocks included.             *)
EveryRequestAnswered ==
  \A r \in Request : pc[r] # "idle" ~> pc[r] \in Final

-----------------------------------------------------------------------------
(* The inductive invariant behind the safety properties: what each lock a  *)
(* transaction holds lets it rely on until it commits.                     *)
AfterCart   == InTx \ {"lockCart"}
AfterLines  == AfterCart \ {"lockStock"}
AfterCoupon == AfterLines \ {"lockCoupon"}
AfterNumber == {"lockPoints", "commit"}

(* Locks are exclusive, and only a running transaction holds any.          *)
LockInv ==
  /\ \A r, q \in Request : r # q => held[r] \cap held[q] = {}
  /\ \A r \in Request : pc[r] \notin AfterCart => held[r] = {}

(* A transaction past its first lock has its cart, still ACTIVE.           *)
CartInv ==
  \A r \in Request :
    pc[r] \in AfterCart => /\ CartRow(CartFor(r)) \in held[r]
                           /\ CartStillOpen(CartFor(r))

(* The stock of a locked row covers the line, and every line is locked or  *)
(* still to lock.                                                          *)
StockInv ==
  \A r \in Request :
    /\ \A s \in Sku : SkuRow(s) \in held[r] => InStock(s, snap[r].lines[s])
    /\ pc[r] \in AfterCart =>
         \A s \in SkusOf(snap[r].lines) : s \in todo[r] \/ SkuRow(s) \in held[r]
    /\ pc[r] \in AfterLines => todo[r] = {}

CouponInv ==
  \A r \in Request :
    pc[r] \in AfterCoupon /\ snap[r].coupon
      => /\ CouponRow \in held[r]
         /\ ~CouponSpent
         /\ ~RedeemedOnce(CustomerFor(r))

(* A number computed under the lock of the counter is the next one; one    *)
(* computed without it is 1, and stands only while no order does.          *)
NumberInv ==
  \A r \in Request :
    /\ pc[r] = "number" => num[r] = IF SeqRow \in held[r] THEN seq + 1 ELSE 1
    /\ pc[r] \in AfterNumber => SeqRow \in held[r] /\ num[r] = seq + 1

PointsInv ==
  \A r \in Request :
    /\ pc[r] = "lockPoints" => snap[r].points > 0
    /\ pc[r] = "commit" /\ snap[r].points > 0
         => /\ PointsRow(CustomerFor(r)) \in held[r]
            /\ EnoughPoints(CustomerFor(r), snap[r].points)

(* An order belongs to an activation of its cart that is over, or to the   *)
(* present one of a cart that is not ACTIVE any more.                      *)
ActivationInv ==
  \A n \in DOMAIN orders :
    /\ orders[n].customer = CustomerOf[orders[n].cart]
    /\ orders[n].activation <= fill[orders[n].cart]
    /\ CartStillOpen(orders[n].cart) => orders[n].activation < fill[orders[n].cart]

IInv == /\ TypeOK /\ LockInv /\ CartInv /\ StockInv /\ CouponInv /\ NumberInv
        /\ PointsInv /\ ActivationInv
        /\ NoOversell /\ CouponWithinLimits /\ NeverOverdrawn /\ OneOrderPerActivation

-----------------------------------------------------------------------------
(* What documents and comments of the repository say and the code does not *)
(* keep: each of these has a run that shows a counterexample.              *)

(* OPERATIONS.md: a double click or a client retry never makes two orders  *)
(* out of the same cart, i.e. of one filling of it.                        *)
OneOrderPerFilling ==
  \A m, n \in DOMAIN orders :
    m # n /\ orders[m].cart = orders[n].cart
      => orders[m].filling # orders[n].filling

(* nextOrderNumber: the counter, locked at row level, guarantees unique    *)
(* numbers even with concurrent orders.                                    *)
LockMakesNumbersUnique ==
  \A r \in Request : pc[r] = "number" /\ Free(SeqRow) => ~NumberTaken(num[r])
=============================================================================

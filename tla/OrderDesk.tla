------------------------------ MODULE OrderDesk ------------------------------
(***************************************************************************)
(* The Back-Office at work: clerks (and customers, who cancel) change the  *)
(* status of orders, record payments, adjust the stock and save product    *)
(* forms, all at once, down to the row locks of PostgreSQL.                *)
(*                                                                         *)
(* As in Checkout, a transaction writes rows that it holds locked until it *)
(* ends, so its writes are one action and an abort writes nothing. What it *)
(* read under a lock is in seen and read: the write uses that, or is an    *)
(* atomic increment, as the code does.                                     *)
(***************************************************************************)
EXTENDS DeskData, Sequences, Tally

CONSTANTS
  Clerk,     \* who works at the same time
  Task,      \* what they may do, again and again
  Stock0, Balance0,
  MaxMoves   \* bound: movements of a Sku before clerks stop adjusting it

(* [op |-> "status", order, to], [op |-> "cancel", order, by],             *)
(* [op |-> "pay", order, amount], [op |-> "adjust", sku, delta] and        *)
(* [op |-> "form", sku].                                                   *)
ASSUME TaskAssumption ==
  \A t \in Task :
    \/ t.op = "status" /\ t.order \in OrderId /\ t.to \in OrderStatus
    \/ t.op = "cancel" /\ t.order \in OrderId /\ t.by \in Customer
    \/ t.op = "pay" /\ t.order \in OrderId /\ t.amount \in Nat \ {0}
    \/ t.op = "adjust" /\ t.sku \in Sku /\ t.delta \in Int
    \/ t.op = "form" /\ t.sku \in Sku

ASSUME DeskTablesAssumption ==
  /\ Stock0 \in [Sku -> Nat]
  /\ Balance0 \in [Account -> Nat]
  /\ MaxMoves \in Nat

VARIABLES
  (* Tables of the database, as committed *)
  status,    \* Order.status
  history,   \* OrderStatusHistory
  paid,      \* Order.paidAmount
  payStatus, \* Order.paymentStatus
  stock,     \* stock
  reserved,  \* reservedStock
  moves,     \* StockMovement
  balance,   \* LoyaltyAccount.pointsBalance
  credits,   \* how many EARN rows of LoyaltyTransaction carry the order
  received,  \* history: the payments that were acknowledged
  (* Clerks *)
  pc,        \* the next statement of the clerk's request
  task,      \* what it does
  seen,      \* the order, read under its lock
  read,      \* the stocks, read under their locks (or in a form, without)
  todo,      \* the lines still to lock
  aim,       \* the one it is locking
  held       \* the rows its transaction has locked

orderTables == <<status, history>>
payTables   == <<paid, payStatus, received>>
stockTables == <<stock, reserved, moves>>
pointTables == <<balance, credits>>
tables      == <<orderTables, payTables, stockTables, pointTables>>
local       == <<task, seen, read, todo, aim>>
vars        == <<tables, pc, local, held>>

OrderRow(n)  == <<"Order", n>>
SkuRow(s)    == <<"Sku", s>>
PointsRow(k) == <<"LoyaltyAccount", k>>

Row == {OrderRow(n) : n \in OrderId} \cup {SkuRow(s) : s \in Sku}
       \cup {PointsRow(k) : k \in Account}

Free(row) == \A w \in Clerk : row \notin held[w]

InTx == {"lockOrder", "lockSku", "lockPoints", "write"}

AnySku == CHOOSE s \in Sku : TRUE
Nothing == [op |-> "none"]
NoOrder == [status |-> NotPlaced, paid |-> 0]
NoRead == [s \in Sku |-> 0]

Goto(w, label) == pc' = [pc EXCEPT ![w] = label]

Lock(w, row) == held' = [held EXCEPT ![w] = @ \cup {row}]

(* The request is answered; a transaction releases its locks.              *)
End(w) ==
  /\ Goto(w, "idle")
  /\ task' = [task EXCEPT ![w] = Nothing]
  /\ seen' = [seen EXCEPT ![w] = NoOrder]
  /\ read' = [read EXCEPT ![w] = NoRead]
  /\ todo' = [todo EXCEPT ![w] = {}]
  /\ aim' = [aim EXCEPT ![w] = AnySku]
  /\ held' = [held EXCEPT ![w] = {}]

Init ==
  /\ status = [n \in OrderId |-> NotPlaced]
  /\ history = [n \in OrderId |-> <<>>]
  /\ paid = [n \in OrderId |-> 0]
  /\ payStatus = [n \in OrderId |-> "PENDING"]
  /\ stock = Stock0
  /\ reserved = [s \in Sku |-> 0]
  /\ moves = [s \in Sku |-> <<>>]
  /\ balance = Balance0
  /\ credits = [n \in OrderId |-> 0]
  /\ received = [n \in OrderId |-> 0]
  /\ pc = [w \in Clerk |-> "idle"]
  /\ task = [w \in Clerk |-> Nothing]
  /\ seen = [w \in Clerk |-> NoOrder]
  /\ read = [w \in Clerk |-> NoRead]
  /\ todo = [w \in Clerk |-> {}]
  /\ aim = [w \in Clerk |-> AnySku]
  /\ held = [w \in Clerk |-> {}]

-----------------------------------------------------------------------------
(* checkout or quickOrderFromLandingPage, in one step: module Checkout is  *)
(* about its own.                                                          *)
PlaceOrder(n) ==
  LET k == Placed[n].customer
  IN  /\ status[n] = NotPlaced
      /\ \A s \in SkusOf(n) :
           Free(SkuRow(s)) /\ Placed[n].lines[s] <= stock[s] - reserved[s]
      /\ Placed[n].points > 0 => Free(PointsRow(k)) /\ balance[k] >= Placed[n].points
      /\ status' = [status EXCEPT ![n] = "PENDING"]
      /\ history' = [history EXCEPT ![n] = <<[from |-> NotPlaced, to |-> "PENDING"]>>]
      /\ reserved' = PlusLines(reserved, n)
      /\ balance' = Credit(balance, k, -Placed[n].points)
      /\ UNCHANGED <<payTables, stock, moves, credits, pc, local, held>>

-----------------------------------------------------------------------------
Begin(w) ==
  /\ pc[w] = "idle"
  /\ \E t \in Task :
       /\ t.op = "adjust" => Len(moves[t.sku]) < MaxMoves
       /\ task' = [task EXCEPT ![w] = t]
       /\ IF t.op \in {"adjust", "form"}
          THEN /\ Goto(w, IF t.op = "form" THEN "open" ELSE "lockSku")
               /\ todo' = [todo EXCEPT ![w] = {t.sku}]
               /\ aim' = [aim EXCEPT ![w] = t.sku]
          ELSE Goto(w, "lockOrder") /\ UNCHANGED <<todo, aim>>
  /\ UNCHANGED <<tables, seen, read, held>>

(* The status the task gives its order.                                    *)
Target(t) == IF t.op = "cancel" THEN "CANCELLED" ELSE t.to

Releases(t) == t.op \in {"status", "cancel"} /\ Target(t) = "CANCELLED"
Delivers(t) == t.op = "status" /\ t.to = "DELIVERED"

(* Cancelling is not refused once the order has left.                      *)
MutTransitionRefused(t) ==
  t.to # "CANCELLED" /\ t.to \notin ORDER_NEXT_STATUS[status[t.order]]

TransitionRefused(t) ==
  IF t.to = "CANCELLED"
  THEN status[t.order] \notin CANCELLABLE_STATUSES
  ELSE t.to \notin ORDER_NEXT_STATUS[status[t.order]]

(* Compares the amount alone with the total.                               *)
MutOverpays(t) == t.amount > Placed[t.order].total

Overpays(t) == paid[t.order] + t.amount > Placed[t.order].total

(* The guards after the lock: not found, wrong customer, wrong status, or  *)
(* more money than the total.                                              *)
Refused(t) ==
  \/ status[t.order] = NotPlaced
  \/ t.op = "status" /\ TransitionRefused(t)
  \/ t.op = "cancel" /\ (\/ t.by # Placed[t.order].customer
                         \/ status[t.order] \notin CANCELLABLE_STATUSES)
  \/ t.op = "pay" /\ Overpays(t)

(* Reads the order without FOR UPDATE.                                     *)
MutOrderFree(n) == TRUE

OrderFree(n) == Free(OrderRow(n))

(* Reads the stock without FOR UPDATE.                                     *)
MutSkuFree(s) == TRUE

SkuFree(s) == Free(SkuRow(s))

(* SELECT ... FROM "Order" ... FOR UPDATE, then the read of the order.     *)
LockOrder(w) ==
  LET t == task[w]
      n == t.order
  IN  /\ pc[w] = "lockOrder"
      /\ OrderFree(n)
      /\ IF Refused(t)
         THEN End(w)
         ELSE /\ Lock(w, OrderRow(n))
              /\ seen' = [seen EXCEPT ![w] = [status |-> status[n], paid |-> paid[n]]]
              /\ IF Releases(t) \/ Delivers(t)
                 THEN /\ Goto(w, "lockSku")
                      /\ todo' = [todo EXCEPT ![w] = SkusOf(n)]
                      /\ \E s \in SkusOf(n) : aim' = [aim EXCEPT ![w] = s]
                 ELSE Goto(w, "write") /\ UNCHANGED <<todo, aim>>
              /\ UNCHANGED <<task, read>>
      /\ UNCHANGED tables

AfterLines(t) == IF Delivers(t) /\ Earned(t.order) > 0 THEN "lockPoints" ELSE "write"

(* One line of deductOnDelivery (SELECT ... FOR UPDATE), releaseReservation*)
(* (UPDATE) or adjustStock: each leaves the row locked.                    *)
LockSku(w) ==
  LET t    == task[w]
      s    == aim[w]
      left == todo[w] \ {s}
  IN  /\ pc[w] = "lockSku"
      /\ SkuFree(s)
      /\ IF t.op = "adjust" /\ stock[s] + t.delta < 0
         THEN End(w)
         ELSE /\ Lock(w, SkuRow(s))
              /\ read' = [read EXCEPT ![w][s] = stock[s]]
              /\ todo' = [todo EXCEPT ![w] = left]
              /\ IF left = {}
                 THEN Goto(w, AfterLines(t)) /\ UNCHANGED aim
                 ELSE /\ \E next \in left : aim' = [aim EXCEPT ![w] = next]
                      /\ UNCHANGED pc
              /\ UNCHANGED <<task, seen>>
      /\ UNCHANGED tables

LockPoints(w) ==
  /\ pc[w] = "lockPoints"
  /\ Free(PointsRow(Placed[task[w].order].customer))
  /\ Lock(w, PointsRow(Placed[task[w].order].customer))
  /\ Goto(w, "write")
  /\ UNCHANGED <<tables, local>>

-----------------------------------------------------------------------------
(* The writes of a transaction, and its end.                               *)
MoveOrder(w, to) ==
  LET n == task[w].order
  IN  /\ status' = [status EXCEPT ![n] = to]
      /\ history' = [history EXCEPT ![n] = Append(@, [from |-> seen[w].status, to |-> to])]

WriteStatus(w) ==
  /\ pc[w] = "write"
  /\ task[w].op = "status"
  /\ ~Releases(task[w]) /\ ~Delivers(task[w])
  /\ MoveOrder(w, task[w].to)
  /\ End(w)
  /\ UNCHANGED <<payTables, stockTables, pointTables>>

WriteCancel(w) ==
  /\ pc[w] = "write"
  /\ Releases(task[w])
  /\ MoveOrder(w, "CANCELLED")
  /\ reserved' = MinusLines(reserved, task[w].order)
  /\ End(w)
  /\ UNCHANGED <<payTables, stock, moves, pointTables>>

(* The stock is decremented, the movement is what was read and computed.   *)
WriteDelivery(w) ==
  LET n == task[w].order
  IN  /\ pc[w] = "write"
      /\ Delivers(task[w])
      /\ MoveOrder(w, "DELIVERED")
      /\ stock' = MinusLines(stock, n)
      /\ reserved' = MinusLines(reserved, n)
      /\ moves' = [s \in Sku |->
                     IF s \in SkusOf(n)
                     THEN Append(moves[s], [previous |-> read[w][s],
                                            new |-> read[w][s] - Placed[n].lines[s],
                                            order |-> n])
                     ELSE moves[s]]
      /\ balance' = Credit(balance, Placed[n].customer, Earned(n))
      /\ credits' = IF Earned(n) > 0 THEN [credits EXCEPT ![n] = @ + 1] ELSE credits
      /\ End(w)
      /\ UNCHANGED payTables

(* Unpaid until the total is reached.                                      *)
PaymentStatus(n, amount) == IF amount >= Placed[n].total THEN "PAID" ELSE "PARTIAL"

WritePayment(w) ==
  LET n == task[w].order
      amount == seen[w].paid + task[w].amount
  IN  /\ pc[w] = "write"
      /\ task[w].op = "pay"
      /\ paid' = [paid EXCEPT ![n] = amount]
      /\ payStatus' = [payStatus EXCEPT ![n] = PaymentStatus(n, amount)]
      /\ received' = [received EXCEPT ![n] = @ + task[w].amount]
      /\ End(w)
      /\ UNCHANGED <<orderTables, stockTables, pointTables>>

WriteAdjustment(w) ==
  LET s   == task[w].sku
      new == read[w][s] + task[w].delta
  IN  /\ pc[w] = "write"
      /\ task[w].op = "adjust"
      /\ stock' = [stock EXCEPT ![s] = new]
      /\ moves' = [moves EXCEPT ![s] =
                     Append(@, [previous |-> read[w][s], new |-> new, order |-> NotPlaced])]
      /\ End(w)
      /\ UNCHANGED <<orderTables, payTables, reserved, pointTables>>

-----------------------------------------------------------------------------
(* The variant form of the Back-Office takes the stock it was opened with  *)
(* back to the server, in one UPDATE without a movement. The validation    *)
(* refuses a negative number. (An import of a spreadsheet does the same to *)
(* a product, but checks nothing: it is left out here.)                    *)
OpenForm(w) ==
  LET s == task[w].sku
  IN  /\ pc[w] = "open"
      /\ read' = [read EXCEPT ![w][s] = stock[s]]
      /\ Goto(w, "save")
      /\ UNCHANGED <<tables, task, seen, todo, aim, held>>

SaveForm(w) ==
  LET s == task[w].sku
  IN  /\ pc[w] = "save"
      /\ Free(SkuRow(s))
      /\ stock' = [stock EXCEPT ![s] = IF read[w][s] >= 0 THEN read[w][s] ELSE @]
      /\ End(w)
      /\ UNCHANGED <<orderTables, payTables, reserved, moves, pointTables>>

-----------------------------------------------------------------------------
(* The row a clerk's statement waits for, were it taken.                   *)
Wanted(w) ==
  CASE pc[w] = "lockOrder"  -> OrderRow(task[w].order)
    [] pc[w] = "lockSku"    -> SkuRow(aim[w])
    [] pc[w] = "lockPoints" -> PointsRow(Placed[task[w].order].customer)
    [] OTHER                -> <<>>

WaitsFor(w, v) == w # v /\ Wanted(w) \in held[v]

(* No deadlock detector.                                                   *)
MutDeadlocked(w) == FALSE

(* w is on a cycle of the waits-for graph.                                 *)
Deadlocked(w) ==
  \E S \in SUBSET Clerk :
    /\ w \in S
    /\ \A v \in S : \E u \in S : WaitsFor(v, u)
    /\ \A v \in S : \E u \in S : WaitsFor(u, v)

DeadlockAbort(w) ==
  /\ pc[w] \in InTx
  /\ Deadlocked(w)
  /\ End(w)
  /\ UNCHANGED tables

(* The transaction's timeout, a lost connection or a crash of the API.     *)
Abort(w) ==
  /\ pc[w] \in InTx
  /\ End(w)
  /\ UNCHANGED tables

-----------------------------------------------------------------------------
Statement(w) ==
  \/ LockOrder(w) \/ LockSku(w) \/ LockPoints(w)
  \/ WriteStatus(w) \/ WriteCancel(w) \/ WriteDelivery(w)
  \/ WritePayment(w) \/ WriteAdjustment(w)
  \/ OpenForm(w) \/ SaveForm(w)

Next ==
  \/ \E n \in OrderId : PlaceOrder(n)
  \/ \E w \in Clerk : Begin(w) \/ Statement(w) \/ DeadlockAbort(w) \/ Abort(w)

(* PostgreSQL serves the queue of a lock in order, so a statement that can *)
(* take its lock again and again takes it at last; it runs its deadlock    *)
(* detector, and the API runs every request to its end.                    *)
Fairness == \A w \in Clerk : SF_vars(Statement(w)) /\ WF_vars(DeadlockAbort(w))

Spec     == Init /\ [][Next]_vars
FairSpec == Spec /\ Fairness

-----------------------------------------------------------------------------
Entry == [from: OrderStatus \cup {NotPlaced}, to: OrderStatus]
Movement == [previous: Int, new: Int, order: OrderId \cup {NotPlaced}]

TypeOK ==
  /\ status \in [OrderId -> OrderStatus \cup {NotPlaced}]
  /\ history \in [OrderId -> Seq(Entry)]
  /\ paid \in [OrderId -> Nat]
  /\ payStatus \in [OrderId -> {"PENDING", "PARTIAL", "PAID"}]
  /\ stock \in [Sku -> Int]
  /\ reserved \in [Sku -> Int]
  /\ moves \in [Sku -> Seq(Movement)]
  /\ balance \in [Account -> Int]
  /\ credits \in [OrderId -> 0..1]
  /\ received \in [OrderId -> Nat]
  /\ pc \in [Clerk -> InTx \cup {"idle", "open", "save"}]
  /\ task \in [Clerk -> Task \cup {Nothing}]
  /\ seen \in [Clerk -> [status: OrderStatus \cup {NotPlaced}, paid: Nat]]
  /\ read \in [Clerk -> [Sku -> Int]]
  /\ todo \in [Clerk -> SUBSET Sku]
  /\ aim \in [Clerk -> Sku]
  /\ held \in [Clerk -> SUBSET Row]

(* The history of an order is a path of ORDER_NEXT_STATUS from its         *)
(* placement to its present status, whoever clicks at the same time        *)
(* (OPERATIONS.md: the statuses follow a strict flow).                     *)
HistoryIsAFlow ==
  \A n \in OrderId :
    LET h == history[n]
    IN  IF status[n] = NotPlaced
        THEN h = <<>>
        ELSE /\ h # <<>>
             /\ h[1] = [from |-> NotPlaced, to |-> "PENDING"]
             /\ h[Len(h)].to = status[n]
             /\ \A i \in 2..Len(h) : /\ h[i].from = h[i - 1].to
                                     /\ h[i].to \in ORDER_NEXT_STATUS[h[i].from]

(* What an order says it was paid is what the clerks were told they had    *)
(* recorded, never more than its total, and PAID means all of it.          *)
PaymentsAddUp ==
  \A n \in OrderId :
    /\ paid[n] = received[n]
    /\ paid[n] <= Placed[n].total
    /\ payStatus[n] = IF paid[n] = 0 THEN "PENDING" ELSE PaymentStatus(n, paid[n])

(* Unless a form is saved over it, the movements of a Sku lead step by     *)
(* step from its first stock to its present one, and hold one deduction    *)
(* per delivered order that contains it.                                   *)
StockIsItsMovements ==
  \A s \in {q \in Sku : \A t \in Task : ~(t.op = "form" /\ t.sku = q)} :
    LET m == moves[s]
        deduction(n) == {i \in DOMAIN m : m[i].order = n}
    IN  /\ stock[s] = IF m = <<>> THEN Stock0[s] ELSE m[Len(m)].new
        /\ \A i \in DOMAIN m :
             m[i].previous = IF i = 1 THEN Stock0[s] ELSE m[i - 1].new
        /\ \A n \in OrderId :
             IF status[n] = "DELIVERED" /\ s \in SkusOf(n)
             THEN \E i \in DOMAIN m :
                    /\ deduction(n) = {i}
                    /\ m[i].previous - m[i].new = Placed[n].lines[s]
             ELSE deduction(n) = {}

InHand == {"PENDING", "CONFIRMED", "PREPARING", "SHIPPED"}

(* What every order holds of a Sku, took from a purse, and earns.          *)
LinesWith(s) == [n \in OrderId |-> Placed[n].lines[s]]
PointsUsed   == [n \in OrderId |-> Placed[n].points]
PointsEarned == [n \in OrderId |-> Earned(n)]

OrdersIn(states) == {n \in OrderId : status[n] \in states}
OrdersOf(k, states) == {n \in OrdersIn(states) : Placed[n].customer = k}

(* reservedStock is, row by row, what the orders in hand hold: nothing     *)
(* stays reserved for an order that is over, nothing is released twice.    *)
ReservedIsOrdersInHand ==
  \A s \in Sku : reserved[s] = Tally(OrdersIn(InHand), LinesWith(s))

(* An order is credited once, when it is delivered.                        *)
CreditedOnce ==
  \A n \in OrderId :
    credits[n] = IF status[n] = "DELIVERED" /\ Earned(n) > 0 THEN 1 ELSE 0

(* A balance is what it was, minus what the orders took, plus what their   *)
(* deliveries gave, each of them once.                                     *)
PointsAreLedger ==
  /\ CreditedOnce
  /\ \A k \in Account :
       balance[k] = Balance0[k] - Tally(OrdersOf(k, OrderStatus), PointsUsed)
                                + Tally(OrdersOf(k, {"DELIVERED"}), PointsEarned)

(* Every request a clerk sends is answered, deadlocks included.            *)
EveryTaskEnds == \A w \in Clerk : pc[w] # "idle" ~> pc[w] = "idle"

(* The desk, in lock steps, implements the atomic flow of orders.          *)
OF == INSTANCE OrderFlow
ImplementsOrderFlow == OF!Spec

-----------------------------------------------------------------------------
(* What messages and documents of the repository say and the code does not *)
(* keep: each of these has a run that shows a counterexample.              *)

(* adjustStock: "Le stock ne peut jamais devenir négatif".                 *)
StockNeverNegative == \A s \in Sku : stock[s] >= 0
=============================================================================

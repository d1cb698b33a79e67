--------------------------- MODULE OrderDeskProofs ---------------------------
(***************************************************************************)
(* Proofs about OrderDesk, for any number of clerks, customers, orders and *)
(* rows of stock, and any mix of tasks: its type invariant, the flow of    *)
(* the statuses, the payments, the movements of the stock, and that it     *)
(* implements OrderFlow.                                                   *)
(***************************************************************************)
EXTENDS OrderDesk, TallyProofs

(* Rows of different tables, or with different keys, are different rows.   *)
LEMMA RowFacts ==
  /\ \A n \in OrderId : OrderRow(n) \in Row
  /\ \A s \in Sku : SkuRow(s) \in Row
  /\ \A k \in Account : PointsRow(k) \in Row
  /\ \A n, m : OrderRow(n) = OrderRow(m) => n = m
  /\ \A s, t : SkuRow(s) = SkuRow(t) => s = t
  /\ \A n, s : OrderRow(n) # SkuRow(s)
  /\ \A n, k : OrderRow(n) # PointsRow(k)
  /\ \A s, k : SkuRow(s) # PointsRow(k)
  BY DEF Row, OrderRow, SkuRow, PointsRow

(* Tasks that begin with an order, and those of them that move its stock.  *)
OnOrder(t) == t.op \in {"status", "cancel", "pay"}
MovesStock(t) == Releases(t) \/ Delivers(t)

LEMMA TaskFacts ==
  ASSUME NEW t \in Task
  PROVE  /\ t # Nothing
         /\ t.op \in {"status", "cancel", "pay", "adjust", "form"}
         /\ OnOrder(t) => t.order \in OrderId
         /\ t.op = "status" => t.to \in OrderStatus
         /\ t.op = "pay" => t.amount \in Nat \ {0}
         /\ ~OnOrder(t) => t.sku \in Sku
         /\ t.op = "adjust" => t.delta \in Int
         /\ MovesStock(t) => OnOrder(t) /\ t.op # "pay"
         /\ ~(Releases(t) /\ Delivers(t))
  <1>1. t.op = "none" => FALSE
    BY TaskAssumption
  <1>2. t # Nothing
    BY <1>1 DEF Nothing
  <1> QED
    BY <1>2, TaskAssumption DEF OnOrder, MovesStock, Releases, Delivers, Target

LEMMA OrderFacts ==
  ASSUME NEW n \in OrderId
  PROVE  /\ Placed[n].customer \in Customer
         /\ Placed[n].lines \in [Sku -> Nat]
         /\ \A s \in Sku : Placed[n].lines[s] \in Nat
         /\ SkusOf(n) \in SUBSET Sku /\ SkusOf(n) # {}
         /\ Placed[n].points \in Nat /\ Placed[n].total \in Nat
         /\ Earned(n) \in Nat
         /\ Earned(n) > 0 => Placed[n].customer \in Account
  <1>1. /\ Placed[n].customer \in Customer /\ Placed[n].lines \in [Sku -> Nat]
        /\ \E s \in Sku : Placed[n].lines[s] > 0
        /\ Placed[n].points \in Nat /\ Placed[n].total \in Nat
        /\ Placed[n].subtotal \in Nat /\ Placed[n].discount \in Nat
    BY DeskAssumption
  <1>2. earnedPoints(Placed[n].subtotal, Placed[n].discount) \in Int
    BY <1>1 DEF earnedPoints
  <1>3. Earned(n) \in Nat
    BY <1>2 DEF Earned, Larger
  <1>4. Earned(n) > 0 => Placed[n].customer \in Account
    BY DEF Earned
  <1> QED
    BY <1>1, <1>3, <1>4 DEF SkusOf

(* Where a status may go, and where it may be cancelled.                   *)
LEMMA FlowFacts ==
  /\ \A st \in OrderStatus : ORDER_NEXT_STATUS[st] \subseteq OrderStatus
  /\ \A st \in OrderStatus : st \in CANCELLABLE_STATUSES <=> "CANCELLED" \in ORDER_NEXT_STATUS[st]
  /\ \A st \in OrderStatus : "PENDING" \notin ORDER_NEXT_STATUS[st]
  /\ ORDER_NEXT_STATUS["DELIVERED"] = {}
  /\ CANCELLABLE_STATUSES \subseteq OrderStatus /\ "DELIVERED" \notin CANCELLABLE_STATUSES
  /\ NotPlaced \notin OrderStatus /\ "PENDING" \in OrderStatus
  /\ "CANCELLED" \in OrderStatus /\ "DELIVERED" \in OrderStatus
  BY DEF ORDER_NEXT_STATUS, OrderStatus, CANCELLABLE_STATUSES, NotPlaced

(* An order that can move is in hand, and moves on in hand until it ends.  *)
LEMMA OnwardFacts ==
  ASSUME NEW st \in OrderStatus, NEW to \in ORDER_NEXT_STATUS[st]
  PROVE  /\ st \in InHand
         /\ to # "DELIVERED" /\ to # "CANCELLED" => to \in InHand
  BY DEF ORDER_NEXT_STATUS, OrderStatus, InHand

(* A task on an order that is not refused is one the flow allows.          *)
LEMMA AllowedTask ==
  ASSUME NEW t \in Task, OnOrder(t), ~Refused(t),
         status[t.order] \in OrderStatus \cup {NotPlaced},
         paid[t.order] \in Nat
  PROVE  /\ status[t.order] \in OrderStatus
         /\ t.op = "status" => t.to \in ORDER_NEXT_STATUS[status[t.order]]
         /\ Releases(t) => "CANCELLED" \in ORDER_NEXT_STATUS[status[t.order]]
         /\ Delivers(t) => "DELIVERED" \in ORDER_NEXT_STATUS[status[t.order]]
         /\ t.op = "pay" => paid[t.order] + t.amount <= Placed[t.order].total
  <1>1. status[t.order] \in OrderStatus
    BY DEF Refused
  <1>2. t.op = "status" => t.to \in ORDER_NEXT_STATUS[status[t.order]]
    BY <1>1, FlowFacts DEF Refused, TransitionRefused
  <1>3. t.op = "cancel" => "CANCELLED" \in ORDER_NEXT_STATUS[status[t.order]]
    BY <1>1, FlowFacts DEF Refused
  <1>4. t.op = "pay" => paid[t.order] + t.amount <= Placed[t.order].total
    BY TaskFacts, OrderFacts DEF Refused, Overpays
  <1> QED
    BY <1>1, <1>2, <1>3, <1>4 DEF Releases, Delivers, Target

-----------------------------------------------------------------------------
(* The rows of stock a task writes.                                        *)
LinesOf(t) ==
  IF t.op = "adjust" THEN {t.sku} ELSE IF MovesStock(t) THEN SkusOf(t.order) ELSE {}

Locking == {"lockSku", "lockPoints", "write"}

(* The invariant of one request: what its locks let it rely on. While it   *)
(* holds its order, the order still is what was seen, and not refused;     *)
(* while it holds a row of stock, the stock still is what was read.        *)
Good(w) ==
  LET t == task[w]
      n == t.order
  IN  /\ pc[w] \notin Locking => held[w] = {}
      /\ pc[w] # "idle" => t \in Task
      /\ pc[w] \in {"open", "save"} => t.op = "form"
      /\ pc[w] = "lockOrder" => OnOrder(t)
      /\ pc[w] \in Locking =>
           \/ t.op = "adjust"
           \/ /\ OnOrder(t)
              /\ OrderRow(n) \in held[w]
              /\ seen[w] = [status |-> status[n], paid |-> paid[n]]
              /\ ~Refused(t)
      /\ pc[w] = "lockSku" => aim[w] \in todo[w] /\ todo[w] \subseteq LinesOf(t)
      /\ pc[w] \in Locking => \A s \in LinesOf(t) : s \in todo[w] \/ SkuRow(s) \in held[w]
      /\ pc[w] \in {"idle", "lockOrder", "lockPoints", "write"} => todo[w] = {}
      /\ pc[w] = "lockPoints" => Delivers(t) /\ Earned(n) > 0
      /\ \A s \in Sku : SkuRow(s) \in held[w] => read[w][s] = stock[s]
      /\ pc[w] = "write" /\ t.op = "adjust" => stock[t.sku] + t.delta >= 0

Exclusive == \A w, v \in Clerk : w # v => held[w] \cap held[v] = {}

(* The sums of ReservedIsOrdersInHand and PointsAreLedger, and that they   *)
(* are finite even if there are infinitely many orders still to place.     *)
LedgerInv ==
  /\ \A s \in Sku : IsTally(OrdersIn(InHand), LinesWith(s), reserved[s])
  /\ \A k \in Account : \E used, earned \in Nat :
       /\ IsTally(OrdersOf(k, OrderStatus), PointsUsed, used)
       /\ IsTally(OrdersOf(k, {"DELIVERED"}), PointsEarned, earned)
       /\ balance[k] = Balance0[k] - used + earned

IInv ==
  /\ TypeOK /\ Exclusive /\ \A w \in Clerk : Good(w)
  /\ HistoryIsAFlow /\ PaymentsAddUp /\ StockIsItsMovements /\ CreditedOnce
  /\ LedgerInv

-----------------------------------------------------------------------------
(* TypeOK, the tables and the clerks.                                      *)
Label == InTx \cup {"idle", "open", "save"}
Seen  == [status: OrderStatus \cup {NotPlaced}, paid: Nat]

TablesOK ==
  /\ status \in [OrderId -> OrderStatus \cup {NotPlaced}]
  /\ history \in [OrderId -> Seq(Entry)]
  /\ paid \in [OrderId -> Nat]
  /\ payStatus \in [OrderId -> {"PENDING", "PARTIAL", "PAID"}]
  /\ stock \in [Sku -> Int]
  /\ reserved \in [Sku -> Int]
  /\ moves \in [Sku -> Seq(Movement)]
  /\ balance \in [Account -> Int]
  /\ credits \in [OrderId -> 0..1]
  /\ received \in [OrderId -> Nat]
LocalOK ==
  /\ pc \in [Clerk -> Label]
  /\ task \in [Clerk -> Task \cup {Nothing}]
  /\ seen \in [Clerk -> Seen]
  /\ read \in [Clerk -> [Sku -> Int]]
  /\ todo \in [Clerk -> SUBSET Sku]
  /\ aim \in [Clerk -> Sku]
  /\ held \in [Clerk -> SUBSET Row]

LEMMA TypeParts ==
  /\ TypeOK <=> TablesOK /\ LocalOK
  /\ TypeOK' <=> TablesOK' /\ LocalOK'
  BY DEF TypeOK, TablesOK, LocalOK, Label, Seen

LEMMA LocalTypes ==
  ASSUME TypeOK, UNCHANGED tables, LocalOK'
  PROVE  TypeOK'
  <1>1. TablesOK'
    BY DEF TypeOK, TablesOK, tables, orderTables, payTables, stockTables, pointTables
  <1> QED
    BY <1>1, TypeParts

LEMMA NothingTypes == AnySku \in Sku /\ NoOrder \in Seen /\ NoRead \in [Sku -> Int]
  BY DeskAssumption DEF AnySku, NoOrder, NoRead, Seen

(* A request that ends leaves no trace of itself.                          *)
LEMMA EndFacts ==
  ASSUME TypeOK, NEW w \in Clerk, End(w)
  PROVE  /\ LocalOK'
         /\ pc'[w] = "idle" /\ held'[w] = {} /\ todo'[w] = {}
         /\ \A v \in Clerk \ {w} :
              /\ pc'[v] = pc[v] /\ task'[v] = task[v] /\ seen'[v] = seen[v]
              /\ read'[v] = read[v] /\ todo'[v] = todo[v] /\ aim'[v] = aim[v]
              /\ held'[v] = held[v]
  <1>1. LocalOK
    BY TypeParts
  <1>2. "idle" \in Label
    BY DEF Label
  <1>3. /\ pc' \in [Clerk -> Label] /\ task' \in [Clerk -> Task \cup {Nothing}]
        /\ seen' \in [Clerk -> Seen] /\ aim' \in [Clerk -> Sku]
    BY <1>1, <1>2, NothingTypes DEF End, Goto, LocalOK
  <1>4. read' \in [Clerk -> [Sku -> Int]]
    BY <1>1, NothingTypes DEF End, LocalOK
  <1>5. todo' \in [Clerk -> SUBSET Sku] /\ held' \in [Clerk -> SUBSET Row]
    BY <1>1 DEF End, LocalOK
  <1>6. pc'[w] = "idle" /\ held'[w] = {} /\ todo'[w] = {}
    BY <1>1 DEF End, Goto, LocalOK
  <1>7. ASSUME NEW v \in Clerk \ {w}
        PROVE  /\ pc'[v] = pc[v] /\ task'[v] = task[v] /\ seen'[v] = seen[v]
               /\ read'[v] = read[v] /\ todo'[v] = todo[v] /\ aim'[v] = aim[v]
               /\ held'[v] = held[v]
    BY <1>1, <1>7 DEF End, Goto, LocalOK
  <1> QED
    BY <1>3, <1>4, <1>5, <1>6, <1>7 DEF LocalOK

LEMMA GotoFacts ==
  ASSUME TypeOK, NEW w \in Clerk, NEW label \in Label, Goto(w, label)
  PROVE  /\ pc' \in [Clerk -> Label] /\ pc'[w] = label
         /\ \A v \in Clerk \ {w} : pc'[v] = pc[v]
  BY DEF Goto, TypeOK, Label

LEMMA LockFacts ==
  ASSUME TypeOK, NEW w \in Clerk, NEW row \in Row, Lock(w, row)
  PROVE  /\ held' \in [Clerk -> SUBSET Row] /\ held'[w] = held[w] \cup {row}
         /\ \A v \in Clerk \ {w} : held'[v] = held[v]
  <1>1. held[w] \cup {row} \in SUBSET Row
    BY DEF TypeOK
  <1> QED
    BY <1>1 DEF Lock, TypeOK

-----------------------------------------------------------------------------
(* What each statement before the writes does to its clerk.                *)
LEMMA BeginFacts ==
  ASSUME TypeOK, NEW w \in Clerk, Begin(w)
  PROVE  /\ LocalOK' /\ UNCHANGED <<tables, seen, read, held>>
         /\ pc[w] = "idle" /\ task'[w] \in Task
         /\ \/ OnOrder(task'[w]) /\ pc'[w] = "lockOrder"
            \/ task'[w].op = "form" /\ pc'[w] = "open"
            \/ /\ task'[w].op = "adjust" /\ pc'[w] = "lockSku"
               /\ todo'[w] = {task'[w].sku} /\ aim'[w] = task'[w].sku
         /\ \A v \in Clerk \ {w} :
              /\ pc'[v] = pc[v] /\ task'[v] = task[v]
              /\ todo'[v] = todo[v] /\ aim'[v] = aim[v]
  <1>0. LocalOK
    BY TypeParts
  <1>1. PICK t \in Task :
          /\ task' = [task EXCEPT ![w] = t]
          /\ IF t.op \in {"adjust", "form"}
             THEN /\ Goto(w, IF t.op = "form" THEN "open" ELSE "lockSku")
                  /\ todo' = [todo EXCEPT ![w] = {t.sku}]
                  /\ aim' = [aim EXCEPT ![w] = t.sku]
             ELSE Goto(w, "lockOrder") /\ UNCHANGED <<todo, aim>>
    BY DEF Begin
  <1>2. task' \in [Clerk -> Task \cup {Nothing}] /\ task'[w] = t
        /\ \A v \in Clerk \ {w} : task'[v] = task[v]
    BY <1>0, <1>1 DEF LocalOK
  <1>3. pc[w] = "idle" /\ UNCHANGED <<tables, seen, read, held>>
    BY DEF Begin
  <1>4. {"lockOrder", "open", "lockSku"} \subseteq Label
    BY DEF Label, InTx
  <1>5. CASE t.op \in {"adjust", "form"}
    <2>1. t.sku \in Sku
      BY <1>5, TaskFacts DEF OnOrder
    <2>2. todo' \in [Clerk -> SUBSET Sku] /\ todo'[w] = {t.sku}
          /\ \A v \in Clerk \ {w} : todo'[v] = todo[v]
      BY <1>0, <1>1, <1>5, <2>1 DEF LocalOK
    <2>3. aim' \in [Clerk -> Sku] /\ aim'[w] = t.sku
          /\ \A v \in Clerk \ {w} : aim'[v] = aim[v]
      BY <1>0, <1>1, <1>5, <2>1 DEF LocalOK
    <2>4. pc' \in [Clerk -> Label]
          /\ pc'[w] = (IF t.op = "form" THEN "open" ELSE "lockSku")
          /\ \A v \in Clerk \ {w} : pc'[v] = pc[v]
      BY <1>1, <1>4, <1>5, GotoFacts
    <2> QED
      BY <1>0, <1>2, <1>3, <1>5, <2>2, <2>3, <2>4 DEF LocalOK
  <1>6. CASE t.op \notin {"adjust", "form"}
    <2>1. OnOrder(t)
      BY <1>6, TaskFacts DEF OnOrder
    <2>2. pc' \in [Clerk -> Label] /\ pc'[w] = "lockOrder"
          /\ \A v \in Clerk \ {w} : pc'[v] = pc[v]
      BY <1>1, <1>4, <1>6, GotoFacts
    <2>3. UNCHANGED <<todo, aim>>
      BY <1>1, <1>6
    <2> QED
      BY <1>0, <1>2, <1>3, <2>1, <2>2, <2>3 DEF LocalOK
  <1> QED
    BY <1>5, <1>6

LEMMA LockOrderFacts ==
  ASSUME TypeOK, NEW w \in Clerk, Good(w), LockOrder(w), ~End(w)
  PROVE  /\ LocalOK' /\ UNCHANGED <<tables, task, read>>
         /\ pc[w] = "lockOrder" /\ OnOrder(task[w]) /\ ~Refused(task[w])
         /\ held[w] = {} /\ held'[w] = {OrderRow(task[w].order)}
         /\ OrderFree(task[w].order)
         /\ seen'[w] = [status |-> status[task[w].order], paid |-> paid[task[w].order]]
         /\ IF MovesStock(task[w])
            THEN /\ pc'[w] = "lockSku" /\ todo'[w] = SkusOf(task[w].order)
                 /\ aim'[w] \in todo'[w]
            ELSE pc'[w] = "write" /\ todo'[w] = todo[w]
         /\ \A v \in Clerk \ {w} :
              /\ pc'[v] = pc[v] /\ seen'[v] = seen[v] /\ held'[v] = held[v]
              /\ todo'[v] = todo[v] /\ aim'[v] = aim[v]
  <1> DEFINE t == task[w]
             n == task[w].order
             saw == [status |-> status[n], paid |-> paid[n]]
  <1>0. LocalOK
    BY TypeParts
  <1>1. /\ pc[w] = "lockOrder" /\ OrderFree(n) /\ ~Refused(t)
        /\ Lock(w, OrderRow(n)) /\ seen' = [seen EXCEPT ![w] = saw]
        /\ UNCHANGED <<tables, task, read>>
        /\ IF MovesStock(t)
           THEN /\ Goto(w, "lockSku") /\ todo' = [todo EXCEPT ![w] = SkusOf(n)]
                /\ \E s \in SkusOf(n) : aim' = [aim EXCEPT ![w] = s]
           ELSE Goto(w, "write") /\ UNCHANGED <<todo, aim>>
    BY Zenon DEF LockOrder, MovesStock
  <1>2. t \in Task /\ OnOrder(t) /\ held[w] = {}
    BY <1>1 DEF Good, Locking
  <1>3. n \in OrderId
    BY <1>2, TaskFacts
  <1>4. held' \in [Clerk -> SUBSET Row] /\ held'[w] = {OrderRow(n)}
        /\ \A v \in Clerk \ {w} : held'[v] = held[v]
    BY <1>1, <1>2, <1>3, LockFacts, RowFacts
  <1>5. seen' \in [Clerk -> Seen] /\ seen'[w] = saw /\ \A v \in Clerk \ {w} : seen'[v] = seen[v]
    <2>1. saw \in Seen
      BY <1>3 DEF TypeOK, Seen
    <2> QED
      BY <1>0, <1>1, <2>1 DEF LocalOK
  <1>6. "lockSku" \in Label /\ "write" \in Label
    BY DEF Label, InTx
  <1>7. CASE MovesStock(t)
    <2>1. pc' \in [Clerk -> Label] /\ pc'[w] = "lockSku" /\ \A v \in Clerk \ {w} : pc'[v] = pc[v]
      BY <1>1, <1>6, <1>7, GotoFacts
    <2>2. SkusOf(n) \in SUBSET Sku
      BY <1>3, OrderFacts
    <2>3. todo' \in [Clerk -> SUBSET Sku] /\ todo'[w] = SkusOf(n)
          /\ \A v \in Clerk \ {w} : todo'[v] = todo[v]
      BY <1>0, <1>1, <1>7, <2>2 DEF LocalOK
    <2>4. PICK s \in SkusOf(n) : aim' = [aim EXCEPT ![w] = s]
      BY <1>1, <1>7
    <2>5. aim' \in [Clerk -> Sku] /\ aim'[w] = s /\ \A v \in Clerk \ {w} : aim'[v] = aim[v]
      BY <1>0, <2>2, <2>4 DEF LocalOK
    <2> QED
      BY <1>0, <1>1, <1>2, <1>4, <1>5, <1>7, <2>1, <2>3, <2>5 DEF LocalOK
  <1>8. CASE ~MovesStock(t)
    <2>1. pc' \in [Clerk -> Label] /\ pc'[w] = "write" /\ \A v \in Clerk \ {w} : pc'[v] = pc[v]
      BY <1>1, <1>6, <1>8, GotoFacts
    <2> QED
      BY <1>0, <1>1, <1>2, <1>4, <1>5, <1>8, <2>1 DEF LocalOK
  <1> QED
    BY <1>7, <1>8

LEMMA LockSkuFacts ==
  ASSUME TypeOK, NEW w \in Clerk, Good(w), LockSku(w), ~End(w)
  PROVE  /\ LocalOK' /\ UNCHANGED <<tables, task, seen>>
         /\ pc[w] = "lockSku" /\ aim[w] \in Sku /\ aim[w] \in todo[w] /\ SkuFree(aim[w])
         /\ task[w].op = "adjust" => stock[aim[w]] + task[w].delta >= 0
         /\ held'[w] = held[w] \cup {SkuRow(aim[w])}
         /\ read'[w] = [read[w] EXCEPT ![aim[w]] = stock[aim[w]]]
         /\ todo'[w] = todo[w] \ {aim[w]}
         /\ IF todo'[w] = {} THEN pc'[w] = AfterLines(task[w])
            ELSE pc'[w] = "lockSku" /\ aim'[w] \in todo'[w]
         /\ \A v \in Clerk \ {w} :
              /\ pc'[v] = pc[v] /\ read'[v] = read[v] /\ held'[v] = held[v]
              /\ todo'[v] = todo[v] /\ aim'[v] = aim[v]
  <1> DEFINE s == aim[w]
             left == todo[w] \ {s}
  <1>0. LocalOK
    BY TypeParts
  <1>1. /\ pc[w] = "lockSku" /\ SkuFree(s)
        /\ ~(task[w].op = "adjust" /\ stock[s] + task[w].delta < 0)
        /\ Lock(w, SkuRow(s))
        /\ read' = [read EXCEPT ![w][s] = stock[s]]
        /\ todo' = [todo EXCEPT ![w] = left]
        /\ IF left = {} THEN Goto(w, AfterLines(task[w])) /\ UNCHANGED aim
           ELSE (\E next \in left : aim' = [aim EXCEPT ![w] = next]) /\ UNCHANGED pc
        /\ UNCHANGED <<tables, task, seen>>
    BY Zenon DEF LockSku
  <1>2. s \in Sku /\ s \in todo[w] /\ todo[w] \in SUBSET Sku
    BY <1>0, <1>1 DEF LocalOK, Good
  <1>3. task[w] \in Task
    BY <1>1 DEF Good
  <1>4. task[w].op = "adjust" => stock[s] + task[w].delta >= 0
    <2>1. task[w].op = "adjust" => task[w].delta \in Int
      BY <1>3, TaskFacts
    <2>2. stock[s] \in Int
      BY <1>2 DEF TypeOK
    <2> QED
      BY <1>1, <2>1, <2>2
  <1>5. held' \in [Clerk -> SUBSET Row] /\ held'[w] = held[w] \cup {SkuRow(s)}
        /\ \A v \in Clerk \ {w} : held'[v] = held[v]
    BY <1>1, <1>2, LockFacts, RowFacts
  <1>6. read' \in [Clerk -> [Sku -> Int]] /\ read'[w] = [read[w] EXCEPT ![s] = stock[s]]
        /\ \A v \in Clerk \ {w} : read'[v] = read[v]
    <2>1. read[w] \in [Sku -> Int] /\ stock[s] \in Int
      BY <1>0, <1>2 DEF LocalOK, TypeOK
    <2>2. [read[w] EXCEPT ![s] = stock[s]] \in [Sku -> Int]
      BY <1>2, <2>1
    <2>3. read' = [read EXCEPT ![w] = [read[w] EXCEPT ![s] = stock[s]]]
      BY <1>1
    <2> QED
      BY <1>0, <2>2, <2>3 DEF LocalOK
  <1>7. todo' \in [Clerk -> SUBSET Sku] /\ todo'[w] = left
        /\ \A v \in Clerk \ {w} : todo'[v] = todo[v]
    <2>1. left \in SUBSET Sku
      BY <1>2
    <2> QED
      BY <1>0, <1>1, <2>1 DEF LocalOK
  <1>8. CASE left = {}
    <2>1. AfterLines(task[w]) \in Label
      BY DEF AfterLines, Label, InTx
    <2>2. pc' \in [Clerk -> Label] /\ pc'[w] = AfterLines(task[w])
          /\ \A v \in Clerk \ {w} : pc'[v] = pc[v]
      BY <1>1, <1>8, <2>1, GotoFacts
    <2>3. aim' = aim
      BY <1>1, <1>8
    <2> QED
      BY <1>0, <1>1, <1>2, <1>4, <1>5, <1>6, <1>7, <1>8, <2>2, <2>3 DEF LocalOK
  <1>9. CASE left # {}
    <2>1. PICK next \in left : aim' = [aim EXCEPT ![w] = next]
      BY <1>1, <1>9
    <2>2. aim' \in [Clerk -> Sku] /\ aim'[w] = next /\ \A v \in Clerk \ {w} : aim'[v] = aim[v]
      BY <1>0, <1>2, <2>1 DEF LocalOK
    <2>3. pc' = pc
      BY <1>1, <1>9
    <2> QED
      BY <1>0, <1>1, <1>2, <1>4, <1>5, <1>6, <1>7, <1>9, <2>2, <2>3 DEF LocalOK
  <1> QED
    BY <1>8, <1>9

LEMMA LockPointsFacts ==
  ASSUME TypeOK, NEW w \in Clerk, Good(w), LockPoints(w)
  PROVE  /\ LocalOK' /\ UNCHANGED <<tables, local>>
         /\ pc[w] = "lockPoints" /\ pc'[w] = "write"
         /\ \E k \in Account : Free(PointsRow(k)) /\ held'[w] = held[w] \cup {PointsRow(k)}
         /\ \A v \in Clerk \ {w} : pc'[v] = pc[v] /\ held'[v] = held[v]
  <1> DEFINE k == Placed[task[w].order].customer
  <1>0. LocalOK
    BY TypeParts
  <1>1. /\ pc[w] = "lockPoints" /\ Free(PointsRow(k)) /\ Lock(w, PointsRow(k))
        /\ Goto(w, "write") /\ UNCHANGED <<tables, local>>
    BY DEF LockPoints
  <1>2. task[w] \in Task /\ Delivers(task[w]) /\ Earned(task[w].order) > 0
    BY <1>1 DEF Good
  <1>3. k \in Account
    BY <1>2, TaskFacts, OrderFacts DEF MovesStock
  <1>4. "write" \in Label
    BY DEF Label, InTx
  <1>5. pc' \in [Clerk -> Label] /\ pc'[w] = "write" /\ \A v \in Clerk \ {w} : pc'[v] = pc[v]
    BY <1>1, <1>4, GotoFacts
  <1>6. held' \in [Clerk -> SUBSET Row] /\ held'[w] = held[w] \cup {PointsRow(k)}
        /\ \A v \in Clerk \ {w} : held'[v] = held[v]
    BY <1>1, <1>3, LockFacts, RowFacts
  <1> QED
    BY <1>0, <1>1, <1>3, <1>5, <1>6 DEF LocalOK, local

LEMMA OpenFormFacts ==
  ASSUME TypeOK, NEW w \in Clerk, Good(w), OpenForm(w)
  PROVE  /\ LocalOK' /\ UNCHANGED <<tables, task, seen, todo, aim, held>>
         /\ pc[w] = "open" /\ pc'[w] = "save"
         /\ \A v \in Clerk \ {w} : pc'[v] = pc[v] /\ read'[v] = read[v]
  <1> DEFINE s == task[w].sku
  <1>0. LocalOK
    BY TypeParts
  <1>1. /\ pc[w] = "open" /\ read' = [read EXCEPT ![w][s] = stock[s]]
        /\ Goto(w, "save") /\ UNCHANGED <<tables, task, seen, todo, aim, held>>
    BY DEF OpenForm
  <1>2. s \in Sku
    BY <1>1, TaskFacts DEF Good, OnOrder
  <1>3. "save" \in Label
    BY DEF Label
  <1>4. pc' \in [Clerk -> Label] /\ pc'[w] = "save" /\ \A v \in Clerk \ {w} : pc'[v] = pc[v]
    BY <1>1, <1>3, GotoFacts
  <1>5. read' \in [Clerk -> [Sku -> Int]] /\ \A v \in Clerk \ {w} : read'[v] = read[v]
    <2>1. read[w] \in [Sku -> Int] /\ stock[s] \in Int
      BY <1>0, <1>2 DEF LocalOK, TypeOK
    <2>2. [read[w] EXCEPT ![s] = stock[s]] \in [Sku -> Int]
      BY <1>2, <2>1
    <2>3. read' = [read EXCEPT ![w] = [read[w] EXCEPT ![s] = stock[s]]]
      BY <1>1
    <2> QED
      BY <1>0, <2>2, <2>3 DEF LocalOK
  <1> QED
    BY <1>0, <1>1, <1>4, <1>5 DEF LocalOK

-----------------------------------------------------------------------------
(* The writes.                                                             *)
LEMMA AppendFacts ==
  ASSUME NEW S, NEW q \in Seq(S), NEW e \in S
  PROVE  /\ Append(q, e) \in Seq(S) /\ Append(q, e) # <<>>
         /\ Len(q) \in Nat /\ DOMAIN q = 1..Len(q)
         /\ Len(Append(q, e)) = Len(q) + 1 /\ DOMAIN Append(q, e) = 1..(Len(q) + 1)
         /\ Append(q, e)[Len(q) + 1] = e
         /\ \A i \in 1..Len(q) : Append(q, e)[i] = q[i] /\ q[i] \in S
         /\ q = <<>> <=> Len(q) = 0
  OBVIOUS

(* What a transaction knows of its order when it comes to write.           *)
LEMMA HolderFacts ==
  ASSUME TypeOK, NEW w \in Clerk, Good(w), pc[w] = "write", task[w].op # "adjust"
  PROVE  LET t == task[w]
             n == t.order
         IN  /\ t \in Task /\ OnOrder(t) /\ n \in OrderId
             /\ OrderRow(n) \in held[w]
             /\ seen[w].status = status[n] /\ seen[w].paid = paid[n]
             /\ status[n] \in OrderStatus
             /\ t.op = "status" => t.to \in ORDER_NEXT_STATUS[status[n]]
             /\ Releases(t) => "CANCELLED" \in ORDER_NEXT_STATUS[status[n]]
             /\ Delivers(t) => "DELIVERED" \in ORDER_NEXT_STATUS[status[n]]
             /\ t.op = "pay" => paid[n] + t.amount <= Placed[n].total
             /\ MovesStock(t) => \A s \in SkusOf(n) : /\ SkuRow(s) \in held[w]
                                                      /\ read[w][s] = stock[s]
  <1> DEFINE t == task[w]
             n == task[w].order
  <1>1. /\ t \in Task /\ OnOrder(t) /\ OrderRow(n) \in held[w]
        /\ seen[w] = [status |-> status[n], paid |-> paid[n]] /\ ~Refused(t)
    BY DEF Good, Locking
  <1>2. n \in OrderId
    BY <1>1, TaskFacts
  <1>3. status[n] \in OrderStatus \cup {NotPlaced} /\ paid[n] \in Nat
    BY <1>2 DEF TypeOK
  <1>4. /\ status[n] \in OrderStatus
        /\ t.op = "status" => t.to \in ORDER_NEXT_STATUS[status[n]]
        /\ Releases(t) => "CANCELLED" \in ORDER_NEXT_STATUS[status[n]]
        /\ Delivers(t) => "DELIVERED" \in ORDER_NEXT_STATUS[status[n]]
        /\ t.op = "pay" => paid[n] + t.amount <= Placed[n].total
    BY <1>1, <1>3, AllowedTask
  <1>5. ASSUME MovesStock(t), NEW s \in SkusOf(n)
        PROVE  SkuRow(s) \in held[w] /\ read[w][s] = stock[s]
    <2>1. s \in LinesOf(t) /\ s \in Sku
      BY <1>2, <1>5, OrderFacts DEF LinesOf
    <2>2. SkuRow(s) \in held[w]
      BY <2>1 DEF Good, Locking
    <2> QED
      BY <2>1, <2>2 DEF Good
  <1> QED
    BY <1>1, <1>2, <1>4, <1>5

(* HistoryIsAFlow, order by order: h leads along the flow to st.           *)
LeadsTo(h, st) ==
  IF st = NotPlaced
  THEN h = <<>>
  ELSE /\ h # <<>>
       /\ h[1] = [from |-> NotPlaced, to |-> "PENDING"]
       /\ h[Len(h)].to = st
       /\ \A i \in 2..Len(h) : /\ h[i].from = h[i - 1].to
                               /\ h[i].to \in ORDER_NEXT_STATUS[h[i].from]

LEMMA FlowParts ==
  /\ HistoryIsAFlow <=> \A n \in OrderId : LeadsTo(history[n], status[n])
  /\ HistoryIsAFlow' <=> \A n \in OrderId : LeadsTo(history'[n], status'[n])
  BY DEF HistoryIsAFlow, LeadsTo

(* A transition that the flow has leads one step further.                  *)
LEMMA LeadsFurther ==
  ASSUME NEW st \in OrderStatus, NEW h \in Seq(Entry), LeadsTo(h, st),
         NEW to \in ORDER_NEXT_STATUS[st]
  PROVE  LeadsTo(Append(h, [from |-> st, to |-> to]), to)
  <1> DEFINE e == [from |-> st, to |-> to]
             g == Append(h, e)
  <1>1. to \in OrderStatus /\ to # NotPlaced /\ st # NotPlaced
    BY FlowFacts
  <1>2. e \in Entry
    BY <1>1 DEF Entry
  <1>3. /\ g # <<>> /\ Len(h) \in Nat /\ Len(g) = Len(h) + 1 /\ g[Len(h) + 1] = e
        /\ \A i \in 1..Len(h) : g[i] = h[i]
        /\ h = <<>> <=> Len(h) = 0
    BY <1>2, AppendFacts
  <1>4. /\ h # <<>> /\ h[1] = [from |-> NotPlaced, to |-> "PENDING"] /\ h[Len(h)].to = st
        /\ \A i \in 2..Len(h) : /\ h[i].from = h[i - 1].to
                                /\ h[i].to \in ORDER_NEXT_STATUS[h[i].from]
    BY <1>1 DEF LeadsTo
  <1> HIDE DEF g
  <1>5. Len(h) >= 1
    BY <1>3, <1>4
  <1>6. g[1] = [from |-> NotPlaced, to |-> "PENDING"] /\ g[Len(g)].to = to
    BY <1>3, <1>4, <1>5
  <1>7. ASSUME NEW i \in 2..Len(g)
        PROVE  g[i].from = g[i - 1].to /\ g[i].to \in ORDER_NEXT_STATUS[g[i].from]
    <2>1. CASE i = Len(h) + 1
      <3>1. g[i] = e /\ g[i - 1] = h[Len(h)]
        BY <1>3, <1>5, <2>1
      <3> QED
        BY <1>4, <3>1
    <2>2. CASE i # Len(h) + 1
      <3>1. i \in 2..Len(h)
        BY <1>3, <2>2
      <3>2. g[i] = h[i] /\ g[i - 1] = h[i - 1]
        BY <1>3, <3>1
      <3> QED
        BY <1>4, <3>1, <3>2
    <2> QED
      BY <2>1, <2>2
  <1> QED
    BY <1>1, <1>3, <1>6, <1>7 DEF LeadsTo, g

LEMMA MoveFacts ==
  ASSUME TypeOK, HistoryIsAFlow, NEW w \in Clerk, NEW to, MoveOrder(w, to),
         task[w].order \in OrderId, seen[w].status = status[task[w].order],
         status[task[w].order] \in OrderStatus,
         to \in ORDER_NEXT_STATUS[status[task[w].order]]
  PROVE  /\ to \in OrderStatus
         /\ status' \in [OrderId -> OrderStatus \cup {NotPlaced}]
         /\ status'[task[w].order] = to
         /\ \A m \in OrderId \ {task[w].order} : status'[m] = status[m]
         /\ history' \in [OrderId -> Seq(Entry)]
         /\ HistoryIsAFlow'
  <1> DEFINE n == task[w].order
             e == [from |-> status[n], to |-> to]
  <1>1. to \in OrderStatus
    BY FlowFacts
  <1>2. /\ status' = [status EXCEPT ![n] = to]
        /\ history' = [history EXCEPT ![n] = Append(history[n], e)]
    BY DEF MoveOrder
  <1>3. /\ status' \in [OrderId -> OrderStatus \cup {NotPlaced}]
        /\ status'[n] = to
        /\ \A m \in OrderId \ {n} : status'[m] = status[m]
    BY <1>1, <1>2 DEF TypeOK
  <1>4. history[n] \in Seq(Entry) /\ e \in Entry
    BY <1>1 DEF TypeOK, Entry
  <1>5. history' \in [OrderId -> Seq(Entry)] /\ history'[n] = Append(history[n], e)
        /\ \A m \in OrderId \ {n} : history'[m] = history[m]
    BY <1>2, <1>4, AppendFacts DEF TypeOK
  <1>6. LeadsTo(history'[n], status'[n])
    BY <1>3, <1>4, <1>5, FlowParts, LeadsFurther
  <1> QED
    BY <1>1, <1>3, <1>5, <1>6, FlowParts

(* StockIsItsMovements, Sku by Sku: the movements m lead from the first    *)
(* stock of s to now, and deduct an order once, when it is delivered.      *)
Chained(s, m, now) ==
  /\ now = IF m = <<>> THEN Stock0[s] ELSE m[Len(m)].new
  /\ \A i \in DOMAIN m : m[i].previous = IF i = 1 THEN Stock0[s] ELSE m[i - 1].new

Deductions(m, n) == {i \in DOMAIN m : m[i].order = n}

DeductedOnce(s, m, n, st) ==
  IF st = "DELIVERED" /\ s \in SkusOf(n)
  THEN \E i \in DOMAIN m : /\ Deductions(m, n) = {i}
                           /\ m[i].previous - m[i].new = Placed[n].lines[s]
  ELSE Deductions(m, n) = {}

FormLess == {s \in Sku : \A t \in Task : ~(t.op = "form" /\ t.sku = s)}

LEMMA MovementParts ==
  /\ StockIsItsMovements <=>
       \A s \in FormLess : /\ Chained(s, moves[s], stock[s])
                           /\ \A n \in OrderId : DeductedOnce(s, moves[s], n, status[n])
  /\ StockIsItsMovements' <=>
       \A s \in FormLess : /\ Chained(s, moves'[s], stock'[s])
                           /\ \A n \in OrderId : DeductedOnce(s, moves'[s], n, status'[n])
  BY DEF StockIsItsMovements, Chained, DeductedOnce, Deductions, FormLess

LEMMA ChainGrows ==
  ASSUME NEW s \in Sku, NEW m \in Seq(Movement), NEW e \in Movement,
         Chained(s, m, e.previous)
  PROVE  Chained(s, Append(m, e), e.new)
  <1> DEFINE g == Append(m, e)
  <1>1. /\ g # <<>> /\ Len(m) \in Nat /\ Len(g) = Len(m) + 1 /\ g[Len(m) + 1] = e
        /\ DOMAIN m = 1..Len(m) /\ DOMAIN g = 1..(Len(m) + 1)
        /\ \A i \in 1..Len(m) : g[i] = m[i]
        /\ m = <<>> <=> Len(m) = 0
    BY AppendFacts
  <1> HIDE DEF g
  <1>2. ASSUME NEW i \in DOMAIN g
        PROVE  g[i].previous = IF i = 1 THEN Stock0[s] ELSE g[i - 1].new
    <2>1. CASE i = Len(m) + 1
      <3>1. CASE i = 1
        BY <1>1, <2>1, <3>1 DEF Chained
      <3>2. CASE i # 1
        <4>1. Len(m) \in 1..Len(m) /\ g[i - 1] = m[Len(m)] /\ m # <<>>
          BY <1>1, <2>1, <3>2
        <4> QED
          BY <1>1, <2>1, <3>2, <4>1 DEF Chained
      <3> QED
        BY <3>1, <3>2
    <2>2. CASE i # Len(m) + 1
      <3>1. i \in 1..Len(m)
        BY <1>1, <2>2
      <3>2. i # 1 => i - 1 \in 1..Len(m)
        BY <1>1, <3>1
      <3> QED
        BY <1>1, <3>1, <3>2 DEF Chained
    <2> QED
      BY <2>1, <2>2
  <1>3. g[Len(g)].new = e.new
    BY <1>1
  <1> QED
    BY <1>1, <1>2, <1>3 DEF Chained, g

LEMMA DeductionsGrow ==
  ASSUME NEW m \in Seq(Movement), NEW e \in Movement, NEW n
  PROVE  /\ Deductions(Append(m, e), n) = IF e.order = n THEN Deductions(m, n) \cup {Len(m) + 1}
                                          ELSE Deductions(m, n)
         /\ Len(m) + 1 \in DOMAIN Append(m, e) /\ Append(m, e)[Len(m) + 1] = e
         /\ DOMAIN m \subseteq DOMAIN Append(m, e)
         /\ \A i \in DOMAIN m : Append(m, e)[i] = m[i]
  <1> DEFINE g == Append(m, e)
  <1>1. /\ Len(m) \in Nat /\ g[Len(m) + 1] = e
        /\ DOMAIN m = 1..Len(m) /\ DOMAIN g = 1..(Len(m) + 1)
        /\ \A i \in 1..Len(m) : g[i] = m[i]
    BY AppendFacts
  <1> HIDE DEF g
  <1>2. DOMAIN g = DOMAIN m \cup {Len(m) + 1} /\ Len(m) + 1 \notin DOMAIN m
    BY <1>1
  <1>3. Deductions(g, n) = IF e.order = n THEN Deductions(m, n) \cup {Len(m) + 1}
                           ELSE Deductions(m, n)
    BY <1>1, <1>2 DEF Deductions
  <1> QED
    BY <1>1, <1>2, <1>3 DEF g

(* A movement of an order n is its deduction when n becomes delivered, and *)
(* the deductions of the other orders stay.                                *)
LEMMA DeductionKept ==
  ASSUME NEW s \in Sku, NEW m \in Seq(Movement), NEW e \in Movement,
         NEW n, NEW st, e.order # n, DeductedOnce(s, m, n, st)
  PROVE  DeductedOnce(s, Append(m, e), n, st)
  <1>1. /\ Deductions(Append(m, e), n) = Deductions(m, n)
        /\ DOMAIN m \subseteq DOMAIN Append(m, e)
        /\ \A i \in DOMAIN m : Append(m, e)[i] = m[i]
    BY DeductionsGrow
  <1> QED
    BY <1>1 DEF DeductedOnce

LEMMA DeductionMade ==
  ASSUME NEW s \in Sku, NEW m \in Seq(Movement), NEW e \in Movement,
         NEW n, NEW st, e.order = n, st # "DELIVERED", DeductedOnce(s, m, n, st),
         s \in SkusOf(n), e.previous - e.new = Placed[n].lines[s]
  PROVE  DeductedOnce(s, Append(m, e), n, "DELIVERED")
  <1>1. /\ Deductions(Append(m, e), n) = Deductions(m, n) \cup {Len(m) + 1}
        /\ Len(m) + 1 \in DOMAIN Append(m, e) /\ Append(m, e)[Len(m) + 1] = e
    BY DeductionsGrow
  <1>2. Deductions(m, n) = {}
    BY DEF DeductedOnce
  <1> QED
    BY <1>1, <1>2 DEF DeductedOnce

-----------------------------------------------------------------------------
(* What each write does to the tables.                                     *)
LEMMA LineFacts ==
  ASSUME NEW n \in OrderId, NEW f \in [Sku -> Int]
  PROVE  /\ MinusLines(f, n) \in [Sku -> Int] /\ PlusLines(f, n) \in [Sku -> Int]
         /\ \A s \in Sku \ SkusOf(n) : MinusLines(f, n)[s] = f[s] /\ PlusLines(f, n)[s] = f[s]
         /\ \A s \in Sku : MinusLines(f, n)[s] = f[s] - Placed[n].lines[s]
  <1>1. \A s \in Sku : Placed[n].lines[s] \in Nat
    BY OrderFacts
  <1>2. \A s \in Sku \ SkusOf(n) : Placed[n].lines[s] = 0
    BY <1>1 DEF SkusOf
  <1> QED
    BY <1>1, <1>2 DEF MinusLines, PlusLines

LEMMA CreditType ==
  ASSUME NEW k, NEW points \in Int, balance \in [Account -> Int]
  PROVE  Credit(balance, k, points) \in [Account -> Int]
  BY DEF Credit

LEMMA AdvanceFacts ==
  ASSUME TypeOK, HistoryIsAFlow, NEW w \in Clerk, Good(w), WriteStatus(w)
  PROVE  LET n == task[w].order
             to == task[w].to
         IN  /\ n \in OrderId /\ OrderRow(n) \in held[w]
             /\ status[n] \in OrderStatus /\ to \in ORDER_NEXT_STATUS[status[n]]
             /\ to # "DELIVERED" /\ to # "CANCELLED"
             /\ status' = [status EXCEPT ![n] = to] /\ HistoryIsAFlow'
             /\ UNCHANGED <<payTables, stockTables, pointTables>>
             /\ TablesOK' /\ End(w)
  <1> DEFINE n == task[w].order
             to == task[w].to
  <1>1. /\ pc[w] = "write" /\ task[w].op = "status" /\ MoveOrder(w, to) /\ End(w)
        /\ to # "DELIVERED" /\ to # "CANCELLED"
        /\ UNCHANGED <<payTables, stockTables, pointTables>>
    BY DEF WriteStatus, Releases, Delivers, Target
  <1>2. /\ n \in OrderId /\ OrderRow(n) \in held[w] /\ seen[w].status = status[n]
        /\ status[n] \in OrderStatus /\ to \in ORDER_NEXT_STATUS[status[n]]
    BY <1>1, HolderFacts
  <1>3. /\ status' \in [OrderId -> OrderStatus \cup {NotPlaced}]
        /\ history' \in [OrderId -> Seq(Entry)] /\ HistoryIsAFlow'
    BY <1>1, <1>2, MoveFacts
  <1>4. TablesOK'
    BY <1>1, <1>3, TypeParts DEF TablesOK, payTables, stockTables, pointTables
  <1> QED
    BY <1>1, <1>2, <1>3, <1>4 DEF MoveOrder

LEMMA CancelFacts ==
  ASSUME TypeOK, HistoryIsAFlow, NEW w \in Clerk, Good(w), WriteCancel(w)
  PROVE  LET n == task[w].order
         IN  /\ n \in OrderId /\ OrderRow(n) \in held[w]
             /\ status[n] \in OrderStatus /\ "CANCELLED" \in ORDER_NEXT_STATUS[status[n]]
             /\ status' = [status EXCEPT ![n] = "CANCELLED"] /\ HistoryIsAFlow'
             /\ reserved' = MinusLines(reserved, n)
             /\ UNCHANGED <<payTables, stock, moves, pointTables>>
             /\ TablesOK' /\ End(w)
  <1> DEFINE n == task[w].order
  <1>1. /\ pc[w] = "write" /\ Releases(task[w]) /\ MoveOrder(w, "CANCELLED") /\ End(w)
        /\ reserved' = MinusLines(reserved, n)
        /\ UNCHANGED <<payTables, stock, moves, pointTables>>
    BY DEF WriteCancel
  <1>2. /\ n \in OrderId /\ OrderRow(n) \in held[w] /\ seen[w].status = status[n]
        /\ status[n] \in OrderStatus /\ "CANCELLED" \in ORDER_NEXT_STATUS[status[n]]
    BY <1>1, HolderFacts DEF Releases
  <1>3. /\ status' \in [OrderId -> OrderStatus \cup {NotPlaced}]
        /\ history' \in [OrderId -> Seq(Entry)] /\ HistoryIsAFlow'
    BY <1>1, <1>2, MoveFacts
  <1>4. reserved' \in [Sku -> Int]
    BY <1>1, <1>2, LineFacts DEF TypeOK
  <1>5. TablesOK'
    BY <1>1, <1>3, <1>4, TypeParts DEF TablesOK, payTables, pointTables
  <1> QED
    BY <1>1, <1>2, <1>3, <1>5 DEF MoveOrder

(* The movement a delivery notes for a row of stock.                       *)
Deduction(s, n) == [previous |-> stock[s], new |-> stock[s] - Placed[n].lines[s], order |-> n]

LEMMA DeliveryFacts ==
  ASSUME TypeOK, HistoryIsAFlow, CreditedOnce, NEW w \in Clerk, Good(w), WriteDelivery(w)
  PROVE  LET n == task[w].order
         IN  /\ n \in OrderId /\ OrderRow(n) \in held[w]
             /\ \A s \in SkusOf(n) : SkuRow(s) \in held[w]
             /\ status[n] \in OrderStatus /\ "DELIVERED" \in ORDER_NEXT_STATUS[status[n]]
             /\ status' = [status EXCEPT ![n] = "DELIVERED"] /\ HistoryIsAFlow'
             /\ stock' = MinusLines(stock, n) /\ reserved' = MinusLines(reserved, n)
             /\ \A s \in Sku : moves'[s] = IF s \in SkusOf(n)
                                           THEN Append(moves[s], Deduction(s, n)) ELSE moves[s]
             /\ balance' = Credit(balance, Placed[n].customer, Earned(n))
             /\ CreditedOnce'
             /\ UNCHANGED payTables
             /\ TablesOK' /\ End(w)
  <1> DEFINE n == task[w].order
  <1>1. /\ pc[w] = "write" /\ Delivers(task[w]) /\ MoveOrder(w, "DELIVERED") /\ End(w)
        /\ stock' = MinusLines(stock, n) /\ reserved' = MinusLines(reserved, n)
        /\ moves' = [s \in Sku |->
                       IF s \in SkusOf(n)
                       THEN Append(moves[s], [previous |-> read[w][s],
                                              new |-> read[w][s] - Placed[n].lines[s],
                                              order |-> n])
                       ELSE moves[s]]
        /\ balance' = Credit(balance, Placed[n].customer, Earned(n))
        /\ credits' = IF Earned(n) > 0 THEN [credits EXCEPT ![n] = @ + 1] ELSE credits
        /\ UNCHANGED payTables
    BY DEF WriteDelivery
  <1>2. /\ n \in OrderId /\ OrderRow(n) \in held[w] /\ seen[w].status = status[n]
        /\ status[n] \in OrderStatus /\ "DELIVERED" \in ORDER_NEXT_STATUS[status[n]]
        /\ \A s \in SkusOf(n) : SkuRow(s) \in held[w] /\ read[w][s] = stock[s]
    BY <1>1, HolderFacts DEF Delivers, MovesStock
  <1>3. /\ status' \in [OrderId -> OrderStatus \cup {NotPlaced}]
        /\ status'[n] = "DELIVERED" /\ \A m \in OrderId \ {n} : status'[m] = status[m]
        /\ history' \in [OrderId -> Seq(Entry)] /\ HistoryIsAFlow'
    BY <1>1, <1>2, MoveFacts
  <1>4. \A s \in Sku : moves'[s] = IF s \in SkusOf(n)
                                   THEN Append(moves[s], Deduction(s, n)) ELSE moves[s]
    BY <1>1, <1>2 DEF Deduction
  <1>5. moves' \in [Sku -> Seq(Movement)]
    <2>1. ASSUME NEW s \in Sku PROVE moves'[s] \in Seq(Movement)
      <3>1. Deduction(s, n) \in Movement
        <4>1. n \in OrderId /\ Placed[n].lines[s] \in Int
          BY <1>2, OrderFacts
        <4>2. stock[s] \in Int
          BY DEF TypeOK
        <4> QED
          BY <4>1, <4>2 DEF Deduction, Movement
      <3>2. moves[s] \in Seq(Movement)
        BY DEF TypeOK
      <3>3. Append(moves[s], Deduction(s, n)) \in Seq(Movement)
        BY <3>1, <3>2, AppendFacts
      <3> QED
        BY <1>4, <3>2, <3>3
    <2> QED
      BY <1>1, <2>1
  <1>6. /\ stock' \in [Sku -> Int] /\ reserved' \in [Sku -> Int]
        /\ balance' \in [Account -> Int]
    <2>1. stock \in [Sku -> Int] /\ reserved \in [Sku -> Int] /\ balance \in [Account -> Int]
      BY DEF TypeOK
    <2>2. n \in OrderId /\ Earned(n) \in Int
      BY <1>2, OrderFacts
    <2>3. MinusLines(stock, n) \in [Sku -> Int] /\ MinusLines(reserved, n) \in [Sku -> Int]
      BY <2>1, <2>2, LineFacts
    <2>4. Credit(balance, Placed[n].customer, Earned(n)) \in [Account -> Int]
      BY <2>1, <2>2, CreditType
    <2> QED
      BY <1>1, <2>3, <2>4
  <1>7. credits' \in [OrderId -> 0..1] /\ CreditedOnce'
    <2>1. status[n] # "DELIVERED"
      BY <1>2, FlowFacts
    <2>2. credits[n] = 0 /\ credits \in [OrderId -> 0..1]
      BY <1>2, <2>1 DEF CreditedOnce, TypeOK
    <2>3. credits' \in [OrderId -> 0..1]
          /\ credits'[n] = (IF Earned(n) > 0 THEN 1 ELSE 0)
          /\ \A m \in OrderId \ {n} : credits'[m] = credits[m]
      BY <1>1, <1>2, <2>2
    <2> QED
      BY <1>3, <2>3 DEF CreditedOnce
  <1>8. TablesOK'
    BY <1>1, <1>3, <1>5, <1>6, <1>7, TypeParts DEF TablesOK, payTables
  <1> QED
    BY <1>1, <1>2, <1>3, <1>4, <1>7, <1>8 DEF MoveOrder

LEMMA PaymentFacts ==
  ASSUME TypeOK, PaymentsAddUp, NEW w \in Clerk, Good(w), WritePayment(w)
  PROVE  LET n == task[w].order
             amount == task[w].amount
         IN  /\ n \in OrderId /\ OrderRow(n) \in held[w] /\ status[n] \in OrderStatus
             /\ amount \in Nat \ {0} /\ paid[n] + amount <= Placed[n].total
             /\ paid' = [paid EXCEPT ![n] = @ + amount] /\ PaymentsAddUp'
             /\ UNCHANGED <<orderTables, stockTables, pointTables>>
             /\ TablesOK' /\ End(w)
  <1> DEFINE n == task[w].order
             amount == task[w].amount
             sum == paid[n] + amount
  <1>1. /\ pc[w] = "write" /\ task[w].op = "pay" /\ End(w)
        /\ paid' = [paid EXCEPT ![n] = seen[w].paid + amount]
        /\ payStatus' = [payStatus EXCEPT ![n] = PaymentStatus(n, seen[w].paid + amount)]
        /\ received' = [received EXCEPT ![n] = @ + amount]
        /\ UNCHANGED <<orderTables, stockTables, pointTables>>
    BY DEF WritePayment
  <1>2. /\ n \in OrderId /\ OrderRow(n) \in held[w] /\ seen[w].paid = paid[n]
        /\ status[n] \in OrderStatus /\ sum <= Placed[n].total /\ task[w] \in Task
    BY <1>1, HolderFacts
  <1>3. amount \in Nat \ {0} /\ paid[n] \in Nat /\ received[n] \in Nat
    BY <1>1, <1>2, TaskFacts DEF TypeOK
  <1>4. sum \in Nat \ {0} /\ PaymentStatus(n, sum) \in {"PENDING", "PARTIAL", "PAID"}
    BY <1>3 DEF PaymentStatus
  <1>5. /\ paid' \in [OrderId -> Nat] /\ paid'[n] = sum
        /\ payStatus' \in [OrderId -> {"PENDING", "PARTIAL", "PAID"}]
        /\ payStatus'[n] = PaymentStatus(n, sum)
        /\ received' \in [OrderId -> Nat] /\ received'[n] = received[n] + amount
        /\ \A m \in OrderId \ {n} :
             paid'[m] = paid[m] /\ payStatus'[m] = payStatus[m] /\ received'[m] = received[m]
    BY <1>1, <1>2, <1>3, <1>4 DEF TypeOK
  <1>6. PaymentsAddUp'
    <2>1. paid[n] = received[n]
      BY <1>2 DEF PaymentsAddUp
    <2>2. ASSUME NEW m \in OrderId
          PROVE  /\ paid'[m] = received'[m] /\ paid'[m] <= Placed[m].total
                 /\ payStatus'[m] = IF paid'[m] = 0 THEN "PENDING" ELSE PaymentStatus(m, paid'[m])
      <3>1. CASE m = n
        BY <1>2, <1>4, <1>5, <2>1, <3>1
      <3>2. CASE m # n
        BY <1>5, <3>2 DEF PaymentsAddUp
      <3> QED
        BY <3>1, <3>2
    <2> QED
      BY <2>2 DEF PaymentsAddUp, PaymentStatus
  <1>7. TablesOK'
    BY <1>1, <1>5, TypeParts DEF TablesOK, orderTables, stockTables, pointTables
  <1> QED
    BY <1>1, <1>2, <1>3, <1>6, <1>7

LEMMA AdjustmentFacts ==
  ASSUME TypeOK, NEW w \in Clerk, Good(w), WriteAdjustment(w)
  PROVE  LET s == task[w].sku
             new == stock[s] + task[w].delta
             e == [previous |-> stock[s], new |-> new, order |-> NotPlaced]
         IN  /\ s \in Sku /\ SkuRow(s) \in held[w] /\ new \in Int /\ new >= 0
             /\ stock' = [stock EXCEPT ![s] = new]
             /\ e \in Movement /\ moves' = [moves EXCEPT ![s] = Append(@, e)]
             /\ UNCHANGED <<orderTables, payTables, reserved, pointTables>>
             /\ TablesOK' /\ End(w)
  <1> DEFINE s == task[w].sku
             new == stock[s] + task[w].delta
             e == [previous |-> stock[s], new |-> new, order |-> NotPlaced]
  <1>1. /\ pc[w] = "write" /\ task[w].op = "adjust" /\ End(w)
        /\ stock' = [stock EXCEPT ![s] = read[w][s] + task[w].delta]
        /\ moves' = [moves EXCEPT ![s] =
                       Append(@, [previous |-> read[w][s],
                                  new |-> read[w][s] + task[w].delta, order |-> NotPlaced])]
        /\ UNCHANGED <<orderTables, payTables, reserved, pointTables>>
    BY DEF WriteAdjustment
  <1>2. s \in Sku /\ task[w].delta \in Int
    BY <1>1, TaskFacts DEF Good, OnOrder
  <1>3. SkuRow(s) \in held[w] /\ new >= 0
    BY <1>1 DEF Good, Locking, LinesOf
  <1>4. read[w][s] = stock[s]
    BY <1>2, <1>3 DEF Good
  <1>5. new \in Int /\ e \in Movement
    BY <1>2 DEF TypeOK, Movement
  <1>6. moves[s] \in Seq(Movement)
    BY <1>2 DEF TypeOK
  <1>7. Append(moves[s], e) \in Seq(Movement)
    BY <1>5, <1>6, AppendFacts
  <1>8. stock' = [stock EXCEPT ![s] = new] /\ moves' = [moves EXCEPT ![s] = Append(@, e)]
    BY <1>1, <1>4
  <1>9. stock' \in [Sku -> Int] /\ moves' \in [Sku -> Seq(Movement)]
    BY <1>2, <1>5, <1>7, <1>8 DEF TypeOK
  <1>10. TablesOK'
    BY <1>1, <1>9, TypeParts DEF TablesOK, orderTables, payTables, pointTables
  <1> QED
    BY <1>1, <1>2, <1>3, <1>5, <1>8, <1>10

LEMMA SaveFacts ==
  ASSUME TypeOK, NEW w \in Clerk, Good(w), SaveForm(w)
  PROVE  LET s == task[w].sku
         IN  /\ s \in Sku \ FormLess /\ Free(SkuRow(s))
             /\ \/ UNCHANGED stock
                \/ \E new \in Nat : stock' = [stock EXCEPT ![s] = new]
             /\ UNCHANGED <<orderTables, payTables, reserved, moves, pointTables>>
             /\ TablesOK' /\ End(w)
  <1> DEFINE s == task[w].sku
  <1>1. /\ pc[w] = "save" /\ Free(SkuRow(s)) /\ End(w)
        /\ stock' = [stock EXCEPT ![s] = IF read[w][s] >= 0 THEN read[w][s] ELSE @]
        /\ UNCHANGED <<orderTables, payTables, reserved, moves, pointTables>>
    BY DEF SaveForm
  <1>2. task[w] \in Task /\ task[w].op = "form"
    BY <1>1 DEF Good
  <1>3. s \in Sku \ FormLess
    BY <1>2, TaskFacts DEF FormLess, OnOrder
  <1>4. stock \in [Sku -> Int] /\ read[w][s] \in Int
    BY <1>3 DEF TypeOK
  <1>5. \/ UNCHANGED stock
        \/ \E new \in Nat : stock' = [stock EXCEPT ![s] = new]
    <2>1. CASE read[w][s] >= 0
      <3>1. stock' = [stock EXCEPT ![s] = read[w][s]]
        BY <1>1, <2>1
      <3>2. read[w][s] \in Nat
        BY <1>4, <2>1
      <3> QED
        BY <3>1, <3>2
    <2>2. CASE ~(read[w][s] >= 0)
      BY <1>1, <1>3, <1>4, <2>2
    <2> QED
      BY <2>1, <2>2
  <1>6. stock' \in [Sku -> Int]
    BY <1>3, <1>4, <1>5
  <1>7. TablesOK'
    BY <1>1, <1>6, TypeParts DEF TablesOK, orderTables, payTables, pointTables
  <1> QED
    BY <1>1, <1>3, <1>5, <1>7

LEMMA PlaceFacts ==
  ASSUME TypeOK, HistoryIsAFlow, NEW n \in OrderId, PlaceOrder(n)
  PROVE  /\ status[n] = NotPlaced /\ status' = [status EXCEPT ![n] = "PENDING"]
         /\ HistoryIsAFlow' /\ TablesOK'
         /\ reserved' = PlusLines(reserved, n)
         /\ balance' = Credit(balance, Placed[n].customer, -Placed[n].points)
         /\ UNCHANGED <<payTables, stock, moves, credits, pc, local, held>>
  <1> DEFINE e == [from |-> NotPlaced, to |-> "PENDING"]
  <1>1. /\ status[n] = NotPlaced /\ status' = [status EXCEPT ![n] = "PENDING"]
        /\ history' = [history EXCEPT ![n] = <<e>>]
        /\ reserved' = PlusLines(reserved, n)
        /\ balance' = Credit(balance, Placed[n].customer, -Placed[n].points)
        /\ UNCHANGED <<payTables, stock, moves, credits, pc, local, held>>
    BY DEF PlaceOrder
  <1>2. e \in Entry /\ "PENDING" # NotPlaced
    BY FlowFacts DEF Entry
  <1>3. <<e>> \in Seq(Entry) /\ <<e>> # <<>> /\ Len(<<e>>) = 1 /\ <<e>>[1] = e
    BY <1>2
  <1>4. LeadsTo(<<e>>, "PENDING")
    BY <1>2, <1>3 DEF LeadsTo
  <1>5. /\ status' \in [OrderId -> OrderStatus \cup {NotPlaced}]
        /\ history' \in [OrderId -> Seq(Entry)]
        /\ \A m \in OrderId : LeadsTo(history'[m], status'[m])
    BY <1>1, <1>3, <1>4, FlowFacts, FlowParts DEF TypeOK
  <1>6. reserved' \in [Sku -> Int] /\ balance' \in [Account -> Int]
    BY <1>1, LineFacts, OrderFacts, CreditType DEF TypeOK
  <1>7. TablesOK'
    BY <1>1, <1>5, <1>6, TypeParts DEF TablesOK, payTables
  <1> QED
    BY <1>1, <1>5, <1>7, FlowParts

-----------------------------------------------------------------------------
(* A step of a clerk.                                                      *)
Step(w) == Begin(w) \/ Statement(w) \/ DeadlockAbort(w) \/ Abort(w)

LEMMA StepCases ==
  ASSUME NEW w \in Clerk, Step(w)
  PROVE  \/ End(w) /\ UNCHANGED tables
         \/ Begin(w)
         \/ LockOrder(w) /\ ~End(w)
         \/ LockSku(w) /\ ~End(w)
         \/ LockPoints(w)
         \/ OpenForm(w)
         \/ WriteStatus(w) \/ WriteCancel(w) \/ WriteDelivery(w)
         \/ WritePayment(w) \/ WriteAdjustment(w) \/ SaveForm(w)
  <1>1. LockOrder(w) => UNCHANGED tables
    BY DEF LockOrder
  <1>2. LockSku(w) => UNCHANGED tables
    BY DEF LockSku
  <1>3. DeadlockAbort(w) \/ Abort(w) => End(w) /\ UNCHANGED tables
    BY DEF DeadlockAbort, Abort
  <1> QED
    BY <1>1, <1>2, <1>3, Zenon DEF Step, Statement

(* All that the writes, together, may assume.                              *)
Books == TypeOK /\ HistoryIsAFlow /\ PaymentsAddUp /\ CreditedOnce

(* A step keeps the types, and the local state of the other clerks.        *)
LEMMA StepFacts ==
  ASSUME Books, NEW w \in Clerk, Good(w), Step(w)
  PROVE  /\ TypeOK'
         /\ \A v \in Clerk \ {w} :
              /\ pc'[v] = pc[v] /\ task'[v] = task[v] /\ seen'[v] = seen[v]
              /\ read'[v] = read[v] /\ todo'[v] = todo[v] /\ aim'[v] = aim[v]
              /\ held'[v] = held[v]
  <1>0. TypeOK /\ HistoryIsAFlow /\ PaymentsAddUp /\ CreditedOnce
    BY DEF Books
  <1>1. CASE End(w) /\ UNCHANGED tables
    BY <1>0, <1>1, EndFacts, LocalTypes
  <1>2. CASE Begin(w)
    BY <1>0, <1>2, BeginFacts, LocalTypes
  <1>3. CASE LockOrder(w) /\ ~End(w)
    BY <1>0, <1>3, LockOrderFacts, LocalTypes
  <1>4. CASE LockSku(w) /\ ~End(w)
    <2>1. /\ LocalOK' /\ UNCHANGED <<tables, task, seen>>
          /\ \A v \in Clerk \ {w} :
               /\ pc'[v] = pc[v] /\ read'[v] = read[v] /\ held'[v] = held[v]
               /\ todo'[v] = todo[v] /\ aim'[v] = aim[v]
      BY <1>0, <1>4, LockSkuFacts
    <2> QED
      BY <1>0, <2>1, LocalTypes
  <1>5. CASE LockPoints(w)
    BY <1>0, <1>5, LockPointsFacts, LocalTypes DEF local
  <1>6. CASE OpenForm(w)
    BY <1>0, <1>6, OpenFormFacts, LocalTypes
  <1>7. ASSUME End(w), TablesOK'
        PROVE  /\ TypeOK'
               /\ \A v \in Clerk \ {w} :
                    /\ pc'[v] = pc[v] /\ task'[v] = task[v] /\ seen'[v] = seen[v]
                    /\ read'[v] = read[v] /\ todo'[v] = todo[v] /\ aim'[v] = aim[v]
                    /\ held'[v] = held[v]
    BY <1>0, <1>7, EndFacts, TypeParts
  <1>8. CASE WriteStatus(w) \/ WriteCancel(w) \/ WriteDelivery(w) \/ WritePayment(w)
             \/ WriteAdjustment(w) \/ SaveForm(w)
    <2>1. End(w) /\ TablesOK'
      BY <1>0, <1>8, AdvanceFacts, CancelFacts, DeliveryFacts, PaymentFacts, AdjustmentFacts,
         SaveFacts
    <2> QED
      BY <1>7, <2>1
  <1> QED
    BY <1>1, <1>2, <1>3, <1>4, <1>5, <1>6, <1>8, StepCases

(* It writes to an order only if it holds it, and to a row of stock only   *)
(* if it holds it or nobody does.                                          *)
LEMMA WritesWhatItHolds ==
  ASSUME Books, NEW w \in Clerk, Good(w), Step(w)
  PROVE  /\ \A n \in OrderId : OrderRow(n) \notin held[w] =>
              status'[n] = status[n] /\ paid'[n] = paid[n]
         /\ \A s \in Sku : SkuRow(s) \notin held[w] /\ ~Free(SkuRow(s)) =>
              stock'[s] = stock[s]
  <1>0. TypeOK /\ HistoryIsAFlow /\ PaymentsAddUp /\ CreditedOnce
    BY DEF Books
  <1>1. CASE UNCHANGED tables
    BY <1>1 DEF tables, orderTables, payTables, stockTables
  <1>2. CASE Begin(w) \/ (LockOrder(w) /\ ~End(w)) \/ (LockSku(w) /\ ~End(w))
             \/ LockPoints(w) \/ OpenForm(w)
    <2>1. UNCHANGED tables
      BY <1>2 DEF Begin, LockOrder, LockSku, LockPoints, OpenForm
    <2> QED
      BY <1>1, <2>1
  <1>3. CASE WriteStatus(w)
    <2>1. /\ OrderRow(task[w].order) \in held[w]
          /\ status' = [status EXCEPT ![task[w].order] = task[w].to]
          /\ UNCHANGED <<paid, stock>>
      BY <1>0, <1>3, AdvanceFacts DEF payTables, stockTables
    <2> QED
      BY <1>0, <2>1 DEF TypeOK
  <1>4. CASE WriteCancel(w)
    <2>1. /\ OrderRow(task[w].order) \in held[w]
          /\ status' = [status EXCEPT ![task[w].order] = "CANCELLED"]
          /\ UNCHANGED <<paid, stock>>
      BY <1>0, <1>4, CancelFacts DEF payTables
    <2> QED
      BY <1>0, <2>1 DEF TypeOK
  <1>5. CASE WriteDelivery(w)
    <2> DEFINE n == task[w].order
    <2>1. /\ n \in OrderId /\ OrderRow(n) \in held[w]
          /\ \A s \in SkusOf(n) : SkuRow(s) \in held[w]
          /\ status' = [status EXCEPT ![n] = "DELIVERED"]
          /\ stock' = MinusLines(stock, n) /\ UNCHANGED paid
      BY <1>0, <1>5, DeliveryFacts DEF payTables
    <2>2. \A s \in Sku \ SkusOf(n) : stock'[s] = stock[s]
      <3>1. stock \in [Sku -> Int]
        BY <1>0 DEF TypeOK
      <3>2. \A s \in Sku \ SkusOf(n) : MinusLines(stock, n)[s] = stock[s]
        BY <2>1, <3>1, LineFacts
      <3> QED
        BY <2>1, <3>2
    <2> QED
      BY <1>0, <2>1, <2>2 DEF TypeOK
  <1>6. CASE WritePayment(w)
    <2>1. /\ OrderRow(task[w].order) \in held[w]
          /\ paid' = [paid EXCEPT ![task[w].order] = @ + task[w].amount]
          /\ UNCHANGED <<status, stock>>
      BY <1>0, <1>6, PaymentFacts DEF orderTables, stockTables
    <2> QED
      BY <1>0, <2>1 DEF TypeOK
  <1>7. CASE WriteAdjustment(w)
    <2>1. /\ SkuRow(task[w].sku) \in held[w] /\ UNCHANGED <<status, paid>>
          /\ stock' = [stock EXCEPT ![task[w].sku] = stock[task[w].sku] + task[w].delta]
      BY <1>0, <1>7, AdjustmentFacts DEF orderTables, payTables
    <2> QED
      BY <1>0, <2>1 DEF TypeOK
  <1>8. CASE SaveForm(w)
    <2>1. /\ Free(SkuRow(task[w].sku)) /\ UNCHANGED <<status, paid>>
          /\ UNCHANGED stock \/ \E new : stock' = [stock EXCEPT ![task[w].sku] = new]
      BY <1>0, <1>8, SaveFacts DEF orderTables, payTables
    <2> QED
      BY <1>0, <2>1 DEF TypeOK
  <1> QED
    BY <1>1, <1>2, <1>3, <1>4, <1>5, <1>6, <1>7, <1>8, StepCases

LEMMA ExclusiveStep ==
  ASSUME Books, Exclusive, NEW w \in Clerk, Good(w), Step(w)
  PROVE  Exclusive'
  <1>0. TypeOK /\ HistoryIsAFlow /\ PaymentsAddUp /\ CreditedOnce
    BY DEF Books
  <1>1. \/ held'[w] = {} \/ held'[w] = held[w]
        \/ \E row : Free(row) /\ held'[w] = held[w] \cup {row}
    <2>1. CASE End(w)
      BY <1>0, <2>1, EndFacts
    <2>2. CASE Begin(w) \/ OpenForm(w)
      BY <2>2 DEF Begin, OpenForm
    <2>3. CASE LockOrder(w) /\ ~End(w)
      BY <1>0, <2>3, LockOrderFacts DEF OrderFree
    <2>4. CASE LockSku(w) /\ ~End(w)
      BY <1>0, <2>4, LockSkuFacts DEF SkuFree
    <2>5. CASE LockPoints(w)
      BY <1>0, <2>5, LockPointsFacts
    <2>6. CASE WriteStatus(w) \/ WriteCancel(w) \/ WriteDelivery(w) \/ WritePayment(w)
               \/ WriteAdjustment(w) \/ SaveForm(w)
      <3>1. End(w)
        BY <2>6 DEF WriteStatus, WriteCancel, WriteDelivery, WritePayment, WriteAdjustment,
                    SaveForm
      <3> QED
        BY <2>1, <3>1
    <2> QED
      BY <2>1, <2>2, <2>3, <2>4, <2>5, <2>6, StepCases
  <1>2. \A v \in Clerk \ {w} : held'[v] = held[v]
    BY StepFacts
  <1> QED
    BY <1>1, <1>2 DEF Exclusive, Free

-----------------------------------------------------------------------------
(* One step of a clerk keeps what its own locks let it rely on.            *)
LEMMA SameRefusal ==
  ASSUME NEW t, status'[t.order] = status[t.order], paid'[t.order] = paid[t.order]
  PROVE  Refused(t) <=> Refused(t)'
  BY DEF Refused, TransitionRefused, Overpays

LEMMA EndGood ==
  ASSUME TypeOK, NEW w \in Clerk, End(w)
  PROVE  Good(w)'
  <1>1. pc'[w] = "idle" /\ held'[w] = {} /\ todo'[w] = {}
    BY EndFacts
  <1> QED
    BY <1>1 DEF Good, Locking

LEMMA BeginGood ==
  ASSUME TypeOK, NEW w \in Clerk, Good(w), Begin(w)
  PROVE  Good(w)'
  <1>1. /\ pc[w] = "idle" /\ task'[w] \in Task /\ UNCHANGED held
        /\ \/ OnOrder(task'[w]) /\ pc'[w] = "lockOrder"
           \/ task'[w].op = "form" /\ pc'[w] = "open"
           \/ /\ task'[w].op = "adjust" /\ pc'[w] = "lockSku"
              /\ todo'[w] = {task'[w].sku} /\ aim'[w] = task'[w].sku
    BY BeginFacts
  <1>2. held'[w] = {} /\ todo[w] = {}
    BY <1>1 DEF Good, Locking
  <1>3. CASE OnOrder(task'[w]) /\ pc'[w] = "lockOrder"
    <2>1. UNCHANGED todo
      BY <1>3 DEF Begin, OnOrder, TypeOK
    <2> QED
      BY <1>1, <1>2, <1>3, <2>1 DEF Good, Locking
  <1>4. CASE task'[w].op = "form" /\ pc'[w] = "open"
    BY <1>1, <1>2, <1>4 DEF Good, Locking
  <1>5. CASE /\ task'[w].op = "adjust" /\ pc'[w] = "lockSku"
             /\ todo'[w] = {task'[w].sku} /\ aim'[w] = task'[w].sku
    BY <1>1, <1>2, <1>5 DEF Good, Locking, LinesOf
  <1> QED
    BY <1>1, <1>3, <1>4, <1>5

LEMMA LockOrderGood ==
  ASSUME TypeOK, NEW w \in Clerk, Good(w), LockOrder(w), ~End(w)
  PROVE  Good(w)'
  <1> DEFINE t == task[w]
             n == t.order
  <1>1. /\ UNCHANGED <<tables, task, read>>
        /\ pc[w] = "lockOrder" /\ OnOrder(t) /\ ~Refused(t)
        /\ held'[w] = {OrderRow(n)}
        /\ seen'[w] = [status |-> status[n], paid |-> paid[n]]
        /\ IF MovesStock(t)
           THEN pc'[w] = "lockSku" /\ todo'[w] = SkusOf(n) /\ aim'[w] \in todo'[w]
           ELSE pc'[w] = "write" /\ todo'[w] = todo[w]
    BY LockOrderFacts
  <1>2. t \in Task /\ todo[w] = {}
    BY <1>1 DEF Good
  <1>3. UNCHANGED <<status, paid, stock>> /\ task'[w] = t
    BY <1>1 DEF tables, orderTables, payTables, stockTables
  <1>4. ~Refused(t)'
    BY <1>1, <1>3, SameRefusal
  <1>5. \A s \in Sku : SkuRow(s) \notin held'[w]
    BY <1>1, RowFacts
  <1>6. t.op # "adjust" /\ t.op # "form"
    BY <1>1 DEF OnOrder
  <1>7. LinesOf(t) = IF MovesStock(t) THEN SkusOf(n) ELSE {}
    BY <1>6 DEF LinesOf
  <1>8. CASE MovesStock(t)
    BY <1>1, <1>2, <1>3, <1>4, <1>5, <1>6, <1>7, <1>8 DEF Good, Locking
  <1>9. CASE ~MovesStock(t)
    BY <1>1, <1>2, <1>3, <1>4, <1>5, <1>6, <1>7, <1>9 DEF Good, Locking
  <1> QED
    BY <1>8, <1>9

LEMMA LockSkuGood ==
  ASSUME TypeOK, NEW w \in Clerk, Good(w), LockSku(w), ~End(w)
  PROVE  Good(w)'
  <1> DEFINE t == task[w]
             n == t.order
             s == aim[w]
  <1>1. /\ UNCHANGED <<tables, task, seen>>
        /\ pc[w] = "lockSku" /\ s \in Sku /\ s \in todo[w]
        /\ t.op = "adjust" => stock[s] + t.delta >= 0
        /\ held'[w] = held[w] \cup {SkuRow(s)}
        /\ read'[w] = [read[w] EXCEPT ![s] = stock[s]]
        /\ todo'[w] = todo[w] \ {s}
        /\ IF todo'[w] = {} THEN pc'[w] = AfterLines(t)
           ELSE pc'[w] = "lockSku" /\ aim'[w] \in todo'[w]
    BY LockSkuFacts
  <1>2. /\ t \in Task /\ todo[w] \subseteq LinesOf(t)
        /\ \/ t.op = "adjust"
           \/ /\ OnOrder(t) /\ OrderRow(n) \in held[w] /\ ~Refused(t)
              /\ seen[w] = [status |-> status[n], paid |-> paid[n]]
        /\ \A q \in LinesOf(t) : q \in todo[w] \/ SkuRow(q) \in held[w]
        /\ \A q \in Sku : SkuRow(q) \in held[w] => read[w][q] = stock[q]
    BY <1>1 DEF Good, Locking
  <1>3. UNCHANGED <<status, paid, stock>> /\ task'[w] = t /\ seen'[w] = seen[w]
    BY <1>1 DEF tables, orderTables, payTables, stockTables
  <1>4. Refused(t) <=> Refused(t)'
    BY <1>3, SameRefusal
  <1>5. \A q \in Sku : SkuRow(q) \in held'[w] => read'[w][q] = stock[q]
    <2>1. \A q \in Sku : read'[w][q] = IF q = s THEN stock[s] ELSE read[w][q]
      BY <1>1 DEF TypeOK
    <2> QED
      BY <1>1, <1>2, <2>1, RowFacts
  <1>6. \A q \in LinesOf(t) : q \in todo'[w] \/ SkuRow(q) \in held'[w]
    BY <1>1, <1>2
  <1>7. t.op = "adjust" => t.sku = s
    BY <1>1, <1>2 DEF LinesOf
  <1>8. /\ pc'[w] \in Locking
        /\ pc'[w] # "lockSku" => todo'[w] = {}
        /\ pc'[w] = "lockSku" => aim'[w] \in todo'[w] /\ todo'[w] \subseteq LinesOf(t)
        /\ pc'[w] = "lockPoints" => Delivers(t) /\ Earned(n) > 0
    BY <1>1, <1>2 DEF AfterLines, Locking
  <1> QED
    BY <1>1, <1>2, <1>3, <1>4, <1>5, <1>6, <1>7, <1>8 DEF Good, Locking

LEMMA LockPointsGood ==
  ASSUME TypeOK, NEW w \in Clerk, Good(w), LockPoints(w)
  PROVE  Good(w)'
  <1> DEFINE t == task[w]
             n == t.order
  <1>1. /\ UNCHANGED <<tables, local>> /\ pc[w] = "lockPoints" /\ pc'[w] = "write"
    BY LockPointsFacts
  <1>2. PICK k \in Account : held'[w] = held[w] \cup {PointsRow(k)}
    BY LockPointsFacts
  <1>3. UNCHANGED <<status, paid, stock, task, seen, read, todo>>
    BY <1>1 DEF tables, orderTables, payTables, stockTables, local
  <1>4. t.op # "adjust"
    BY <1>1 DEF Good, Delivers
  <1>5. Refused(t) <=> Refused(t)'
    BY <1>3, SameRefusal
  <1>6. \A q \in Sku : SkuRow(q) \in held'[w] => SkuRow(q) \in held[w]
    BY <1>2, RowFacts
  <1> QED
    BY <1>1, <1>2, <1>3, <1>4, <1>5, <1>6 DEF Good, Locking

LEMMA OpenFormGood ==
  ASSUME TypeOK, NEW w \in Clerk, Good(w), OpenForm(w)
  PROVE  Good(w)'
  <1>1. /\ UNCHANGED <<tables, task, seen, todo, aim, held>>
        /\ pc[w] = "open" /\ pc'[w] = "save"
    BY OpenFormFacts
  <1>2. held'[w] = {} /\ task'[w] \in Task /\ task'[w].op = "form"
    BY <1>1 DEF Good, Locking
  <1> QED
    BY <1>1, <1>2 DEF Good, Locking

LEMMA SelfGood ==
  ASSUME TypeOK, NEW w \in Clerk, Good(w), Step(w)
  PROVE  Good(w)'
  <1>1. CASE End(w)
    BY <1>1, EndGood
  <1>2. WriteStatus(w) \/ WriteCancel(w) \/ WriteDelivery(w) \/ WritePayment(w)
        \/ WriteAdjustment(w) \/ SaveForm(w) => End(w)
    BY DEF WriteStatus, WriteCancel, WriteDelivery, WritePayment, WriteAdjustment, SaveForm
  <1> QED
    BY <1>1, <1>2, StepCases, BeginGood, LockOrderGood, LockSkuGood, LockPointsGood,
       OpenFormGood

(* The others keep what theirs let them rely on, because nobody writes to  *)
(* a row that they hold.                                                   *)
LEMMA OthersGood ==
  ASSUME Books, Exclusive, NEW w \in Clerk, Good(w), Step(w),
         NEW v \in Clerk, v # w, Good(v)
  PROVE  Good(v)'
  <1> DEFINE t == task[v]
             n == t.order
  <1>1. /\ pc'[v] = pc[v] /\ task'[v] = task[v] /\ seen'[v] = seen[v]
        /\ read'[v] = read[v] /\ todo'[v] = todo[v] /\ aim'[v] = aim[v]
        /\ held'[v] = held[v]
    BY StepFacts
  <1>2. \A row \in held[v] : row \notin held[w] /\ ~Free(row)
    BY DEF Exclusive, Free
  <1>3. ASSUME pc[v] \in Locking, t.op # "adjust"
        PROVE  /\ OnOrder(t) /\ OrderRow(n) \in held[v] /\ ~Refused(t)'
               /\ seen[v] = [status |-> status'[n], paid |-> paid'[n]]
    <2>1. /\ OnOrder(t) /\ OrderRow(n) \in held[v] /\ ~Refused(t) /\ t \in Task
          /\ seen[v] = [status |-> status[n], paid |-> paid[n]]
      BY <1>3 DEF Good, Locking
    <2>2. n \in OrderId
      BY <2>1, TaskFacts
    <2>3. status'[n] = status[n] /\ paid'[n] = paid[n]
      BY <1>2, <2>1, <2>2, WritesWhatItHolds
    <2> QED
      BY <1>1, <2>1, <2>3, SameRefusal
  <1>4. \A s \in Sku : SkuRow(s) \in held[v] => stock'[s] = stock[s]
    BY <1>2, WritesWhatItHolds
  <1>5. pc[v] = "write" /\ t.op = "adjust" => stock'[t.sku] + t.delta >= 0
    <2> HAVE pc[v] = "write" /\ t.op = "adjust"
    <2>1. /\ t \in Task /\ t.sku \in LinesOf(t) /\ todo[v] = {}
          /\ stock[t.sku] + t.delta >= 0
      BY DEF Good, Locking, LinesOf
    <2>2. t.sku \in Sku /\ SkuRow(t.sku) \in held[v]
      BY <2>1, TaskFacts DEF Good, Locking, OnOrder
    <2> QED
      BY <1>4, <2>1, <2>2
  <1> QED
    BY <1>1, <1>3, <1>4, <1>5 DEF Good, Locking

-----------------------------------------------------------------------------
(* The books, step by step.                                                *)
LEMMA SameBooks ==
  ASSUME UNCHANGED tables
  PROVE  /\ HistoryIsAFlow => HistoryIsAFlow'
         /\ PaymentsAddUp => PaymentsAddUp'
         /\ CreditedOnce => CreditedOnce'
         /\ StockIsItsMovements => StockIsItsMovements'
  <1>1. UNCHANGED <<status, history, paid, payStatus, received, stock, moves, credits>>
    BY DEF tables, orderTables, payTables, stockTables, pointTables
  <1> QED
    BY <1>1 DEF HistoryIsAFlow, PaymentsAddUp, CreditedOnce, StockIsItsMovements

(* Only a delivery makes an order delivered, and credits it.               *)
LEMMA CreditKept ==
  ASSUME TypeOK, CreditedOnce, UNCHANGED credits, NEW n \in OrderId, NEW to,
         status[n] # "DELIVERED", to # "DELIVERED", status' = [status EXCEPT ![n] = to]
  PROVE  CreditedOnce'
  <1>1. status'[n] = to /\ \A m \in OrderId \ {n} : status'[m] = status[m]
    BY DEF TypeOK
  <1> QED
    BY <1>1 DEF CreditedOnce

LEMMA StockKept ==
  ASSUME TypeOK, StockIsItsMovements, UNCHANGED <<stock, moves>>, NEW n \in OrderId, NEW to,
         status[n] # "DELIVERED", to # "DELIVERED", status' = [status EXCEPT ![n] = to]
  PROVE  StockIsItsMovements'
  <1>1. status'[n] = to /\ \A m \in OrderId \ {n} : status'[m] = status[m]
    BY DEF TypeOK
  <1>2. ASSUME NEW s \in FormLess, NEW m \in OrderId
        PROVE  DeductedOnce(s, moves[s], m, status'[m])
    <2>1. DeductedOnce(s, moves[s], m, status[m])
      BY <1>2, MovementParts
    <2>2. CASE m = n
      BY <1>1, <2>1, <2>2 DEF DeductedOnce
    <2>3. CASE m # n
      BY <1>1, <2>1, <2>3
    <2> QED
      BY <2>2, <2>3
  <1> QED
    BY <1>2, MovementParts

LEMMA DeliveryStock ==
  ASSUME TypeOK, HistoryIsAFlow, CreditedOnce, StockIsItsMovements,
         NEW w \in Clerk, Good(w), WriteDelivery(w)
  PROVE  StockIsItsMovements'
  <1> DEFINE n == task[w].order
  <1>1. /\ n \in OrderId /\ status[n] # "DELIVERED"
        /\ status' = [status EXCEPT ![n] = "DELIVERED"]
        /\ stock' = MinusLines(stock, n)
        /\ \A s \in Sku : moves'[s] = IF s \in SkusOf(n)
                                      THEN Append(moves[s], Deduction(s, n)) ELSE moves[s]
    BY DeliveryFacts, FlowFacts
  <1>2. status'[n] = "DELIVERED" /\ \A m \in OrderId \ {n} : status'[m] = status[m]
    BY <1>1 DEF TypeOK
  <1> SUFFICES ASSUME NEW s \in FormLess
               PROVE  /\ Chained(s, moves'[s], stock'[s])
                      /\ \A m \in OrderId : DeductedOnce(s, moves'[s], m, status'[m])
    BY MovementParts
  <1>3. s \in Sku /\ moves[s] \in Seq(Movement) /\ stock \in [Sku -> Int]
    BY DEF FormLess, TypeOK
  <1>4. /\ Chained(s, moves[s], stock[s])
        /\ \A m \in OrderId : DeductedOnce(s, moves[s], m, status[m])
    BY MovementParts
  <1>5. CASE s \notin SkusOf(n)
    <2>1. moves'[s] = moves[s] /\ stock'[s] = stock[s]
      BY <1>1, <1>3, <1>5, LineFacts
    <2>2. DeductedOnce(s, moves[s], n, "DELIVERED")
      BY <1>1, <1>4, <1>5 DEF DeductedOnce
    <2>3. ASSUME NEW m \in OrderId PROVE DeductedOnce(s, moves[s], m, status'[m])
      BY <1>2, <1>4, <2>2
    <2> QED
      BY <1>4, <2>1, <2>3
  <1>6. CASE s \in SkusOf(n)
    <2> DEFINE e == Deduction(s, n)
    <2>1. moves'[s] = Append(moves[s], e) /\ stock'[s] = stock[s] - Placed[n].lines[s]
      BY <1>1, <1>3, <1>6, LineFacts
    <2>2. /\ e \in Movement /\ e.previous = stock[s] /\ e.new = stock'[s] /\ e.order = n
          /\ e.previous - e.new = Placed[n].lines[s]
      <3>1. stock[s] \in Int /\ Placed[n].lines[s] \in Int
        BY <1>1, <1>3, OrderFacts
      <3> QED
        BY <1>1, <2>1, <3>1 DEF Deduction, Movement
    <2> HIDE DEF e
    <2>3. Chained(s, moves'[s], stock'[s])
      BY <1>3, <1>4, <2>1, <2>2, ChainGrows
    <2>4. DeductedOnce(s, moves'[s], n, "DELIVERED")
      BY <1>1, <1>3, <1>4, <1>6, <2>1, <2>2, DeductionMade
    <2>5. ASSUME NEW m \in OrderId \ {n} PROVE DeductedOnce(s, moves'[s], m, status[m])
      BY <1>3, <1>4, <2>1, <2>2, <2>5, DeductionKept
    <2> QED
      BY <1>2, <2>3, <2>4, <2>5
  <1> QED
    BY <1>5, <1>6

LEMMA AdjustmentStock ==
  ASSUME TypeOK, StockIsItsMovements, NEW w \in Clerk, Good(w), WriteAdjustment(w)
  PROVE  StockIsItsMovements'
  <1> DEFINE q == task[w].sku
             new == stock[q] + task[w].delta
             e == [previous |-> stock[q], new |-> new, order |-> NotPlaced]
  <1>1. /\ q \in Sku /\ stock' = [stock EXCEPT ![q] = new]
        /\ e \in Movement /\ moves' = [moves EXCEPT ![q] = Append(@, e)]
        /\ UNCHANGED status
    BY AdjustmentFacts DEF orderTables
  <1>2. /\ stock'[q] = new /\ moves'[q] = Append(moves[q], e)
        /\ \A s \in Sku \ {q} : stock'[s] = stock[s] /\ moves'[s] = moves[s]
    BY <1>1 DEF TypeOK
  <1> SUFFICES ASSUME NEW s \in FormLess
               PROVE  /\ Chained(s, moves'[s], stock'[s])
                      /\ \A m \in OrderId : DeductedOnce(s, moves'[s], m, status'[m])
    BY MovementParts
  <1>3. s \in Sku /\ moves[s] \in Seq(Movement)
    BY DEF FormLess, TypeOK
  <1>4. /\ Chained(s, moves[s], stock[s])
        /\ \A m \in OrderId : DeductedOnce(s, moves[s], m, status[m])
    BY MovementParts
  <1>5. CASE s # q
    BY <1>1, <1>2, <1>3, <1>4, <1>5
  <1>6. CASE s = q
    <2>1. e.previous = stock[s] /\ e.new = new /\ e.order = NotPlaced
      BY <1>6
    <2> HIDE DEF e
    <2>2. Chained(s, moves'[s], stock'[s])
      <3>1. Chained(s, moves[s], e.previous)
        BY <1>4, <2>1
      <3>2. Chained(s, Append(moves[s], e), e.new)
        BY <1>1, <1>3, <3>1, ChainGrows
      <3> QED
        BY <1>2, <1>6, <2>1, <3>2
    <2>3. ASSUME NEW m \in OrderId PROVE DeductedOnce(s, moves'[s], m, status'[m])
      <3>1. e.order # m
        BY <2>1, DeskAssumption
      <3>2. DeductedOnce(s, Append(moves[s], e), m, status[m])
        BY <1>1, <1>3, <1>4, <3>1, DeductionKept
      <3> QED
        BY <1>1, <1>2, <1>6, <3>2
    <2> QED
      BY <2>2, <2>3
  <1> QED
    BY <1>5, <1>6

LEMMA SaveStock ==
  ASSUME TypeOK, StockIsItsMovements, NEW w \in Clerk, Good(w), SaveForm(w)
  PROVE  StockIsItsMovements'
  <1> DEFINE q == task[w].sku
  <1>1. /\ q \notin FormLess /\ UNCHANGED <<status, moves>>
        /\ UNCHANGED stock \/ \E new \in Nat : stock' = [stock EXCEPT ![q] = new]
    BY SaveFacts DEF orderTables
  <1>2. \A s \in FormLess : stock'[s] = stock[s]
    BY <1>1 DEF FormLess, TypeOK
  <1> QED
    BY <1>1, <1>2, MovementParts

LEMMA BooksStep ==
  ASSUME Books, StockIsItsMovements, NEW w \in Clerk, Good(w), Step(w)
  PROVE  Books' /\ StockIsItsMovements'
  <1>0. TypeOK /\ HistoryIsAFlow /\ PaymentsAddUp /\ CreditedOnce
    BY DEF Books
  <1>1. TypeOK'
    BY StepFacts
  <1>2. CASE UNCHANGED tables
    BY <1>0, <1>1, <1>2, SameBooks DEF Books
  <1>3. CASE Begin(w) \/ (LockOrder(w) /\ ~End(w)) \/ (LockSku(w) /\ ~End(w))
             \/ LockPoints(w) \/ OpenForm(w)
    <2>1. UNCHANGED tables
      BY <1>3 DEF Begin, LockOrder, LockSku, LockPoints, OpenForm
    <2> QED
      BY <1>2, <2>1
  <1>4. CASE WriteStatus(w)
    <2> DEFINE n == task[w].order
               to == task[w].to
    <2>1. /\ n \in OrderId /\ status[n] # "DELIVERED" /\ to # "DELIVERED"
          /\ status' = [status EXCEPT ![n] = to] /\ HistoryIsAFlow'
          /\ UNCHANGED <<paid, payStatus, received, stock, moves, credits>>
      BY <1>0, <1>4, AdvanceFacts, FlowFacts DEF payTables, stockTables, pointTables
    <2>2. PaymentsAddUp'
      BY <1>0, <2>1 DEF PaymentsAddUp
    <2> QED
      BY <1>0, <1>1, <2>1, <2>2, CreditKept, StockKept DEF Books
  <1>5. CASE WriteCancel(w)
    <2> DEFINE n == task[w].order
    <2>1. /\ n \in OrderId /\ status[n] # "DELIVERED"
          /\ status' = [status EXCEPT ![n] = "CANCELLED"] /\ HistoryIsAFlow'
          /\ UNCHANGED <<paid, payStatus, received, stock, moves, credits>>
      BY <1>0, <1>5, CancelFacts, FlowFacts DEF payTables, pointTables
    <2>2. PaymentsAddUp'
      BY <1>0, <2>1 DEF PaymentsAddUp
    <2>3. "CANCELLED" # "DELIVERED"
      OBVIOUS
    <2> QED
      BY <1>0, <1>1, <2>1, <2>2, <2>3, CreditKept, StockKept DEF Books
  <1>6. CASE WriteDelivery(w)
    <2>1. HistoryIsAFlow' /\ CreditedOnce' /\ UNCHANGED <<paid, payStatus, received>>
      BY <1>0, <1>6, DeliveryFacts DEF payTables
    <2>2. PaymentsAddUp'
      BY <1>0, <2>1 DEF PaymentsAddUp
    <2> QED
      BY <1>0, <1>1, <1>6, <2>1, <2>2, DeliveryStock DEF Books
  <1>7. CASE WritePayment(w)
    <2>1. PaymentsAddUp' /\ UNCHANGED <<status, history, stock, moves, credits>>
      BY <1>0, <1>7, PaymentFacts DEF orderTables, stockTables, pointTables
    <2>2. HistoryIsAFlow' /\ CreditedOnce' /\ StockIsItsMovements'
      BY <1>0, <2>1 DEF HistoryIsAFlow, CreditedOnce, StockIsItsMovements
    <2> QED
      BY <1>1, <2>1, <2>2 DEF Books
  <1>8. CASE WriteAdjustment(w) \/ SaveForm(w)
    <2>1. UNCHANGED <<status, history, paid, payStatus, received, credits>>
      BY <1>8 DEF WriteAdjustment, SaveForm, orderTables, payTables, pointTables
    <2>2. HistoryIsAFlow' /\ CreditedOnce' /\ PaymentsAddUp'
      BY <1>0, <2>1 DEF HistoryIsAFlow, CreditedOnce, PaymentsAddUp
    <2> QED
      BY <1>0, <1>1, <1>8, <2>2, AdjustmentStock, SaveStock DEF Books
  <1> QED
    BY <1>2, <1>3, <1>4, <1>5, <1>6, <1>7, <1>8, StepCases

(* Where an order that moves goes in and out of the ledgers.               *)
LEMMA OrdersMove ==
  ASSUME TypeOK, NEW n \in OrderId, NEW to, status' = [status EXCEPT ![n] = to]
  PROVE  OrdersIn(InHand)' = IF to \in InHand THEN OrdersIn(InHand) \cup {n}
                             ELSE OrdersIn(InHand) \ {n}
  <1>1. \A m \in OrderId : status'[m] = IF m = n THEN to ELSE status[m]
    BY DEF TypeOK
  <1> QED
    BY <1>1 DEF OrdersIn

(* The same for the orders of one account.                                 *)
LEMMA AccountOrdersMove ==
  ASSUME TypeOK, NEW n \in OrderId, NEW to, status' = [status EXCEPT ![n] = to], NEW k
  PROVE  /\ k # Placed[n].customer => /\ OrdersOf(k, OrderStatus)' = OrdersOf(k, OrderStatus)
                                      /\ OrdersOf(k, {"DELIVERED"})' = OrdersOf(k, {"DELIVERED"})
         /\ k = Placed[n].customer /\ to \in OrderStatus =>
              OrdersOf(k, OrderStatus)' = OrdersOf(k, OrderStatus) \cup {n}
         /\ to # "DELIVERED" => OrdersOf(k, {"DELIVERED"})' = OrdersOf(k, {"DELIVERED"}) \ {n}
         /\ k = Placed[n].customer /\ to = "DELIVERED" =>
              OrdersOf(k, {"DELIVERED"})' = OrdersOf(k, {"DELIVERED"}) \cup {n}
  <1>1. \A m \in OrderId : status'[m] = IF m = n THEN to ELSE status[m]
    BY DEF TypeOK
  <1>2. k # Placed[n].customer => /\ OrdersOf(k, OrderStatus)' = OrdersOf(k, OrderStatus)
                                 /\ OrdersOf(k, {"DELIVERED"})' = OrdersOf(k, {"DELIVERED"})
    BY <1>1 DEF OrdersOf, OrdersIn
  <1>3. k = Placed[n].customer /\ to \in OrderStatus =>
          OrdersOf(k, OrderStatus)' = OrdersOf(k, OrderStatus) \cup {n}
    BY <1>1 DEF OrdersOf, OrdersIn
  <1>4. to # "DELIVERED" => OrdersOf(k, {"DELIVERED"})' = OrdersOf(k, {"DELIVERED"}) \ {n}
    BY <1>1 DEF OrdersOf, OrdersIn
  <1>5. k = Placed[n].customer /\ to = "DELIVERED" =>
          OrdersOf(k, {"DELIVERED"})' = OrdersOf(k, {"DELIVERED"}) \cup {n}
    BY <1>1 DEF OrdersOf, OrdersIn
  <1> QED
    BY <1>2, <1>3, <1>4, <1>5

LEMMA OrdersStay ==
  ASSUME TypeOK, NEW n \in OrderId, NEW to, status' = [status EXCEPT ![n] = to], NEW k
  PROVE  /\ to \in InHand /\ status[n] \in InHand => OrdersIn(InHand)' = OrdersIn(InHand)
         /\ to \in OrderStatus /\ status[n] \in OrderStatus =>
              OrdersOf(k, OrderStatus)' = OrdersOf(k, OrderStatus)
         /\ to # "DELIVERED" /\ status[n] # "DELIVERED" =>
              OrdersOf(k, {"DELIVERED"})' = OrdersOf(k, {"DELIVERED"})
  <1>1. \A m \in OrderId : status'[m] = IF m = n THEN to ELSE status[m]
    BY DEF TypeOK
  <1>2. to \in InHand /\ status[n] \in InHand => OrdersIn(InHand)' = OrdersIn(InHand)
    BY <1>1 DEF OrdersIn
  <1>3. to \in OrderStatus /\ status[n] \in OrderStatus =>
          OrdersOf(k, OrderStatus)' = OrdersOf(k, OrderStatus)
    BY <1>1 DEF OrdersOf, OrdersIn
  <1>4. to # "DELIVERED" /\ status[n] # "DELIVERED" =>
          OrdersOf(k, {"DELIVERED"})' = OrdersOf(k, {"DELIVERED"})
    BY <1>1 DEF OrdersOf, OrdersIn
  <1> QED
    BY <1>2, <1>3, <1>4

LEMMA LedgerFacts ==
  ASSUME NEW n \in OrderId
  PROVE  /\ \A s \in Sku : LinesWith(s)[n] = Placed[n].lines[s] /\ LinesWith(s)[n] \in Nat
         /\ PointsUsed[n] = Placed[n].points /\ PointsUsed[n] \in Nat
         /\ PointsEarned[n] = Earned(n) /\ PointsEarned[n] \in Nat
  BY OrderFacts DEF LinesWith, PointsUsed, PointsEarned

LEMMA LedgerSame ==
  ASSUME LedgerInv, UNCHANGED <<status, reserved, balance>>
  PROVE  LedgerInv'
  <1>1. \A states : OrdersIn(states)' = OrdersIn(states)
                    /\ \A k : OrdersOf(k, states)' = OrdersOf(k, states)
    BY DEF OrdersIn, OrdersOf
  <1> QED
    BY <1>1 DEF LedgerInv

(* A transition of an order that was placed leaves what it took; unless it *)
(* delivers it, it gives nothing.                                          *)
LEMMA PointsKept ==
  ASSUME TypeOK, LedgerInv, NEW n \in OrderId, NEW to \in OrderStatus,
         status[n] \in OrderStatus, status[n] # "DELIVERED", to # "DELIVERED",
         status' = [status EXCEPT ![n] = to], UNCHANGED balance
  PROVE  \A k \in Account : \E used, earned \in Nat :
           /\ IsTally(OrdersOf(k, OrderStatus)', PointsUsed, used)
           /\ IsTally(OrdersOf(k, {"DELIVERED"})', PointsEarned, earned)
           /\ balance'[k] = Balance0[k] - used + earned
  <1> SUFFICES ASSUME NEW k \in Account
               PROVE  /\ OrdersOf(k, OrderStatus)' = OrdersOf(k, OrderStatus)
                      /\ OrdersOf(k, {"DELIVERED"})' = OrdersOf(k, {"DELIVERED"})
    BY DEF LedgerInv
  <1> QED
    BY OrdersStay

LEMMA LedgerAdvance ==
  ASSUME TypeOK, LedgerInv, NEW n \in OrderId, NEW to \in InHand,
         status[n] \in InHand, status' = [status EXCEPT ![n] = to],
         UNCHANGED <<reserved, balance>>
  PROVE  LedgerInv'
  <1>1. OrdersIn(InHand)' = OrdersIn(InHand)
    BY OrdersStay
  <1>2. \A s \in Sku : IsTally(OrdersIn(InHand)', LinesWith(s), reserved'[s])
    BY <1>1 DEF LedgerInv
  <1> QED
    BY <1>2, PointsKept DEF LedgerInv, InHand, OrderStatus

(* An order in hand that leaves gives back what it holds.                  *)
LEMMA LinesLeave ==
  ASSUME TypeOK, LedgerInv, NEW n \in OrderId, NEW to, to \notin InHand,
         status[n] \in InHand, status' = [status EXCEPT ![n] = to],
         reserved' = MinusLines(reserved, n)
  PROVE  \A s \in Sku : IsTally(OrdersIn(InHand)', LinesWith(s), reserved'[s])
  <1> SUFFICES ASSUME NEW s \in Sku
               PROVE  IsTally(OrdersIn(InHand)', LinesWith(s), reserved'[s])
    OBVIOUS
  <1>1. OrdersIn(InHand)' = OrdersIn(InHand) \ {n}
    BY OrdersMove
  <1>2. n \in OrdersIn(InHand) /\ IsTally(OrdersIn(InHand), LinesWith(s), reserved[s])
    BY DEF OrdersIn, LedgerInv
  <1>3. LinesWith(s)[n] \in Nat /\ LinesWith(s)[n] = Placed[n].lines[s]
    BY LedgerFacts
  <1>4. IsTally(OrdersIn(InHand) \ {n}, LinesWith(s), reserved[s] - LinesWith(s)[n])
    BY <1>2, <1>3, TallyOfLess
  <1>5. reserved'[s] = reserved[s] - Placed[n].lines[s]
    BY DEF MinusLines
  <1> QED
    BY <1>1, <1>3, <1>4, <1>5

LEMMA LedgerCancel ==
  ASSUME TypeOK, LedgerInv, NEW n \in OrderId, status[n] \in InHand,
         status' = [status EXCEPT ![n] = "CANCELLED"],
         reserved' = MinusLines(reserved, n), UNCHANGED balance
  PROVE  LedgerInv'
  <1>1. "CANCELLED" \notin InHand /\ "CANCELLED" \in OrderStatus
        /\ status[n] \in OrderStatus /\ status[n] # "DELIVERED"
    BY DEF InHand, OrderStatus
  <1>2. \A s \in Sku : IsTally(OrdersIn(InHand)', LinesWith(s), reserved'[s])
    BY <1>1, LinesLeave
  <1> QED
    BY <1>1, <1>2, PointsKept DEF LedgerInv

LEMMA LedgerDeliver ==
  ASSUME TypeOK, LedgerInv, NEW n \in OrderId, status[n] \in InHand,
         status' = [status EXCEPT ![n] = "DELIVERED"],
         reserved' = MinusLines(reserved, n),
         balance' = Credit(balance, Placed[n].customer, Earned(n))
  PROVE  LedgerInv'
  <1>1. "DELIVERED" \notin InHand /\ "DELIVERED" \in OrderStatus
        /\ status[n] \in OrderStatus /\ status[n] # "DELIVERED"
    BY DEF InHand, OrderStatus
  <1>2. \A s \in Sku : IsTally(OrdersIn(InHand)', LinesWith(s), reserved'[s])
    BY <1>1, LinesLeave
  <1>3. ASSUME NEW k \in Account
        PROVE  \E used, earned \in Nat :
                 /\ IsTally(OrdersOf(k, OrderStatus)', PointsUsed, used)
                 /\ IsTally(OrdersOf(k, {"DELIVERED"})', PointsEarned, earned)
                 /\ balance'[k] = Balance0[k] - used + earned
    <2>1. PICK used, earned \in Nat :
            /\ IsTally(OrdersOf(k, OrderStatus), PointsUsed, used)
            /\ IsTally(OrdersOf(k, {"DELIVERED"}), PointsEarned, earned)
            /\ balance[k] = Balance0[k] - used + earned
      BY DEF LedgerInv
    <2>2. /\ k = Placed[n].customer => n \in OrdersOf(k, OrderStatus)
          /\ n \notin OrdersOf(k, {"DELIVERED"})
      BY <1>1 DEF OrdersOf, OrdersIn
    <2>3. OrdersOf(k, OrderStatus)' = OrdersOf(k, OrderStatus)
      BY <1>1, <2>2, OrdersStay
    <2>4. CASE k = Placed[n].customer
      <3>1. OrdersOf(k, {"DELIVERED"})' = OrdersOf(k, {"DELIVERED"}) \cup {n}
        BY <2>4, AccountOrdersMove
      <3>2. PointsEarned[n] \in Nat /\ PointsEarned[n] = Earned(n)
        BY LedgerFacts
      <3>3. IsTally(OrdersOf(k, {"DELIVERED"}) \cup {n}, PointsEarned, earned + PointsEarned[n])
        BY <2>1, <2>2, <3>2, TallyOfMore
      <3>4. balance'[k] = balance[k] + Earned(n)
        BY <2>4 DEF Credit
      <3>5. earned + Earned(n) \in Nat
            /\ balance'[k] = Balance0[k] - used + (earned + Earned(n))
        BY <2>1, <3>2, <3>4, DeskTablesAssumption
      <3> QED
        BY <2>1, <2>3, <3>1, <3>2, <3>3, <3>5
    <2>5. CASE k # Placed[n].customer
      <3>1. OrdersOf(k, {"DELIVERED"})' = OrdersOf(k, {"DELIVERED"})
        BY <2>5, AccountOrdersMove
      <3>2. balance'[k] = balance[k]
        BY <2>5 DEF Credit
      <3> QED
        BY <2>1, <2>3, <3>1, <3>2
    <2> QED
      BY <2>4, <2>5
  <1> QED
    BY <1>2, <1>3 DEF LedgerInv

LEMMA LedgerPlace ==
  ASSUME TypeOK, LedgerInv, NEW n \in OrderId, status[n] = NotPlaced,
         status' = [status EXCEPT ![n] = "PENDING"],
         reserved' = PlusLines(reserved, n),
         balance' = Credit(balance, Placed[n].customer, -Placed[n].points)
  PROVE  LedgerInv'
  <1>1. /\ "PENDING" \in InHand /\ "PENDING" \in OrderStatus /\ "PENDING" # "DELIVERED"
        /\ NotPlaced \notin InHand /\ NotPlaced \notin OrderStatus /\ NotPlaced # "DELIVERED"
    BY DEF InHand, OrderStatus, NotPlaced
  <1>2. ASSUME NEW s \in Sku
        PROVE  IsTally(OrdersIn(InHand)', LinesWith(s), reserved'[s])
    <2>1. OrdersIn(InHand)' = OrdersIn(InHand) \cup {n}
      BY <1>1, OrdersMove
    <2>2. n \notin OrdersIn(InHand) /\ IsTally(OrdersIn(InHand), LinesWith(s), reserved[s])
      BY <1>1 DEF OrdersIn, LedgerInv
    <2>3. LinesWith(s)[n] \in Nat /\ LinesWith(s)[n] = Placed[n].lines[s]
      BY LedgerFacts
    <2>4. IsTally(OrdersIn(InHand) \cup {n}, LinesWith(s), reserved[s] + LinesWith(s)[n])
      BY <2>2, <2>3, TallyOfMore
    <2>5. reserved'[s] = reserved[s] + Placed[n].lines[s]
      BY DEF PlusLines
    <2> QED
      BY <2>1, <2>3, <2>4, <2>5
  <1>3. ASSUME NEW k \in Account
        PROVE  \E used, earned \in Nat :
                 /\ IsTally(OrdersOf(k, OrderStatus)', PointsUsed, used)
                 /\ IsTally(OrdersOf(k, {"DELIVERED"})', PointsEarned, earned)
                 /\ balance'[k] = Balance0[k] - used + earned
    <2>1. PICK used, earned \in Nat :
            /\ IsTally(OrdersOf(k, OrderStatus), PointsUsed, used)
            /\ IsTally(OrdersOf(k, {"DELIVERED"}), PointsEarned, earned)
            /\ balance[k] = Balance0[k] - used + earned
      BY DEF LedgerInv
    <2>2. n \notin OrdersOf(k, OrderStatus) /\ n \notin OrdersOf(k, {"DELIVERED"})
      BY <1>1 DEF OrdersOf, OrdersIn
    <2>3. OrdersOf(k, {"DELIVERED"})' = OrdersOf(k, {"DELIVERED"})
      BY <1>1, <2>2, OrdersStay
    <2>4. CASE k = Placed[n].customer
      <3>1. OrdersOf(k, OrderStatus)' = OrdersOf(k, OrderStatus) \cup {n}
        BY <1>1, <2>4, AccountOrdersMove
      <3>2. PointsUsed[n] \in Nat /\ PointsUsed[n] = Placed[n].points
        BY LedgerFacts
      <3>3. IsTally(OrdersOf(k, OrderStatus) \cup {n}, PointsUsed, used + PointsUsed[n])
        BY <2>1, <2>2, <3>2, TallyOfMore
      <3>4. balance'[k] = balance[k] + -Placed[n].points
        BY <2>4 DEF Credit
      <3>5. used + Placed[n].points \in Nat
            /\ balance'[k] = Balance0[k] - (used + Placed[n].points) + earned
        BY <2>1, <3>2, <3>4, DeskTablesAssumption
      <3> QED
        BY <2>1, <2>3, <3>1, <3>2, <3>3, <3>5
    <2>5. CASE k # Placed[n].customer
      <3>1. OrdersOf(k, OrderStatus)' = OrdersOf(k, OrderStatus)
        BY <2>5, AccountOrdersMove
      <3>2. balance'[k] = balance[k]
        BY <2>5 DEF Credit
      <3> QED
        BY <2>1, <2>3, <3>1, <3>2
    <2> QED
      BY <2>4, <2>5
  <1> QED
    BY <1>2, <1>3 DEF LedgerInv

LEMMA LedgerStep ==
  ASSUME Books, LedgerInv, NEW w \in Clerk, Good(w), Step(w)
  PROVE  LedgerInv'
  <1> DEFINE n == task[w].order
  <1>0. TypeOK /\ HistoryIsAFlow /\ PaymentsAddUp /\ CreditedOnce
    BY DEF Books
  <1>1. CASE UNCHANGED <<status, reserved, balance>>
    BY <1>1, LedgerSame
  <1>2. CASE UNCHANGED tables
    BY <1>1, <1>2 DEF tables, orderTables, stockTables, pointTables
  <1>3. CASE Begin(w) \/ (LockOrder(w) /\ ~End(w)) \/ (LockSku(w) /\ ~End(w))
             \/ LockPoints(w) \/ OpenForm(w)
    <2>1. UNCHANGED tables
      BY <1>3 DEF Begin, LockOrder, LockSku, LockPoints, OpenForm
    <2> QED
      BY <1>2, <2>1
  <1>4. CASE WriteStatus(w)
    <2>1. /\ n \in OrderId /\ status[n] \in OrderStatus
          /\ task[w].to \in ORDER_NEXT_STATUS[status[n]]
          /\ task[w].to # "DELIVERED" /\ task[w].to # "CANCELLED"
          /\ status' = [status EXCEPT ![n] = task[w].to]
          /\ UNCHANGED <<reserved, balance>>
      BY <1>0, <1>4, AdvanceFacts DEF stockTables, pointTables
    <2>2. status[n] \in InHand /\ task[w].to \in InHand
      BY <2>1, OnwardFacts
    <2> QED
      BY <1>0, <2>1, <2>2, LedgerAdvance
  <1>5. CASE WriteCancel(w)
    <2>1. /\ n \in OrderId /\ status[n] \in OrderStatus
          /\ "CANCELLED" \in ORDER_NEXT_STATUS[status[n]]
          /\ status' = [status EXCEPT ![n] = "CANCELLED"]
          /\ reserved' = MinusLines(reserved, n) /\ UNCHANGED balance
      BY <1>0, <1>5, CancelFacts DEF pointTables
    <2>2. status[n] \in InHand
      BY <2>1, OnwardFacts
    <2> QED
      BY <1>0, <2>1, <2>2, LedgerCancel
  <1>6. CASE WriteDelivery(w)
    <2>1. /\ n \in OrderId /\ status[n] \in OrderStatus
          /\ "DELIVERED" \in ORDER_NEXT_STATUS[status[n]]
          /\ status' = [status EXCEPT ![n] = "DELIVERED"]
          /\ reserved' = MinusLines(reserved, n)
          /\ balance' = Credit(balance, Placed[n].customer, Earned(n))
      BY <1>0, <1>6, DeliveryFacts
    <2>2. status[n] \in InHand
      BY <2>1, OnwardFacts
    <2> QED
      BY <1>0, <2>1, <2>2, LedgerDeliver
  <1>7. CASE WritePayment(w) \/ WriteAdjustment(w) \/ SaveForm(w)
    <2>1. UNCHANGED <<status, reserved, balance>>
      BY <1>7 DEF WritePayment, WriteAdjustment, SaveForm, orderTables, stockTables, pointTables
    <2> QED
      BY <1>1, <2>1
  <1> QED
    BY <1>2, <1>3, <1>4, <1>5, <1>6, <1>7, StepCases

LEMMA PlaceStep ==
  ASSUME IInv, NEW n \in OrderId, PlaceOrder(n)
  PROVE  IInv'
  <1>0. TypeOK /\ HistoryIsAFlow /\ PaymentsAddUp /\ CreditedOnce /\ StockIsItsMovements
    BY DEF IInv
  <1>1. /\ status[n] = NotPlaced /\ status' = [status EXCEPT ![n] = "PENDING"]
        /\ HistoryIsAFlow' /\ TablesOK'
        /\ UNCHANGED <<paid, payStatus, received, stock, moves, credits, pc, held>>
        /\ UNCHANGED <<task, seen, read, todo, aim>>
    BY <1>0, PlaceFacts DEF payTables, local
  <1>2. TypeOK'
    BY <1>0, <1>1, TypeParts DEF LocalOK
  <1>3. PaymentsAddUp'
    BY <1>0, <1>1 DEF PaymentsAddUp
  <1>4. CreditedOnce' /\ StockIsItsMovements'
    <2>1. status[n] # "DELIVERED" /\ "PENDING" # "DELIVERED"
      BY <1>1, FlowFacts
    <2> QED
      BY <1>0, <1>1, <2>1, CreditKept, StockKept
  <1>5. Exclusive'
    BY <1>1 DEF IInv, Exclusive
  <1>6. ASSUME NEW w \in Clerk PROVE Good(w)'
    <2> DEFINE t == task[w]
    <2>1. Good(w)
      BY DEF IInv
    <2>2. ASSUME pc[w] \in Locking, t.op # "adjust"
          PROVE  /\ OnOrder(t) /\ OrderRow(t.order) \in held[w] /\ ~Refused(t)'
                 /\ seen[w] = [status |-> status'[t.order], paid |-> paid'[t.order]]
      <3>1. /\ OnOrder(t) /\ OrderRow(t.order) \in held[w] /\ ~Refused(t) /\ t \in Task
            /\ seen[w] = [status |-> status[t.order], paid |-> paid[t.order]]
        BY <2>1, <2>2 DEF Good, Locking
      <3>2. t.order \in OrderId
        BY <3>1, TaskFacts
      <3>3. t.order # n
        BY <1>1, <3>1 DEF Refused
      <3>4. status'[t.order] = status[t.order] /\ paid'[t.order] = paid[t.order]
        BY <1>0, <1>1, <3>2, <3>3 DEF TypeOK
      <3> QED
        BY <1>1, <3>1, <3>4, SameRefusal
    <2> QED
      BY <1>1, <2>1, <2>2 DEF Good, Locking
  <1>7. LedgerInv'
    BY <1>0, PlaceFacts, LedgerPlace DEF IInv
  <1> QED
    BY <1>1, <1>2, <1>3, <1>4, <1>5, <1>6, <1>7 DEF IInv

-----------------------------------------------------------------------------
LEMMA InitInv == Init => IInv
  <1> SUFFICES ASSUME Init PROVE IInv
    OBVIOUS
  <1>1. TypeOK
    <2>1. /\ \A S : <<>> \in Seq(S)
          /\ Stock0 \in [Sku -> Int] /\ Balance0 \in [Account -> Int]
      BY DeskTablesAssumption
    <2>2. TablesOK
      BY <2>1 DEF Init, TablesOK
    <2>3. LocalOK
      BY NothingTypes DEF Init, LocalOK, Label
    <2> QED
      BY <2>2, <2>3, TypeParts
  <1>2. Exclusive /\ \A w \in Clerk : Good(w)
    BY DEF Init, Exclusive, Good, Locking
  <1>3. HistoryIsAFlow /\ PaymentsAddUp
    <2>1. \A n \in OrderId : Placed[n].total \in Nat
      BY OrderFacts
    <2> QED
      BY <2>1 DEF Init, HistoryIsAFlow, PaymentsAddUp
  <1>4. CreditedOnce
    BY FlowFacts DEF Init, CreditedOnce, OrderStatus, NotPlaced
  <1>5. StockIsItsMovements
    <2>1. DOMAIN <<>> = {} /\ NotPlaced # "DELIVERED"
      BY FlowFacts
    <2>2. ASSUME NEW s \in FormLess
          PROVE  /\ Chained(s, moves[s], stock[s])
                 /\ \A n \in OrderId : DeductedOnce(s, moves[s], n, status[n])
      <3>1. moves[s] = <<>> /\ stock[s] = Stock0[s] /\ \A n \in OrderId : status[n] = NotPlaced
        BY DEF Init, FormLess
      <3> QED
        BY <2>1, <3>1 DEF Chained, DeductedOnce, Deductions
    <2> QED
      BY <2>2, MovementParts
  <1>6. LedgerInv
    <2>1. OrdersIn(InHand) = {} /\ OrdersIn(OrderStatus) = {} /\ OrdersIn({"DELIVERED"}) = {}
      BY FlowFacts DEF Init, OrdersIn, InHand, NotPlaced, OrderStatus
    <2>2. \A k : OrdersOf(k, OrderStatus) = {} /\ OrdersOf(k, {"DELIVERED"}) = {}
      BY <2>1 DEF OrdersOf
    <2>3. \A f : IsTally({}, f, 0)
      BY TallyOfNone
    <2>4. \A s \in Sku : IsTally(OrdersIn(InHand), LinesWith(s), reserved[s])
      BY <2>1, <2>3 DEF Init
    <2>5. \A k \in Account : balance[k] = Balance0[k] - 0 + 0
      BY DeskTablesAssumption DEF Init
    <2> QED
      BY <2>2, <2>3, <2>4, <2>5 DEF LedgerInv
  <1> QED
    BY <1>1, <1>2, <1>3, <1>4, <1>5, <1>6 DEF IInv

LEMMA NextInv == IInv /\ [Next]_vars => IInv'
  <1> SUFFICES ASSUME IInv, [Next]_vars PROVE IInv'
    OBVIOUS
  <1>0. Books /\ Exclusive /\ (\A w \in Clerk : Good(w)) /\ StockIsItsMovements /\ LedgerInv
    BY DEF IInv, Books
  <1>1. ASSUME NEW w \in Clerk, Step(w) PROVE IInv'
    <2>1. Exclusive'
      BY <1>0, <1>1, ExclusiveStep
    <2>2. ASSUME NEW v \in Clerk PROVE Good(v)'
      <3>1. CASE v = w
        BY <1>0, <1>1, <3>1, SelfGood DEF Books
      <3>2. CASE v # w
        BY <1>0, <1>1, <3>2, OthersGood
      <3> QED
        BY <3>1, <3>2
    <2>3. Books' /\ StockIsItsMovements'
      BY <1>0, <1>1, BooksStep
    <2>4. LedgerInv'
      BY <1>0, <1>1, LedgerStep
    <2> QED
      BY <2>1, <2>2, <2>3, <2>4 DEF IInv, Books
  <1>2. ASSUME NEW n \in OrderId, PlaceOrder(n) PROVE IInv'
    BY <1>2, PlaceStep
  <1>3. CASE UNCHANGED vars
    <2>1. UNCHANGED <<status, history, paid, payStatus, stock, reserved, moves, balance, credits,
                      received, pc, task, seen, read, todo, aim, held>>
      BY <1>3 DEF vars, tables, orderTables, payTables, stockTables, pointTables, local
    <2>2. TypeOK' /\ Exclusive'
      BY <1>0, <2>1 DEF Books, TypeOK, Exclusive
    <2>3. \A w \in Clerk : Good(w)'
      BY <1>0, <2>1 DEF Good, Refused, TransitionRefused, Overpays
    <2>4. HistoryIsAFlow' /\ PaymentsAddUp' /\ CreditedOnce' /\ StockIsItsMovements'
      BY <1>0, <2>1 DEF Books, HistoryIsAFlow, PaymentsAddUp, CreditedOnce, StockIsItsMovements
    <2>5. LedgerInv'
      BY <1>0, <2>1, LedgerSame
    <2> QED
      BY <2>2, <2>3, <2>4, <2>5 DEF IInv
  <1>4. \A w \in Clerk : Begin(w) \/ Statement(w) \/ DeadlockAbort(w) \/ Abort(w) => Step(w)
    BY DEF Step
  <1> QED
    BY <1>1, <1>2, <1>3, <1>4 DEF Next

LEMMA InductiveInvariant == Spec => []IInv
  BY InitInv, NextInv, PTL DEF Spec

(* Every table and every local variable of the desk keeps its type, for    *)
(* any number of clerks, orders, rows of stock and tasks; in particular an *)
(* order is credited at most once.                                         *)
THEOREM TypeCorrect == Spec => []TypeOK
  <1>1. IInv => TypeOK
    BY DEF IInv
  <1> QED
    BY <1>1, InductiveInvariant, PTL

(* Whoever clicks at the same time, the history of an order is a path of   *)
(* ORDER_NEXT_STATUS that ends at its status.                              *)
THEOREM StatusesFollowTheFlow == Spec => []HistoryIsAFlow
  <1>1. IInv => HistoryIsAFlow
    BY DEF IInv
  <1> QED
    BY <1>1, InductiveInvariant, PTL

(* No payment is lost or counted twice by another one recorded at the same *)
(* time, and no order is paid more than its total.                         *)
THEOREM PaymentsCorrect == Spec => []PaymentsAddUp
  <1>1. IInv => PaymentsAddUp
    BY DEF IInv
  <1> QED
    BY <1>1, InductiveInvariant, PTL

(* The movements of a row of stock lead without a gap to its present       *)
(* stock, and hold exactly one deduction per delivered order.              *)
THEOREM MovementsExplainStock == Spec => []StockIsItsMovements
  <1>1. IInv => StockIsItsMovements
    BY DEF IInv
  <1> QED
    BY <1>1, InductiveInvariant, PTL

(* The reservations are the lines of the orders in hand: whoever cancels   *)
(* or delivers at the same time, none is left over or given back twice.    *)
THEOREM ReservationsCorrect == Spec => []ReservedIsOrdersInHand
  <1>1. IInv => ReservedIsOrdersInHand
    BY DEF IInv, LedgerInv, IsTally, ReservedIsOrdersInHand
  <1> QED
    BY <1>1, InductiveInvariant, PTL

(* A balance is what it was, minus what every order took, plus what every  *)
(* delivery gave, once.                                                    *)
THEOREM PointsCorrect == Spec => []PointsAreLedger
  <1>1. IInv => PointsAreLedger
    BY DEF IInv, LedgerInv, IsTally, PointsAreLedger
  <1> QED
    BY <1>1, InductiveInvariant, PTL

-----------------------------------------------------------------------------
(* The desk implements OrderFlow. The operators on data are the same ones  *)
(* through the instance.                                                   *)
LEMMA SameData ==
  /\ OF!NotPlaced = NotPlaced /\ OF!ORDER_NEXT_STATUS = ORDER_NEXT_STATUS
  /\ \A n : OF!SkusOf(n) = SkusOf(n) /\ OF!Earned(n) = Earned(n)
  /\ \A f, n : OF!PlusLines(f, n) = PlusLines(f, n) /\ OF!MinusLines(f, n) = MinusLines(f, n)
  /\ \A b, k, p : OF!Credit(b, k, p) = Credit(b, k, p)
  <1>1. OF!NotPlaced = NotPlaced /\ OF!ORDER_NEXT_STATUS = ORDER_NEXT_STATUS
    BY DEF OF!NotPlaced, NotPlaced, OF!ORDER_NEXT_STATUS, ORDER_NEXT_STATUS
  <1>2. \A x, y : OF!earnedPoints(x, y) = earnedPoints(x, y)
    BY DEF OF!earnedPoints, earnedPoints
  <1>3. \A x, y : OF!Larger(x, y) = Larger(x, y)
    BY DEF OF!Larger, Larger
  <1>4. \A n : OF!SkusOf(n) = SkusOf(n) /\ OF!Earned(n) = Earned(n)
    BY <1>2, <1>3 DEF OF!SkusOf, SkusOf, OF!Earned, Earned
  <1>5. \A f, n : OF!PlusLines(f, n) = PlusLines(f, n) /\ OF!MinusLines(f, n) = MinusLines(f, n)
    BY DEF OF!PlusLines, PlusLines, OF!MinusLines, MinusLines
  <1>6. \A b, k, p : OF!Credit(b, k, p) = Credit(b, k, p)
    BY DEF OF!Credit, Credit
  <1> QED
    BY <1>1, <1>4, <1>5, <1>6

LEMMA InitRefines == Init => OF!Init
  BY DeskTablesAssumption, SameData DEF Init, OF!Init

LEMMA PlaceRefines ==
  ASSUME NEW n \in OrderId, PlaceOrder(n)
  PROVE  OF!Next
  <1>1. OF!Place(n)
    BY SameData DEF PlaceOrder, OF!Place, payTables
  <1> QED
    BY <1>1 DEF OF!Next

LEMMA AdvanceRefines ==
  ASSUME TypeOK, HistoryIsAFlow, NEW w \in Clerk, Good(w), WriteStatus(w)
  PROVE  OF!Next
  <1> DEFINE n == task[w].order
             to == task[w].to
  <1>1. /\ n \in OrderId /\ status[n] \in OrderStatus /\ to \in ORDER_NEXT_STATUS[status[n]]
        /\ to # "DELIVERED" /\ to # "CANCELLED"
        /\ status' = [status EXCEPT ![n] = to]
        /\ UNCHANGED <<stock, reserved, balance, paid>>
    BY AdvanceFacts DEF payTables, stockTables, pointTables
  <1>2. status[n] # NotPlaced /\ to \in {"CONFIRMED", "PREPARING", "SHIPPED"}
    BY <1>1, FlowFacts DEF OrderStatus
  <1>3. OF!Advance(n)
    BY <1>1, <1>2, SameData DEF OF!Advance, OF!Move
  <1> QED
    BY <1>1, <1>3 DEF OF!Next

LEMMA CancelRefines ==
  ASSUME TypeOK, HistoryIsAFlow, NEW w \in Clerk, Good(w), WriteCancel(w)
  PROVE  OF!Next
  <1> DEFINE n == task[w].order
  <1>1. /\ n \in OrderId /\ status[n] \in OrderStatus
        /\ "CANCELLED" \in ORDER_NEXT_STATUS[status[n]]
        /\ status' = [status EXCEPT ![n] = "CANCELLED"] /\ reserved' = MinusLines(reserved, n)
        /\ UNCHANGED <<stock, balance, paid>>
    BY CancelFacts DEF payTables, pointTables
  <1>2. status[n] # NotPlaced
    BY <1>1, FlowFacts
  <1>3. OF!Cancel(n)
    BY <1>1, <1>2, SameData DEF OF!Cancel, OF!Move
  <1> QED
    BY <1>1, <1>3 DEF OF!Next

LEMMA DeliverRefines ==
  ASSUME TypeOK, HistoryIsAFlow, CreditedOnce, NEW w \in Clerk, Good(w), WriteDelivery(w)
  PROVE  OF!Next
  <1> DEFINE n == task[w].order
  <1>1. /\ n \in OrderId /\ status[n] \in OrderStatus
        /\ "DELIVERED" \in ORDER_NEXT_STATUS[status[n]]
        /\ status' = [status EXCEPT ![n] = "DELIVERED"]
        /\ stock' = MinusLines(stock, n) /\ reserved' = MinusLines(reserved, n)
        /\ balance' = Credit(balance, Placed[n].customer, Earned(n))
        /\ UNCHANGED paid
    BY DeliveryFacts DEF payTables
  <1>2. status[n] # NotPlaced
    BY <1>1, FlowFacts
  <1>3. OF!Deliver(n)
    BY <1>1, <1>2, SameData DEF OF!Deliver, OF!Move
  <1> QED
    BY <1>1, <1>3 DEF OF!Next

LEMMA PaymentRefines ==
  ASSUME TypeOK, PaymentsAddUp, NEW w \in Clerk, Good(w), WritePayment(w)
  PROVE  OF!Next
  <1> DEFINE n == task[w].order
             amount == task[w].amount
  <1>1. /\ n \in OrderId /\ status[n] \in OrderStatus
        /\ amount \in Nat \ {0} /\ paid[n] + amount <= Placed[n].total
        /\ paid' = [paid EXCEPT ![n] = @ + amount]
        /\ UNCHANGED <<status, stock, reserved, balance>>
    BY PaymentFacts DEF orderTables, stockTables, pointTables
  <1>2. paid[n] \in Nat /\ Placed[n].total \in Nat /\ status[n] # NotPlaced
    BY <1>1, OrderFacts, FlowFacts DEF TypeOK
  <1>3. amount \in 1..(Placed[n].total - paid[n])
    BY <1>1, <1>2
  <1>4. OF!Pay(n)
    BY <1>1, <1>2, <1>3, SameData DEF OF!Pay
  <1> QED
    BY <1>1, <1>4 DEF OF!Next

LEMMA CountRefines ==
  ASSUME TypeOK, NEW w \in Clerk, Good(w), WriteAdjustment(w) \/ SaveForm(w)
  PROVE  OF!Next \/ UNCHANGED OF!vars
  <1> DEFINE s == task[w].sku
  <1>1. /\ s \in Sku
        /\ UNCHANGED stock \/ \E new \in Int : new >= 0 /\ stock' = [stock EXCEPT ![s] = new]
        /\ UNCHANGED <<status, reserved, balance, paid>>
    <2>1. CASE WriteAdjustment(w)
      BY <2>1, AdjustmentFacts DEF orderTables, payTables, pointTables
    <2>2. CASE SaveForm(w)
      BY <2>2, SaveFacts DEF orderTables, payTables, pointTables
    <2> QED
      BY <2>1, <2>2
  <1>2. CASE UNCHANGED stock
    BY <1>1, <1>2 DEF OF!vars
  <1>3. ASSUME NEW new \in Int, new >= 0, stock' = [stock EXCEPT ![s] = new]
        PROVE  OF!Next
    <2>1. stock'[s] = new
      BY <1>1, <1>3 DEF TypeOK
    <2>2. OF!CountStock(s)
      BY <1>1, <1>3, <2>1 DEF OF!CountStock
    <2> QED
      BY <1>1, <2>2 DEF OF!Next
  <1> QED
    BY <1>1, <1>2, <1>3

LEMMA NextRefines == IInv /\ [Next]_vars => [OF!Next]_(OF!vars)
  <1> SUFFICES ASSUME IInv, [Next]_vars PROVE OF!Next \/ UNCHANGED OF!vars
    OBVIOUS
  <1>0. TypeOK /\ HistoryIsAFlow /\ PaymentsAddUp /\ CreditedOnce /\ \A w \in Clerk : Good(w)
    BY DEF IInv
  <1>1. UNCHANGED tables => UNCHANGED OF!vars
    BY DEF OF!vars, tables, orderTables, payTables, stockTables, pointTables
  <1>2. ASSUME NEW w \in Clerk, Step(w) PROVE OF!Next \/ UNCHANGED OF!vars
    <2>1. CASE UNCHANGED tables
      BY <1>1, <2>1
    <2>2. CASE Begin(w) \/ (LockOrder(w) /\ ~End(w)) \/ (LockSku(w) /\ ~End(w))
               \/ LockPoints(w) \/ OpenForm(w)
      <3>1. UNCHANGED tables
        BY <2>2 DEF Begin, LockOrder, LockSku, LockPoints, OpenForm
      <3> QED
        BY <2>1, <3>1
    <2>3. CASE WriteStatus(w) \/ WriteCancel(w) \/ WriteDelivery(w) \/ WritePayment(w)
      BY <1>0, <2>3, AdvanceRefines, CancelRefines, DeliverRefines, PaymentRefines
    <2>4. CASE WriteAdjustment(w) \/ SaveForm(w)
      BY <1>0, <2>4, CountRefines
    <2> QED
      BY <1>2, <2>1, <2>2, <2>3, <2>4, StepCases
  <1>3. ASSUME NEW n \in OrderId, PlaceOrder(n) PROVE OF!Next
    BY <1>3, PlaceRefines
  <1>4. CASE UNCHANGED vars
    BY <1>1, <1>4 DEF vars
  <1>5. \A w \in Clerk : Begin(w) \/ Statement(w) \/ DeadlockAbort(w) \/ Abort(w) => Step(w)
    BY DEF Step
  <1> QED
    BY <1>2, <1>3, <1>4, <1>5 DEF Next

(* The desk, with its row locks, unlocked forms, deadlocks and crashes,    *)
(* does to orders, stock, points and payments what atomic placements,      *)
(* transitions, payments and counts of the stock do.                       *)
THEOREM Refinement == Spec => ImplementsOrderFlow
  BY InitRefines, InductiveInvariant, NextRefines, PTL
  DEF ImplementsOrderFlow, Spec, OF!Spec
=============================================================================

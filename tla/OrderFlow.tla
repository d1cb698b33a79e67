------------------------------ MODULE OrderFlow ------------------------------
(***************************************************************************)
(* What the Back-Office promises: an order moves along ORDER_NEXT_STATUS,  *)
(* each transition is one atomic step, and it changes the stock, the       *)
(* reservations and the points by exactly what the order says; payments    *)
(* add up to its total at most. OrderDesk implements this module.          *)
(***************************************************************************)
EXTENDS DeskData

VARIABLES status, stock, reserved, balance, paid

vars == <<status, stock, reserved, balance, paid>>

Init ==
  /\ status = [n \in OrderId |-> NotPlaced]
  /\ stock \in [Sku -> Nat]
  /\ reserved = [s \in Sku |-> 0]
  /\ balance \in [Account -> Nat]
  /\ paid = [n \in OrderId |-> 0]

Place(n) ==
  /\ status[n] = NotPlaced
  /\ \A s \in SkusOf(n) : Placed[n].lines[s] <= stock[s] - reserved[s]
  /\ Placed[n].points > 0 => Placed[n].points <= balance[Placed[n].customer]
  /\ status' = [status EXCEPT ![n] = "PENDING"]
  /\ reserved' = PlusLines(reserved, n)
  /\ balance' = Credit(balance, Placed[n].customer, -Placed[n].points)
  /\ UNCHANGED <<stock, paid>>

(* The three kinds of transitions.                                         *)
Move(n, to) ==
  /\ status[n] # NotPlaced
  /\ to \in ORDER_NEXT_STATUS[status[n]]
  /\ status' = [status EXCEPT ![n] = to]
  /\ UNCHANGED paid

Advance(n) ==
  /\ \E to \in {"CONFIRMED", "PREPARING", "SHIPPED"} : Move(n, to)
  /\ UNCHANGED <<stock, reserved, balance>>

Cancel(n) ==
  /\ Move(n, "CANCELLED")
  /\ reserved' = MinusLines(reserved, n)
  /\ UNCHANGED <<stock, balance>>

Deliver(n) ==
  /\ Move(n, "DELIVERED")
  /\ stock' = MinusLines(stock, n)
  /\ reserved' = MinusLines(reserved, n)
  /\ balance' = Credit(balance, Placed[n].customer, Earned(n))

Pay(n) ==
  /\ status[n] # NotPlaced
  /\ \E amount \in 1..(Placed[n].total - paid[n]) :
       paid' = [paid EXCEPT ![n] = @ + amount]
  /\ UNCHANGED <<status, stock, reserved, balance>>

(* A stock adjustment, or a form or a spreadsheet that sets the stock.     *)
CountStock(s) ==
  /\ stock' = [stock EXCEPT ![s] = stock'[s]]
  /\ stock'[s] >= 0
  /\ UNCHANGED <<status, reserved, balance, paid>>

Next ==
  \/ \E n \in OrderId : Place(n) \/ Advance(n) \/ Cancel(n) \/ Deliver(n) \/ Pay(n)
  \/ \E s \in Sku : CountStock(s)

Spec == Init /\ [][Next]_vars
=============================================================================

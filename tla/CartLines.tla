------------------------------ MODULE CartLines ------------------------------
(***************************************************************************)
(* One cart, on the token its browser keeps: the first visit, the lines    *)
(* the browser and the guests of a share link add, change and remove, and  *)
(* the link itself. Module Checkout looks at the same cart from the side   *)
(* of the orders; here an order only converts it.                          *)
(*                                                                         *)
(* A request is a sequence of statements on the database. addLine is the   *)
(* only one with a transaction, serialised by an advisory lock on the      *)
(* cart, product and variant.                                              *)
(***************************************************************************)
EXTENDS Integers, FiniteSets

CONSTANTS
  Sku,        \* products or variants a line may be about
  Request,    \* requests, each sent once
  Op,         \* "view", "add", "follow", "set", "remove" or "share"
  SkuOf,      \* what an "add" or a "follow" is about
  Qty,        \* dto.quantity
  Available,  \* stock - reservedStock, as updateLine sees it
  None        \* no line, no token, nobody

CartAssumption ==
  /\ Op \in [Request -> {"view", "add", "follow", "set", "remove", "share"}]
  /\ SkuOf \in [Request -> Sku]
  /\ Qty \in [Request -> Nat \ {0}]
  /\ Available \in [Sku -> Int]
  /\ None \notin Request \cup Nat \cup {"ACTIVE", "CONVERTED"}

VARIABLES
  cart,       \* Cart.status, None before the first visit
  shareToken, \* Cart.shareToken, named after the request that made it
  lines,      \* CartLine, by id
  nextId,
  advisory,   \* who holds the advisory lock of a Sku
  pc, seen,   \* the next statement of a request, what the last one read
  owed,       \* history: pieces acknowledged since the cart was emptied
  covered     \* history: the products typed in between the read and the write of an add

cartVars == <<cart, shareToken>>
lineVars == <<lines, nextId, owed, covered>>
vars == <<cartVars, lineVars, advisory, pc, seen>>

LinesOf(s) == {i \in DOMAIN lines : lines[i].sku = s}

Handler(r) ==
  CASE Op[r] \in {"add", "follow"} -> "add"
    [] Op[r] \in {"set", "remove"} -> "own"
    [] Op[r] = "share"             -> "share"
    [] OTHER                       -> "done"

Nothing == [id |-> None, qty |-> 0]

Goto(r, label) == pc' = [pc EXCEPT ![r] = label]

Init ==
  /\ cart = None /\ shareToken = None
  /\ lines = <<>> /\ nextId = 1 /\ covered = {}
  /\ owed = [s \in Sku |-> 0]
  /\ advisory = [s \in Sku |-> None]
  /\ pc = [r \in Request |-> "resolve"]
  /\ seen = [r \in Request |-> Nothing]

-----------------------------------------------------------------------------
(* Handles the first visit without making its cart.                        *)
MutFindCart(r) ==
  /\ pc[r] = "resolve"
  /\ Op[r] # "follow"
  /\ Goto(r, IF cart = "CONVERTED" THEN "wipe" ELSE Handler(r))
  /\ UNCHANGED <<cartVars, lineVars, advisory, seen>>

(* resolveCart, with the token of the browser.                             *)
FindCart(r) ==
  /\ pc[r] = "resolve"
  /\ Op[r] # "follow"
  /\ Goto(r, IF cart = None THEN "create"
             ELSE IF cart = "ACTIVE" THEN Handler(r) ELSE "wipe")
  /\ UNCHANGED <<cartVars, lineVars, advisory, seen>>

(* The requests of a first visit share their token: ownerToken is unique,  *)
(* and the one that comes second reads the cart of the first.              *)
CreateCart(r) ==
  /\ pc[r] = "create"
  /\ cart' = IF cart = None THEN "ACTIVE" ELSE cart
  /\ Goto(r, Handler(r))
  /\ UNCHANGED <<shareToken, lineVars, advisory, seen>>

WipeLines(r) ==
  /\ pc[r] = "wipe"
  /\ lines' = <<>>
  /\ owed' = [s \in Sku |-> 0]
  /\ Goto(r, "reset")
  /\ UNCHANGED <<cartVars, nextId, covered, advisory, seen>>

ResetCart(r) ==
  /\ pc[r] = "reset"
  /\ cart' = "ACTIVE"
  /\ shareToken' = None
  /\ Goto(r, Handler(r))
  /\ UNCHANGED <<lineVars, advisory, seen>>

(* resolveCart, with a link: one that was handed out, now or before.       *)
FollowLink(r) ==
  /\ pc[r] = "resolve"
  /\ Op[r] = "follow"
  /\ \E token \in {q \in Request : Op[q] = "share" /\ pc[q] = "done"} :
       Goto(r, IF shareToken = token /\ cart = "ACTIVE" THEN "add" ELSE "rejected")
  /\ UNCHANGED <<cartVars, lineVars, advisory, seen>>

-----------------------------------------------------------------------------
(* addLine: the lock, the line if there is one, then its new quantity.     *)
(* Nobody waits: two adds read before either writes.                       *)
MutLineFree(s) == TRUE

LineFree(s) == advisory[s] = None

FindLine(r) ==
  LET s == SkuOf[r]
  IN  /\ pc[r] = "add"
      /\ LineFree(s)
      /\ advisory' = [advisory EXCEPT ![s] = r]
      /\ IF LinesOf(s) = {}
         THEN seen' = [seen EXCEPT ![r] = Nothing]
         ELSE \E i \in LinesOf(s) :
                seen' = [seen EXCEPT ![r] = [id |-> i, qty |-> lines[i].qty]]
      /\ Goto(r, "write")
      /\ UNCHANGED <<cartVars, lineVars>>

Put(i, s, quantity) ==
  lines' = [j \in DOMAIN lines \cup {i} |->
              IF j = i THEN [sku |-> s, qty |-> quantity] ELSE lines[j]]

(* A line that was removed in between cannot be updated.                   *)
WriteLine(r) ==
  LET s == SkuOf[r]
      i == seen[r].id
  IN  /\ pc[r] = "write"
      /\ IF i = None
         THEN Put(nextId, s, Qty[r]) /\ nextId' = nextId + 1
         ELSE /\ IF i \in DOMAIN lines
                 THEN Put(i, s, seen[r].qty + Qty[r])
                 ELSE UNCHANGED lines
              /\ UNCHANGED nextId
      /\ IF i = None \/ i \in DOMAIN lines
         THEN owed' = [owed EXCEPT ![s] = @ + Qty[r]] /\ Goto(r, "done")
         ELSE UNCHANGED owed /\ Goto(r, "rejected")
      /\ advisory' = [advisory EXCEPT ![s] = None]
      /\ UNCHANGED <<cartVars, covered, seen>>

-----------------------------------------------------------------------------
(* updateLine and removeLine: the line by its id, which the page showed.   *)
FindOwnLine(r) ==
  /\ pc[r] = "own"
  /\ \E i \in 1..(nextId - 1) :
       IF i \in DOMAIN lines /\ (Op[r] = "set" => Available[lines[i].sku] >= Qty[r])
       THEN seen' = [seen EXCEPT ![r].id = i] /\ Goto(r, Op[r])
       ELSE UNCHANGED seen /\ Goto(r, "rejected")
  /\ UNCHANGED <<cartVars, lineVars, advisory>>

SetLine(r) ==
  LET i == seen[r].id
  IN  /\ pc[r] = "set"
      /\ IF i \in DOMAIN lines
         THEN LET s == lines[i].sku
              IN  /\ Put(i, s, Qty[r])
                  /\ owed' = [owed EXCEPT ![s] = Qty[r]]
                  /\ covered' = IF LineFree(s) THEN covered ELSE covered \cup {s}
                  /\ Goto(r, "done")
         ELSE UNCHANGED <<lines, owed, covered>> /\ Goto(r, "rejected")
      /\ UNCHANGED <<cartVars, nextId, advisory, seen>>

RemoveLine(r) ==
  LET i == seen[r].id
  IN  /\ pc[r] = "remove"
      /\ IF i \in DOMAIN lines
         THEN /\ lines' = [j \in DOMAIN lines \ {i} |-> lines[j]]
              /\ owed' = [owed EXCEPT ![lines[i].sku] = @ - lines[i].qty]
              /\ Goto(r, "done")
         ELSE UNCHANGED <<lines, owed>> /\ Goto(r, "rejected")
      /\ UNCHANGED <<cartVars, nextId, covered, advisory, seen>>

-----------------------------------------------------------------------------
(* share: the token of the cart, or a new one.                             *)
ReadToken(r) ==
  /\ pc[r] = "share"
  /\ seen' = [seen EXCEPT ![r].id = shareToken]
  /\ Goto(r, "link")
  /\ UNCHANGED <<cartVars, lineVars, advisory>>

WriteToken(r) ==
  LET token == IF seen[r].id = None THEN r ELSE seen[r].id
  IN  /\ pc[r] = "link"
      /\ shareToken' = token
      /\ Goto(r, "done")
      /\ UNCHANGED <<cart, lineVars, advisory, seen>>

(* An order: the transaction of module Checkout.                           *)
Convert ==
  /\ cart = "ACTIVE"
  /\ DOMAIN lines # {}
  /\ cart' = "CONVERTED"
  /\ UNCHANGED <<shareToken, lineVars, advisory, pc, seen>>

Statement(r) ==
  \/ FindCart(r) \/ CreateCart(r) \/ WipeLines(r) \/ ResetCart(r) \/ FollowLink(r)
  \/ FindLine(r) \/ WriteLine(r)
  \/ FindOwnLine(r) \/ SetLine(r) \/ RemoveLine(r)
  \/ ReadToken(r) \/ WriteToken(r)

(* Every request was answered; nobody has a link to follow.                *)
Rest ==
  /\ \A r \in Request : pc[r] \in {"done", "rejected"} \/ (pc[r] = "resolve" /\ Op[r] = "follow")
  /\ UNCHANGED vars

Next == Convert \/ (\E r \in Request : Statement(r)) \/ Rest

Spec == Init /\ [][Next]_vars

-----------------------------------------------------------------------------
TypeOK ==
  /\ cart \in {None, "ACTIVE", "CONVERTED"}
  /\ shareToken \in Request \cup {None}
  /\ covered \subseteq Sku
  /\ nextId \in Nat \ {0}
  /\ DOMAIN lines \subseteq 1..(nextId - 1)
  /\ \A i \in DOMAIN lines : lines[i] \in [sku: Sku, qty: Nat \ {0}]
  /\ owed \in [Sku -> Int]
  /\ cart = None => lines = <<>> /\ shareToken = None
  /\ advisory \in [Sku -> Request \cup {None}]
  /\ pc \in [Request -> {"resolve", "create", "wipe", "reset", "add", "write", "own",
                         "set", "remove", "share", "link", "done", "rejected"}]
  /\ seen \in [Request -> [id: Nat \cup Request \cup {None}, qty: Nat]]

(* A product is in the cart once, however many requests add it at the same *)
(* time and whatever is removed or emptied meanwhile.                      *)
OneLinePerProduct == \A s \in Sku : Cardinality(LinesOf(s)) <= 1

(* The adds of a product that were acknowledged, less what was removed,    *)
(* are what the cart holds of it: none is lost, none counts twice. (Except *)
(* where updateLine, which does not take the lock, writes between the two  *)
(* statements of an add: the add then covers the quantity typed in.)       *)
AddsAddUp ==
  \A s \in Sku \ covered :
    /\ LinesOf(s) = {} => owed[s] = 0
    /\ \A i \in LinesOf(s) : lines[i].qty = owed[s]
=============================================================================

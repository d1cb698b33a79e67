------------------------------ MODULE GiftList ------------------------------
(***************************************************************************)
(* The birthday list of a child: its owner adds and removes gifts, the     *)
(* guests of its link reserve them. Each works on the page he loaded, of   *)
(* any age; a reservation is one conditional update.                       *)
(***************************************************************************)
EXTENDS Naturals, FiniteSets

CONSTANTS
  Guest,    \* browsers with the link, named by their x-cart-token
  Product,
  MaxItems, \* bound: gifts put on the list
  MaxLost,  \* bound: answers that get lost
  None      \* nobody

GiftListAssumption == None \notin Guest /\ MaxItems \in Nat

VARIABLES
  items,     \* BirthdayListItem, by id: [product, by]
  nextItem,
  ownerSees, \* the gifts the owner's page shows as free
  guestSees, \* the gifts a guest's page shows as free
  asks,      \* reservations under way: [guest, item, is]
  told,      \* history: the gifts a guest was told he reserved
  lost       \* history: the items an answer about which was lost

vars == <<items, nextItem, ownerSees, guestSees, asks, told, lost>>

FreeItems == {i \in DOMAIN items : items[i].by = None}

Init ==
  /\ items = <<>> /\ nextItem = 1
  /\ ownerSees = {}
  /\ guestSees = [g \in Guest |-> {}]
  /\ asks = {}
  /\ told = [g \in Guest |-> {}]
  /\ lost = {}

-----------------------------------------------------------------------------
(* The owner. A product may be put on the list again.                      *)
addItem(p) ==
  /\ nextItem <= MaxItems
  /\ items' = [i \in DOMAIN items \cup {nextItem} |->
                 IF i = nextItem THEN [product |-> p, by |-> None] ELSE items[i]]
  /\ nextItem' = nextItem + 1
  /\ UNCHANGED <<ownerSees, guestSees, asks, told, lost>>

(* The page offers it for free gifts; the API removes any.                 *)
removeItem(i) ==
  /\ i \in ownerSees \cap DOMAIN items
  /\ items' = [j \in DOMAIN items \ {i} |-> items[j]]
  /\ UNCHANGED <<nextItem, ownerSees, guestSees, asks, told, lost>>

listMine ==
  /\ ownerSees' = FreeItems
  /\ UNCHANGED <<items, nextItem, guestSees, asks, told, lost>>

-----------------------------------------------------------------------------
(* A guest.                                                                *)
getShared(g) ==
  /\ guestSees' = [guestSees EXCEPT ![g] = FreeItems]
  /\ UNCHANGED <<items, nextItem, ownerSees, asks, told, lost>>

(* The button of the gift is disabled until its answer.                    *)
handleReserve(g, i) ==
  /\ i \in guestSees[g]
  /\ \A a \in asks : a.guest # g \/ a.item # i
  /\ asks' = asks \cup {[guest |-> g, item |-> i, is |-> "sent"]}
  /\ UNCHANGED <<items, nextItem, ownerSees, guestSees, told, lost>>

(* The list was read, and the gift was free then.                          *)
MutReservable(i) == i \in DOMAIN items

(* The condition of updateMany.                                            *)
Reservable(i) == i \in FreeItems

Move(a, to) == asks' = (asks \ {a}) \cup {[a EXCEPT !.is = to]}

reserveItem(a) ==
  /\ a.is = "sent"
  /\ IF Reservable(a.item)
     THEN items' = [items EXCEPT ![a.item].by = a.guest] /\ Move(a, "reserved")
     ELSE UNCHANGED items /\ Move(a, "refused")
  /\ UNCHANGED <<nextItem, ownerSees, guestSees, told, lost>>

(* The answer: the list as it is now, or the page shows the error alone.   *)
Answer(a) ==
  /\ a.is # "sent"
  /\ asks' = asks \ {a}
  /\ told' = IF a.is = "reserved" THEN [told EXCEPT ![a.guest] = @ \cup {a.item}] ELSE told
  /\ guestSees' = [guestSees EXCEPT ![a.guest] = IF a.is = "reserved" THEN FreeItems ELSE {}]
  /\ UNCHANGED <<items, nextItem, ownerSees, lost>>

LoseAnswer(a) ==
  /\ Cardinality(lost) < MaxLost
  /\ lost' = lost \cup {a.item}
  /\ asks' = asks \ {a}
  /\ guestSees' = [guestSees EXCEPT ![a.guest] = {}]
  /\ UNCHANGED <<items, nextItem, ownerSees, told>>

Next ==
  \/ \E p \in Product : addItem(p)
  \/ \E i \in ownerSees : removeItem(i)
  \/ listMine
  \/ \E g \in Guest : getShared(g) \/ \E i \in guestSees[g] : handleReserve(g, i)
  \/ \E a \in asks : reserveItem(a) \/ Answer(a) \/ LoseAnswer(a)

Spec == Init /\ [][Next]_vars

-----------------------------------------------------------------------------
TypeOK ==
  /\ nextItem \in 1 .. MaxItems + 1
  /\ DOMAIN items \subseteq 1 .. nextItem - 1
  /\ items \in [DOMAIN items -> [product : Product, by : Guest \cup {None}]]
  /\ ownerSees \subseteq 1 .. nextItem - 1
  /\ guestSees \in [Guest -> SUBSET (1 .. nextItem - 1)]
  /\ asks \subseteq [guest : Guest, item : 1 .. nextItem - 1, is : {"sent", "reserved", "refused"}]
  /\ told \in [Guest -> SUBSET (1 .. nextItem - 1)]

(* reserveItem: two guests are never told that they reserved one gift, a   *)
(* gift of the list stays with the guest who was told so, and one that is  *)
(* reserved for a guest whose answer came was promised by him: nothing     *)
(* blocks a gift nobody brings.                                            *)
PromiseKept ==
  /\ \A g, h \in Guest : g # h => told[g] \cap told[h] = {}
  /\ \A i \in DOMAIN items :
       LET g == items[i].by
       IN  /\ \A h \in Guest : i \in told[h] => g = h
           /\ g # None => \/ i \in told[g] \cup lost
                          \/ [guest |-> g, item |-> i, is |-> "reserved"] \in asks
=============================================================================

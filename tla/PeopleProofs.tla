---------------------------- MODULE PeopleProofs ----------------------------
(***************************************************************************)
(* Proofs about People, for every value of its constants. The sessions and *)
(* the team come with the inductive invariants of their own modules of     *)
(* proofs; those of the birthday lists, the favourites, the lines of a     *)
(* cart and the customer records are here. At the end, what is proved of   *)
(* each part is proved of the whole.                                       *)
(***************************************************************************)
EXTENDS People, Sequences, TLAPS, FiniteSetTheorems

-----------------------------------------------------------------------------
(* Birthday lists, for any guests, gifts and lost answers.                 *)

(* What a guest was told, or is about to be told, that he reserved.        *)
Claims(g) == told[g] \cup {i \in 1 .. nextItem - 1 :
                             [guest |-> g, item |-> i, is |-> "reserved"] \in asks}

(* A claimed gift, as long as it is on the list, stays with the one who    *)
(* claimed it; two guests never claim one gift, on the list or removed     *)
(* from it; and a gift of the list is reserved for a guest who claims it,  *)
(* unless his answer was lost.                                             *)
ClaimInv ==
  /\ \A g, h \in Guest : g # h => Claims(g) \cap Claims(h) = {}
  /\ \A g \in Guest : \A i \in Claims(g) \cap DOMAIN items : items[i].by = g
  /\ \A g \in Guest : \A i \in DOMAIN items :
       items[i].by = g => i \in Claims(g) \cup lost

BirthdayInv == Birthday!TypeOK /\ ClaimInv

LEMMA ClaimsArePromises ==
  ASSUME Birthday!TypeOK, ClaimInv
  PROVE  Birthday!PromiseKept
  <1>1. \A g, h \in Guest : g # h => told[g] \cap told[h] = {}
    BY DEF ClaimInv, Claims
  <1>2. ASSUME NEW i \in DOMAIN items, NEW h \in Guest, i \in told[h]
        PROVE  items[i].by = h
    BY <1>2 DEF ClaimInv, Claims
  <1>3. ASSUME NEW i \in DOMAIN items, items[i].by # None
        PROVE  \/ i \in told[items[i].by] \cup lost
               \/ [guest |-> items[i].by, item |-> i, is |-> "reserved"] \in asks
    <2>1. items[i].by \in Guest
      BY <1>3 DEF Birthday!TypeOK
    <2>2. i \in Claims(items[i].by) \cup lost
      BY <2>1 DEF ClaimInv
    <2> QED
      BY <2>2 DEF Claims
  <1> QED
    BY <1>1, <1>2, <1>3 DEF Birthday!PromiseKept
-----------------------------------------------------------------------------
(* The type invariant.                                                     *)
Ask(n) == [guest : Guest, item : 1 .. n - 1, is : {"sent", "reserved", "refused"}]

LEMMA FreeItemsType == Birthday!TypeOK => Birthday!FreeItems \subseteq 1 .. nextItem - 1
  BY DEF Birthday!TypeOK, Birthday!FreeItems

LEMMA BirthdayTypeStep ==
  ASSUME Birthday!GiftListAssumption, Birthday!TypeOK, [Birthday!Next]_(Birthday!vars)
  PROVE  Birthday!TypeOK'
  <1>0. nextItem \in Nat /\ Birthday!FreeItems \subseteq 1 .. nextItem - 1
    BY FreeItemsType DEF Birthday!TypeOK, Birthday!GiftListAssumption
  <1>1. ASSUME NEW p \in Product, Birthday!addItem(p) PROVE Birthday!TypeOK'
    <2>1. nextItem' = nextItem + 1 /\ nextItem' \in 1 .. MaxItems + 1
      BY <1>0, <1>1 DEF Birthday!addItem, Birthday!GiftListAssumption
    <2>2. 1 .. nextItem' - 1 = (1 .. nextItem - 1) \cup {nextItem}
      BY <1>0, <2>1 DEF Birthday!TypeOK, Birthday!GiftListAssumption
    <2>3. /\ DOMAIN items' \subseteq 1 .. nextItem' - 1
          /\ items' \in [DOMAIN items' -> [product : Product, by : Guest \cup {None}]]
      BY <1>1, <2>2 DEF Birthday!addItem, Birthday!TypeOK
    <2> QED
      BY <1>1, <2>1, <2>2, <2>3 DEF Birthday!addItem, Birthday!TypeOK
  <1>2. ASSUME NEW i \in ownerSees, Birthday!removeItem(i) PROVE Birthday!TypeOK'
    BY <1>2 DEF Birthday!removeItem, Birthday!TypeOK
  <1>3. CASE Birthday!listMine
    BY <1>0, <1>3 DEF Birthday!listMine, Birthday!TypeOK
  <1>4. ASSUME NEW g \in Guest, Birthday!getShared(g) PROVE Birthday!TypeOK'
    BY <1>0, <1>4 DEF Birthday!getShared, Birthday!TypeOK
  <1>5. ASSUME NEW g \in Guest, NEW i \in guestSees[g], Birthday!handleReserve(g, i) PROVE Birthday!TypeOK'
    <2>1. [guest |-> g, item |-> i, is |-> "sent"] \in Ask(nextItem)
      BY DEF Birthday!TypeOK, Ask
    <2> QED
      BY <1>5, <2>1 DEF Birthday!handleReserve, Birthday!TypeOK, Ask
  <1>6. ASSUME NEW a \in asks, Birthday!reserveItem(a) PROVE Birthday!TypeOK'
    <2>1. a \in Ask(nextItem)
      BY DEF Birthday!TypeOK, Ask
    <2>2. ASSUME NEW to \in {"reserved", "refused"}, Birthday!Move(a, to)
          PROVE  asks' \subseteq Ask(nextItem)
      BY <2>1, <2>2 DEF Birthday!Move, Birthday!TypeOK, Ask
    <2>3. /\ asks' \subseteq Ask(nextItem)
          /\ items' = items \/ items' = [items EXCEPT ![a.item].by = a.guest]
      BY <1>6, <2>2 DEF Birthday!reserveItem
    <2>4. /\ DOMAIN items' = DOMAIN items
          /\ items' \in [DOMAIN items' -> [product : Product, by : Guest \cup {None}]]
      BY <2>1, <2>3 DEF Birthday!TypeOK, Ask
    <2> QED
      BY <1>6, <2>3, <2>4 DEF Birthday!reserveItem, Birthday!TypeOK, Ask
  <1>7. ASSUME NEW a \in asks, Birthday!Answer(a) \/ Birthday!LoseAnswer(a) PROVE Birthday!TypeOK'
    <2>1. a \in Ask(nextItem)
      BY DEF Birthday!TypeOK, Ask
    <2>2. /\ asks' \subseteq Ask(nextItem) /\ UNCHANGED <<items, nextItem, ownerSees>>
          /\ guestSees' \in [Guest -> SUBSET (1 .. nextItem - 1)]
      BY <1>0, <1>7 DEF Birthday!Answer, Birthday!LoseAnswer, Birthday!TypeOK, Ask
    <2>3. told' \in [Guest -> SUBSET (1 .. nextItem - 1)]
      BY <1>7, <2>1 DEF Birthday!Answer, Birthday!LoseAnswer, Birthday!TypeOK, Ask
    <2> QED
      BY <2>2, <2>3 DEF Birthday!TypeOK, Ask
  <1>8. CASE UNCHANGED Birthday!vars
    BY <1>8 DEF Birthday!vars, Birthday!TypeOK
  <1> QED
    BY <1>1, <1>2, <1>3, <1>4, <1>5, <1>6, <1>7, <1>8 DEF Birthday!Next

-----------------------------------------------------------------------------
(* The claims.                                                             *)

(* A step that leaves the list, and every claim on it but those whose      *)
(* answer is lost.                                                         *)
LEMMA ClaimsKept ==
  ASSUME ClaimInv, UNCHANGED items, lost \subseteq lost',
         \A g \in Guest : /\ Claims(g)' \subseteq Claims(g)
                          /\ Claims(g) \subseteq Claims(g)' \cup lost'
  PROVE  ClaimInv'
  <1>2. \A g, h \in Guest : g # h => Claims(g)' \cap Claims(h)' = {}
    BY DEF ClaimInv
  <1>3. \A g \in Guest : \A i \in Claims(g)' \cap DOMAIN items' : items'[i].by = g
    BY DEF ClaimInv
  <1>4. \A g \in Guest : \A i \in DOMAIN items' :
          items'[i].by = g => i \in Claims(g)' \cup lost'
    BY DEF ClaimInv
  <1> QED
    BY <1>2, <1>3, <1>4 DEF ClaimInv

LEMMA ClaimStep ==
  ASSUME Birthday!GiftListAssumption, Birthday!TypeOK, ClaimInv, [Birthday!Next]_(Birthday!vars)
  PROVE  ClaimInv'
  <1>0. nextItem \in Nat
    BY DEF Birthday!TypeOK, Birthday!GiftListAssumption
  <1>1. ASSUME NEW p \in Product, Birthday!addItem(p) PROVE ClaimInv'
    <2>1. nextItem' = nextItem + 1 /\ UNCHANGED <<asks, told, lost>>
      BY <1>1 DEF Birthday!addItem
    <2>2. \A g \in Guest : nextItem \notin Claims(g) /\ Claims(g)' = Claims(g)
      <3> TAKE g \in Guest
      <3>1. \A i : [guest |-> g, item |-> i, is |-> "reserved"] \in asks => i \in 1 .. nextItem - 1
        BY DEF Birthday!TypeOK
      <3>2. 1 .. nextItem' - 1 = (1 .. nextItem - 1) \cup {nextItem} /\ nextItem \notin 1 .. nextItem - 1
        BY <1>0, <2>1 DEF Birthday!TypeOK
      <3>3. told[g] \subseteq 1 .. nextItem - 1
        BY DEF Birthday!TypeOK
      <3> QED
        BY <2>1, <3>1, <3>2, <3>3 DEF Claims
    <2>3. /\ DOMAIN items' = DOMAIN items \cup {nextItem} /\ items'[nextItem].by = None
          /\ \A i \in DOMAIN items : i # nextItem => items'[i] = items[i]
      BY <1>1 DEF Birthday!addItem
    <2>4. \A g \in Guest : \A i \in Claims(g)' \cap DOMAIN items' : items'[i].by = g
      BY <2>2, <2>3 DEF ClaimInv
    <2>5. ASSUME NEW g \in Guest, NEW i \in DOMAIN items', items'[i].by = g
          PROVE  i \in Claims(g)' \cup lost'
      <3>1. i \in DOMAIN items /\ items'[i] = items[i]
        BY <2>3, <2>5, <1>0 DEF Birthday!GiftListAssumption, Birthday!TypeOK
      <3> QED
        BY <2>1, <2>2, <2>5, <3>1 DEF ClaimInv
    <2> QED
      BY <2>2, <2>4, <2>5 DEF ClaimInv
  <1>2. ASSUME NEW i \in ownerSees, Birthday!removeItem(i) PROVE ClaimInv'
    <2>1. /\ DOMAIN items' = DOMAIN items \ {i} /\ \A j \in DOMAIN items' : items'[j] = items[j]
          /\ UNCHANGED <<nextItem, asks, told, lost>>
      BY <1>2 DEF Birthday!removeItem
    <2>2. \A g : Claims(g)' = Claims(g)
      BY <2>1 DEF Claims
    <2> QED
      BY <2>1, <2>2 DEF ClaimInv
  <1>3. CASE UNCHANGED <<items, nextItem, asks, told, lost>>
    <2>1. \A g : Claims(g)' = Claims(g)
      BY <1>3 DEF Claims
    <2> QED
      BY <1>3, <2>1, ClaimsKept
  <1>4. ASSUME NEW g \in Guest, NEW i \in guestSees[g], Birthday!handleReserve(g, i) PROVE ClaimInv'
    <2>1. \A h, j : [guest |-> h, item |-> j, is |-> "reserved"] \in asks'
                      <=> [guest |-> h, item |-> j, is |-> "reserved"] \in asks
      BY <1>4 DEF Birthday!handleReserve
    <2>2. UNCHANGED <<items, nextItem, told, lost>>
      BY <1>4 DEF Birthday!handleReserve
    <2>3. \A h : Claims(h)' = Claims(h)
      BY <2>1, <2>2 DEF Claims
    <2> QED
      BY <2>2, <2>3, ClaimsKept
  <1>5. ASSUME NEW a \in asks, Birthday!reserveItem(a) PROVE ClaimInv'
    <2>1. /\ a \in Ask(nextItem) /\ a.is = "sent" /\ UNCHANGED <<nextItem, told, lost>>
          /\ a.guest \in Guest /\ a.item \in 1 .. nextItem - 1
      BY <1>5 DEF Birthday!reserveItem, Birthday!TypeOK, Ask
    <2>2. ASSUME NEW h, NEW j, NEW to, Birthday!Move(a, to)
          PROVE  [guest |-> h, item |-> j, is |-> "reserved"] \in asks'
                   <=> \/ [guest |-> h, item |-> j, is |-> "reserved"] \in asks
                       \/ to = "reserved" /\ h = a.guest /\ j = a.item
      BY <2>1, <2>2 DEF Birthday!Move, Ask
    <2>3. CASE Birthday!Reservable(a.item)
      <3>1. /\ a.item \in DOMAIN items /\ items[a.item].by = None
            /\ items' = [items EXCEPT ![a.item].by = a.guest] /\ Birthday!Move(a, "reserved")
        BY <1>5, <2>3 DEF Birthday!reserveItem, Birthday!Reservable, Birthday!FreeItems
      <3>2. /\ DOMAIN items' = DOMAIN items /\ items'[a.item].by = a.guest
            /\ \A j \in DOMAIN items : j # a.item => items'[j] = items[j]
        BY <3>1 DEF Birthday!TypeOK
      <3>3. \A h \in Guest : a.item \notin Claims(h)
        BY <3>1 DEF ClaimInv, Birthday!GiftListAssumption
      <3>4. \A h \in Guest : Claims(h)' = IF h = a.guest THEN Claims(h) \cup {a.item} ELSE Claims(h)
        BY <2>1, <2>2, <3>1 DEF Claims
      <3>5. \A g, h \in Guest : g # h => Claims(g)' \cap Claims(h)' = {}
        BY <3>3, <3>4 DEF ClaimInv
      <3>6. \A g \in Guest : \A i \in Claims(g)' \cap DOMAIN items' : items'[i].by = g
        BY <3>2, <3>3, <3>4 DEF ClaimInv
      <3>7. ASSUME NEW g \in Guest, NEW i \in DOMAIN items', items'[i].by = g
            PROVE  i \in Claims(g)' \cup lost'
        <4>1. CASE i = a.item
          BY <2>1, <3>2, <3>4, <3>7, <4>1
        <4>2. CASE i # a.item
          BY <2>1, <3>2, <3>4, <3>7, <4>2 DEF ClaimInv
        <4> QED
          BY <4>1, <4>2
      <3> QED
        BY <3>5, <3>6, <3>7 DEF ClaimInv
    <2>4. CASE ~Birthday!Reservable(a.item)
      <3>1. UNCHANGED items /\ Birthday!Move(a, "refused")
        BY <1>5, <2>4 DEF Birthday!reserveItem
      <3>2. \A h \in Guest : Claims(h)' = Claims(h)
        BY <2>1, <2>2, <3>1 DEF Claims
      <3> QED
        BY <2>1, <3>1, <3>2, ClaimsKept
    <2> QED
      BY <2>3, <2>4
  <1>6. ASSUME NEW a \in asks, Birthday!Answer(a) PROVE ClaimInv'
    <2>1. /\ a \in Ask(nextItem) /\ a.is # "sent" /\ UNCHANGED <<items, nextItem, lost>>
          /\ a.guest \in Guest /\ a.item \in 1 .. nextItem - 1
          /\ asks' = asks \ {a}
          /\ told' = IF a.is = "reserved" THEN [told EXCEPT ![a.guest] = @ \cup {a.item}] ELSE told
      BY <1>6 DEF Birthday!Answer, Birthday!TypeOK, Ask
    <2>2. a = [guest |-> a.guest, item |-> a.item, is |-> a.is]
      BY <2>1 DEF Ask
    <2>3. ASSUME NEW h \in Guest PROVE Claims(h)' = Claims(h)
      <3>1. CASE a.is = "reserved" /\ h = a.guest
        <4>1. told'[h] = told[h] \cup {a.item}
          BY <2>1, <3>1 DEF Birthday!TypeOK
        <4>2. \A i : [guest |-> h, item |-> i, is |-> "reserved"] = a <=> i = a.item
          BY <2>2, <3>1
        <4> QED
          BY <2>1, <2>2, <3>1, <4>1, <4>2 DEF Claims
      <3>2. CASE ~(a.is = "reserved" /\ h = a.guest)
        <4>1. told'[h] = told[h]
          BY <2>1, <3>2 DEF Birthday!TypeOK
        <4>2. \A i : [guest |-> h, item |-> i, is |-> "reserved"] # a
          BY <2>2, <3>2
        <4> QED
          BY <2>1, <4>1, <4>2 DEF Claims
      <3> QED
        BY <3>1, <3>2
    <2> QED
      BY <2>1, <2>3, ClaimsKept
  <1>7. ASSUME NEW a \in asks, Birthday!LoseAnswer(a) PROVE ClaimInv'
    <2>1. /\ UNCHANGED <<items, nextItem, told>> /\ asks' = asks \ {a}
          /\ lost' = lost \cup {a.item}
      BY <1>7 DEF Birthday!LoseAnswer
    <2>2. \A h \in Guest : Claims(h)' \subseteq Claims(h) /\ Claims(h) \subseteq Claims(h)' \cup lost'
      BY <2>1 DEF Claims
    <2> QED
      BY <2>1, <2>2, ClaimsKept
  <1>8. CASE Birthday!listMine \/ (\E g \in Guest : Birthday!getShared(g)) \/ UNCHANGED Birthday!vars
    <2>1. UNCHANGED <<items, nextItem, asks, told, lost>>
      BY <1>8 DEF Birthday!listMine, Birthday!getShared, Birthday!vars
    <2> QED
      BY <1>3, <2>1
  <1> QED
    BY <1>1, <1>2, <1>4, <1>5, <1>6, <1>7, <1>8 DEF Birthday!Next
-----------------------------------------------------------------------------
LEMMA BirthdayInit == Birthday!GiftListAssumption /\ Birthday!Init => BirthdayInv
  <1> SUFFICES ASSUME Birthday!GiftListAssumption, Birthday!Init PROVE BirthdayInv
    OBVIOUS
  <1>1. DOMAIN items = {} /\ \A g \in Guest : told[g] = {}
    BY DEF Birthday!Init
  <1>2. Birthday!TypeOK
    BY <1>1 DEF Birthday!Init, Birthday!TypeOK, Birthday!GiftListAssumption
  <1>3. \A g \in Guest : Claims(g) = {}
    BY <1>1 DEF Birthday!Init, Claims
  <1> QED
    BY <1>1, <1>2, <1>3 DEF BirthdayInv, ClaimInv

LEMMA BirthdayNext == Birthday!GiftListAssumption /\ BirthdayInv /\ [Birthday!Next]_(Birthday!vars) => BirthdayInv'
  BY BirthdayTypeStep, ClaimStep DEF BirthdayInv

-----------------------------------------------------------------------------
(* Favourites, for any products, hearts and tabs.                          *)

(* The hearts that have still to post a product.                           *)
Pending(p) == {h \in Heart : p \in todo[h]}

(* The posts of a product that the logins so far still allow: those made,  *)
(* those a heart is about to make, and the one that takes it from the      *)
(* guest's list.                                                           *)
Posts(p) == posts[p] + Cardinality(Pending(p)) + (IF loggedIn /\ p \in guest THEN 1 ELSE 0)
PostsInv == \A p \in Product : Posts(p) <= logins

FavouriteInv == Favourite!TypeOK /\ Favourite!NoFavouriteLost /\ PostsInv

LEMMA FinitePending ==
  ASSUME Favourite!FavouritesAssumption, NEW p
  PROVE  IsFiniteSet(Pending(p)) /\ Cardinality(Pending(p)) \in Nat
  <1>1. IsFiniteSet(Heart)
    BY DEF Favourite!FavouritesAssumption, Favourite!IsFiniteSet, IsFiniteSet
  <1>2. Pending(p) \subseteq Heart
    BY DEF Pending
  <1> QED
    BY <1>1, <1>2, FS_Subset, FS_CardinalityType

LEMMA PostedOnce ==
  ASSUME Favourite!FavouritesAssumption, FavouriteInv
  PROVE  Favourite!NoFavouriteLost /\ Favourite!MergedOnce
  <1>1. ASSUME NEW p \in Product PROVE posts[p] <= logins
    <2>1. posts[p] \in Nat /\ logins \in Nat
      BY DEF FavouriteInv, Favourite!TypeOK
    <2>2. Posts(p) <= logins
      BY DEF FavouriteInv, PostsInv
    <2> QED
      BY <2>1, <2>2, FinitePending DEF Posts
  <1> QED
    BY <1>1 DEF FavouriteInv, Favourite!MergedOnce

LEMMA FavouriteInit == Favourite!FavouritesAssumption /\ Favourite!Init => FavouriteInv
  <1> SUFFICES ASSUME Favourite!FavouritesAssumption, Favourite!Init PROVE FavouriteInv
    OBVIOUS
  <1>1. Favourite!TypeOK /\ Favourite!NoFavouriteLost
    BY DEF Favourite!Init, Favourite!TypeOK, Favourite!NoFavouriteLost
  <1>2. ASSUME NEW p \in Product PROVE Posts(p) <= logins
    <2>1. Pending(p) = {}
      BY DEF Favourite!Init, Pending
    <2> QED
      BY <2>1, FS_EmptySet DEF Favourite!Init, Posts
  <1> QED
    BY <1>1, <1>2 DEF FavouriteInv, PostsInv

LEMMA FavouriteTypeStep ==
  ASSUME Favourite!FavouritesAssumption, Favourite!TypeOK, [Favourite!Next]_(Favourite!vars)
  PROVE  Favourite!TypeOK'
  <1> USE DEF Favourite!TypeOK, Favourite!shown, Favourite!ghost
  <1>1. CASE Favourite!Login \/ Favourite!Logout
    <2>1. /\ loggedIn' \in BOOLEAN
          /\ UNCHANGED <<guest, saved, flag, rendered, hearts, todo, toggles, posts, wanted, failed>>
          /\ logins' = logins \/ logins' = logins + 1
      BY <1>1 DEF Favourite!Login, Favourite!Logout
    <2>2. logins' \in Nat
      BY <2>1
    <2> QED
      BY <2>1, <2>2
  <1>2. ASSUME NEW h \in Heart, Favourite!MergeEffect(h) PROVE Favourite!TypeOK'
    <2>1. /\ rendered' \in [Heart -> {"unknown", "in", "out"}]
          /\ UNCHANGED <<loggedIn, saved, toggles, logins, posts, wanted, failed>>
      BY <1>2 DEF Favourite!MergeEffect
    <2>2. TabOf[h] \in Tab /\ hearts' \in [Heart -> SUBSET Product]
      BY <1>2 DEF Favourite!MergeEffect, Favourite!Show, Favourite!FavouritesAssumption
    <2>3. flag' = flag \/ flag' = [flag EXCEPT ![TabOf[h]] = TRUE]
      BY <1>2 DEF Favourite!MergeEffect
    <2>4. guest' \subseteq Product
      BY <1>2 DEF Favourite!MergeEffect, Favourite!Erase
    <2>5. todo' \in [Heart -> SUBSET Product]
      BY <1>2 DEF Favourite!MergeEffect
    <2>6. flag' \in [Tab -> BOOLEAN]
      BY <2>2, <2>3
    <2> QED
      BY <2>1, <2>2, <2>4, <2>5, <2>6
  <1>3. ASSUME NEW h \in Heart, Favourite!GuestEffect(h) PROVE Favourite!TypeOK'
    BY <1>3 DEF Favourite!GuestEffect, Favourite!Show, Favourite!FavouritesAssumption
  <1>4. ASSUME NEW h \in Heart, Favourite!Post(h) PROVE Favourite!TypeOK'
    <2>1. PICK p \in todo[h] :
            /\ todo' = [todo EXCEPT ![h] = @ \ {p}]
            /\ posts' = [posts EXCEPT ![p] = @ + 1]
            /\ saved' = saved \cup {p} \/ saved' = saved
            /\ failed' = TRUE \/ failed' = failed
            /\ UNCHANGED <<loggedIn, guest, flag, rendered, hearts, toggles, logins, wanted>>
      BY <1>4 DEF Favourite!Post, Favourite!Save
    <2>2. p \in Product
      OBVIOUS
    <2>3. todo' \in [Heart -> SUBSET Product] /\ saved' \subseteq Product
      BY <2>1, <2>2
    <2>4. posts' \in [Product -> Nat]
      BY <2>1, <2>2
    <2>5. failed' \in BOOLEAN
      BY <2>1
    <2> QED
      BY <2>1, <2>3, <2>4, <2>5
  <1>5. ASSUME NEW h \in Heart, Favourite!Refresh(h) PROVE Favourite!TypeOK'
    BY <1>5 DEF Favourite!Refresh, Favourite!Show
  <1>6. ASSUME NEW h \in Heart, NEW p \in Product, Favourite!ToggleGuest(h, p) PROVE Favourite!TypeOK'
    BY <1>6 DEF Favourite!ToggleGuest, Favourite!ShowAll, Favourite!Want
  <1>7. ASSUME NEW h \in Heart, NEW p \in Product, Favourite!ToggleSaved(h, p) PROVE Favourite!TypeOK'
    BY <1>7 DEF Favourite!ToggleSaved, Favourite!Show, Favourite!Save, Favourite!Want
  <1>8. ASSUME NEW t \in Tab, Favourite!CloseTab(t) PROVE Favourite!TypeOK'
    BY <1>8 DEF Favourite!CloseTab
  <1>9. CASE UNCHANGED Favourite!vars
    BY <1>9 DEF Favourite!vars
  <1> QED
    BY <1>1, <1>2, <1>3, <1>4, <1>5, <1>6, <1>7, <1>8, <1>9 DEF Favourite!Next, Favourite!Rest

(* A favourite is somewhere: with the guest, with the account, or with the *)
(* heart that is about to post it.                                         *)
Kept == guest \cup saved \cup UNION {todo[h] : h \in Heart}

LEMMA KeptStep ==
  ASSUME Favourite!FavouritesAssumption, Favourite!TypeOK, Favourite!NoFavouriteLost,
         [Favourite!Next]_(Favourite!vars)
  PROVE  Favourite!NoFavouriteLost'
  <1> USE DEF Favourite!shown, Favourite!ghost
  <1> SUFFICES ASSUME ~failed' PROVE wanted' \subseteq Kept'
    BY DEF Favourite!NoFavouriteLost, Kept
  <1>0. \A p : p \in Kept <=> p \in guest \/ p \in saved \/ \E h \in Heart : p \in todo[h]
    BY DEF Kept
  <1>1. ASSUME ~failed PROVE wanted \subseteq Kept
    BY <1>1 DEF Favourite!NoFavouriteLost, Kept
  <1>2. CASE UNCHANGED <<guest, saved, todo, wanted, failed>>
    BY <1>1, <1>2 DEF Kept
  <1>3. ASSUME NEW h \in Heart, Favourite!MergeEffect(h) PROVE wanted' \subseteq Kept'
    <2>1. ~failed /\ UNCHANGED <<saved, wanted>>
      BY <1>3 DEF Favourite!MergeEffect
    <2>2. ASSUME NEW p \in guest PROVE p \in guest' \/ p \in todo'[h]
      BY <1>3, <2>2 DEF Favourite!MergeEffect, Favourite!Show, Favourite!TypeOK
    <2>3. \A k \in Heart : todo[k] \subseteq todo'[k]
      BY <1>3 DEF Favourite!MergeEffect, Favourite!Show, Favourite!TypeOK
    <2>4. ASSUME NEW p \in Kept PROVE p \in Kept'
      BY <1>0, <2>1, <2>2, <2>3, <2>4 DEF Kept
    <2> QED
      BY <1>1, <2>1, <2>4
  <1>4. ASSUME NEW h \in Heart, Favourite!Post(h) PROVE wanted' \subseteq Kept'
    <2>1. PICK q \in todo[h] : /\ todo' = [todo EXCEPT ![h] = @ \ {q}]
                               /\ saved' = saved \cup {q}
                               /\ UNCHANGED <<guest, wanted, failed>>
      BY <1>4 DEF Favourite!Post, Favourite!Save
    <2>2. ASSUME NEW p \in Kept PROVE p \in Kept'
      <3>1. p = q \/ p \in guest \/ p \in saved \/ \E k \in Heart : p # q /\ p \in todo[k]
        BY <1>0, <2>2
      <3>2. \A k \in Heart : p # q /\ p \in todo[k] => p \in todo'[k]
        BY <2>1 DEF Favourite!TypeOK
      <3> QED
        BY <2>1, <3>1, <3>2 DEF Kept
    <2> QED
      BY <1>1, <2>1, <2>2
  <1>5. ASSUME NEW h \in Heart, NEW p \in Product, Favourite!ToggleGuest(h, p) \/ Favourite!ToggleSaved(h, p)
        PROVE  wanted' \subseteq Kept'
    <2>1. /\ todo' = todo /\ failed' = failed
          /\ \/ /\ wanted' = wanted \ {p}
                /\ guest \ {p} \subseteq guest' /\ saved \ {p} \subseteq saved'
             \/ /\ wanted' = wanted \cup {p}
                /\ guest \subseteq guest' /\ saved \subseteq saved' /\ p \in guest' \cup saved'
      BY <1>5 DEF Favourite!ToggleGuest, Favourite!ToggleSaved, Favourite!Want, Favourite!Save
    <2> QED
      BY <1>1, <2>1 DEF Kept
  <1>6. ASSUME NEW t \in Tab, Favourite!CloseTab(t) PROVE FALSE
    BY <1>6 DEF Favourite!CloseTab
  <1>7. CASE Favourite!Login \/ Favourite!Logout \/ Favourite!Rest \/ UNCHANGED Favourite!vars
    BY <1>2, <1>7 DEF Favourite!Login, Favourite!Logout, Favourite!Rest, Favourite!vars
  <1>8. ASSUME NEW h \in Heart, Favourite!GuestEffect(h) \/ Favourite!Refresh(h)
        PROVE  wanted' \subseteq Kept'
    BY <1>2, <1>8 DEF Favourite!GuestEffect, Favourite!Refresh
  <1> QED
    BY <1>3, <1>4, <1>5, <1>6, <1>7, <1>8 DEF Favourite!Next

(* A step after which no more hearts than before have to post p.           *)
LEMMA FewerPending ==
  ASSUME Favourite!FavouritesAssumption, NEW p, Pending(p)' \subseteq Pending(p)
  PROVE  Cardinality(Pending(p)') <= Cardinality(Pending(p))
  BY FinitePending, FS_Subset

LEMMA PostsStep ==
  ASSUME Favourite!FavouritesAssumption, Favourite!TypeOK, PostsInv, [Favourite!Next]_(Favourite!vars)
  PROVE  PostsInv'
  <1> SUFFICES ASSUME NEW p \in Product PROVE Posts(p)' <= logins'
    BY DEF PostsInv
  <1> DEFINE n == Cardinality(Pending(p))
             m == Cardinality(Pending(p)')
             k == IF loggedIn /\ p \in guest THEN 1 ELSE 0
             l == IF loggedIn' /\ p \in guest' THEN 1 ELSE 0
  <1>1. /\ n \in Nat /\ posts[p] \in Nat /\ logins \in Nat /\ posts[p] + n + k <= logins
        /\ Posts(p)' = posts'[p] + m + l
    BY FinitePending DEF Favourite!TypeOK, PostsInv, Posts
  <1>2. m \in Nat
    <2>1. IsFiniteSet(Heart)
      BY DEF Favourite!FavouritesAssumption, Favourite!IsFiniteSet, IsFiniteSet
    <2>2. Pending(p)' \subseteq Heart
      BY DEF Pending
    <2> QED
      BY <2>1, <2>2, FS_Subset, FS_CardinalityType
  <1>3. Pending(p)' \subseteq Pending(p) => m <= n
    BY FewerPending
  <1> HIDE DEF n, m
  <1> SUFFICES posts'[p] + m + l <= logins'
    BY <1>1
  <1> USE DEF Favourite!shown, Favourite!ghost
  <1>4. CASE /\ UNCHANGED <<posts, todo>>
             /\ \/ logins' = logins /\ l <= k
                \/ logins' = logins + 1
    <2>1. Pending(p)' = Pending(p)
      BY <1>4 DEF Pending
    <2> QED
      BY <1>1, <1>2, <1>3, <1>4, <2>1
  <1>5. CASE Favourite!Login \/ Favourite!Logout \/ Favourite!Rest \/ UNCHANGED Favourite!vars
    <2>1. UNCHANGED <<posts, todo, guest>>
      BY <1>5 DEF Favourite!Login, Favourite!Logout, Favourite!Rest, Favourite!vars
    <2>2. \/ logins' = logins /\ (loggedIn' = loggedIn \/ loggedIn' = FALSE)
          \/ logins' = logins + 1
      BY <1>5 DEF Favourite!Login, Favourite!Logout, Favourite!Rest, Favourite!vars
    <2> QED
      BY <1>4, <2>1, <2>2
  <1>6. ASSUME NEW h \in Heart, NEW q \in Product,
               \/ Favourite!GuestEffect(h) \/ Favourite!Refresh(h)
               \/ Favourite!ToggleGuest(h, q) \/ Favourite!ToggleSaved(h, q)
        PROVE  posts'[p] + m + l <= logins'
    <2>1. UNCHANGED <<posts, todo, logins, loggedIn>> /\ (loggedIn => guest' = guest)
      BY <1>6 DEF Favourite!GuestEffect, Favourite!Refresh, Favourite!ToggleGuest, Favourite!ToggleSaved
    <2> QED
      BY <1>4, <2>1
  <1>7. ASSUME NEW h \in Heart, Favourite!MergeEffect(h) PROVE posts'[p] + m + l <= logins'
    <2>1. loggedIn /\ UNCHANGED <<loggedIn, posts, logins>>
      BY <1>7 DEF Favourite!MergeEffect
    <2>2. CASE UNCHANGED <<guest, todo>>
      BY <1>4, <2>1, <2>2
    <2>3. CASE guest' = {} /\ todo' = [todo EXCEPT ![h] = @ \cup guest]
      <3>1. CASE p \notin guest
        <4>1. Pending(p)' \subseteq Pending(p)
          BY <2>3, <3>1 DEF Pending, Favourite!TypeOK
        <4> QED
          BY <1>1, <1>2, <1>3, <2>1, <2>3, <4>1
      <3>2. CASE p \in guest
        <4>1. Pending(p)' \subseteq Pending(p) \cup {h}
          BY <2>3 DEF Pending, Favourite!TypeOK
        <4>2. m <= n + 1
          <5>1. /\ IsFiniteSet(Pending(p) \cup {h})
                /\ Cardinality(Pending(p) \cup {h}) \in {n, n + 1}
            BY FinitePending, FS_AddElement DEF n
          <5>2. m <= Cardinality(Pending(p) \cup {h})
            BY <4>1, <5>1, FS_Subset DEF m
          <5> QED
            BY <1>1, <1>2, <5>1, <5>2
        <4> QED
          BY <1>1, <1>2, <2>1, <2>3, <3>2, <4>2
      <3> QED
        BY <3>1, <3>2
    <2> QED
      BY <1>7, <2>2, <2>3 DEF Favourite!MergeEffect, Favourite!Erase
  <1>8. ASSUME NEW h \in Heart, Favourite!Post(h) PROVE posts'[p] + m + l <= logins'
    <2>1. PICK q \in todo[h] : /\ todo' = [todo EXCEPT ![h] = @ \ {q}]
                               /\ posts' = [posts EXCEPT ![q] = @ + 1]
                               /\ UNCHANGED <<loggedIn, guest, logins>>
      BY <1>8 DEF Favourite!Post
    <2>2. CASE q # p
      <3>1. Pending(p)' \subseteq Pending(p)
        BY <2>1 DEF Pending, Favourite!TypeOK
      <3>2. posts'[p] = posts[p]
        BY <2>1, <2>2 DEF Favourite!TypeOK
      <3> QED
        BY <1>1, <1>2, <1>3, <2>1, <3>1, <3>2
    <2>3. CASE q = p
      <3>1. h \in Pending(p) /\ Pending(p)' = Pending(p) \ {h}
        BY <2>1, <2>3 DEF Pending, Favourite!TypeOK
      <3>2. m = n - 1
        BY <3>1, FinitePending, FS_RemoveElement DEF m, n
      <3>3. posts'[p] = posts[p] + 1
        BY <2>1, <2>3 DEF Favourite!TypeOK
      <3> QED
        BY <1>1, <1>2, <2>1, <3>2, <3>3
    <2> QED
      BY <2>2, <2>3
  <1>9. ASSUME NEW t \in Tab, Favourite!CloseTab(t) PROVE posts'[p] + m + l <= logins'
    <2>1. /\ UNCHANGED <<posts, logins, loggedIn, guest>>
          /\ \A h \in Heart : todo'[h] \subseteq todo[h]
      BY <1>9 DEF Favourite!CloseTab
    <2>2. Pending(p)' \subseteq Pending(p)
      BY <2>1 DEF Pending
    <2> QED
      BY <1>1, <1>2, <1>3, <2>1, <2>2
  <1> QED
    BY <1>5, <1>6, <1>7, <1>8, <1>9 DEF Favourite!Next

LEMMA FavouriteNext ==
  Favourite!FavouritesAssumption /\ FavouriteInv /\ [Favourite!Next]_(Favourite!vars) => FavouriteInv'
  BY FavouriteTypeStep, KeptStep, PostsStep DEF FavouriteInv

-----------------------------------------------------------------------------
(* The lines of a cart, for any products, requests and quantities.         *)

(* Whoever is about to write a line holds the advisory lock of its product.*)
LineLockInv == \A r \in CartRequest : cartPc[r] = "write" => advisory[SkuOf[r]] = r

(* Nobody gets past the cart before there is one; a request keeps to its   *)
(* handler.                                                                *)
LinePathInv ==
  /\ cart = None => \A r \in CartRequest : cartPc[r] \in {"resolve", "create"}
  /\ \A r \in CartRequest :
       /\ cartPc[r] = "own" => CartOp[r] \in {"set", "remove"}
       /\ cartPc[r] = "link" => cartSeen[r].id \in CartRequest \cup {None}

(* What an add has read of its product is still so when it writes: no line *)
(* appeared, and the line it found is the same, has the same quantity      *)
(* (unless one was typed in), or is gone.                                  *)
Fresh(r) ==
  /\ cartSeen[r].id = None => \A i \in DOMAIN lines : lines[i].sku # SkuOf[r]
  /\ cartSeen[r].id # None => cartSeen[r].id \in 1..(nextId - 1)
  /\ cartSeen[r].id \in DOMAIN lines =>
       /\ lines[cartSeen[r].id].sku = SkuOf[r]
       /\ SkuOf[r] \notin covered => lines[cartSeen[r].id].qty = cartSeen[r].qty
LineReadInv == \A r \in CartRequest : cartPc[r] = "write" => Fresh(r)

UniqueLineInv == \A i, j \in DOMAIN lines : lines[i].sku = lines[j].sku => i = j

LineInv == Cart!TypeOK /\ LineLockInv /\ LinePathInv /\ LineReadInv /\ UniqueLineInv /\ Cart!AddsAddUp

-----------------------------------------------------------------------------
LEMMA LineNextCases ==
  [Cart!Next]_(Cart!vars) =>
    UNCHANGED Cart!vars \/ Cart!Convert \/ \E r \in CartRequest : Cart!Statement(r)
  BY DEF Cart!Next, Cart!Rest

(* A request moves alone.                                                  *)
LEMMA LineOthersWait ==
  ASSUME Cart!TypeOK, NEW r \in CartRequest, Cart!Statement(r)
  PROVE  \A q \in CartRequest \ {r} : cartPc'[q] = cartPc[q] /\ cartSeen'[q] = cartSeen[q]
  BY DEF Cart!Statement, Cart!FindCart, Cart!CreateCart, Cart!WipeLines, Cart!ResetCart,
         Cart!FollowLink, Cart!FindLine, Cart!WriteLine, Cart!FindOwnLine, Cart!SetLine,
         Cart!RemoveLine, Cart!ReadToken, Cart!WriteToken, Cart!Goto, Cart!TypeOK

(* What the statements do to the lines.                                    *)
LEMMA LineSteps ==
  ASSUME Cart!CartAssumption, Cart!TypeOK, NEW r \in CartRequest, Cart!Statement(r)
  PROVE  LET s == SkuOf[r]
             i == cartSeen[r].id
         IN  \/ UNCHANGED Cart!lineVars
             \/ /\ lines' = <<>> /\ owed' = [x \in Sku |-> 0] /\ cartPc'[r] = "reset"
                /\ UNCHANGED <<nextId, covered>>
             \/ /\ cartPc[r] = "write" /\ cartPc'[r] = "done" /\ i = None /\ Cart!Put(nextId, s, Qty[r])
                /\ nextId' = nextId + 1
                /\ owed' = [owed EXCEPT ![s] = @ + Qty[r]] /\ UNCHANGED covered
             \/ /\ cartPc[r] = "write" /\ cartPc'[r] = "done" /\ i # None /\ i \in DOMAIN lines
                /\ Cart!Put(i, s, cartSeen[r].qty + Qty[r])
                /\ owed' = [owed EXCEPT ![s] = @ + Qty[r]] /\ UNCHANGED <<nextId, covered>>
             \/ /\ cartPc[r] = "set" /\ cartPc'[r] = "done" /\ i \in DOMAIN lines
                /\ Cart!Put(i, lines[i].sku, Qty[r])
                /\ owed' = [owed EXCEPT ![lines[i].sku] = Qty[r]] /\ nextId' = nextId
                /\ covered' \in {covered, covered \cup {lines[i].sku}}
                /\ advisory[lines[i].sku] # None => lines[i].sku \in covered'
             \/ /\ cartPc[r] = "remove" /\ cartPc'[r] = "done" /\ i \in DOMAIN lines
                /\ DOMAIN lines' = DOMAIN lines \ {i}
                /\ \A j \in DOMAIN lines' : lines'[j] = lines[j]
                /\ owed' = [owed EXCEPT ![lines[i].sku] = @ - lines[i].qty]
                /\ UNCHANGED <<nextId, covered>>
  <1>1. CASE Cart!FindCart(r) \/ Cart!CreateCart(r) \/ Cart!ResetCart(r) \/ Cart!FollowLink(r) \/ Cart!FindLine(r)
             \/ Cart!FindOwnLine(r) \/ Cart!ReadToken(r) \/ Cart!WriteToken(r)
    BY <1>1 DEF Cart!FindCart, Cart!CreateCart, Cart!ResetCart, Cart!FollowLink, Cart!FindLine,
       Cart!FindOwnLine, Cart!ReadToken, Cart!WriteToken, Cart!lineVars
  <1>2. CASE Cart!WipeLines(r)
    BY <1>2 DEF Cart!WipeLines, Cart!Goto, Cart!TypeOK
  <1>3. CASE Cart!WriteLine(r)
    <2>1. CASE cartSeen[r].id = None
      BY <1>3, <2>1 DEF Cart!WriteLine, Cart!Goto, Cart!TypeOK
    <2>2. CASE cartSeen[r].id # None /\ cartSeen[r].id \in DOMAIN lines
      BY <1>3, <2>2 DEF Cart!WriteLine, Cart!Goto, Cart!TypeOK
    <2>3. CASE cartSeen[r].id # None /\ cartSeen[r].id \notin DOMAIN lines
      BY <1>3, <2>3 DEF Cart!WriteLine, Cart!lineVars
    <2> QED
      BY <2>1, <2>2, <2>3
  <1>4. CASE Cart!SetLine(r)
    <2>1. CASE cartSeen[r].id \in DOMAIN lines
      BY <1>4, <2>1 DEF Cart!SetLine, Cart!LineFree, Cart!Goto, Cart!TypeOK
    <2>2. CASE cartSeen[r].id \notin DOMAIN lines
      BY <1>4, <2>2 DEF Cart!SetLine, Cart!lineVars
    <2> QED
      BY <2>1, <2>2
  <1>5. CASE Cart!RemoveLine(r)
    BY <1>5 DEF Cart!RemoveLine, Cart!lineVars, Cart!Goto, Cart!TypeOK
  <1> QED
    BY <1>1, <1>2, <1>3, <1>4, <1>5 DEF Cart!Statement

LEMMA LineTypes ==
  ASSUME Cart!TypeOK, NEW i \in DOMAIN lines
  PROVE  /\ lines[i].sku \in Sku /\ lines[i].qty \in Nat \ {0}
         /\ i \in 1..(nextId - 1) /\ i \in Nat /\ i # nextId
  <1>1. lines[i] \in [sku: Sku, qty: Nat \ {0}] /\ i \in 1..(nextId - 1) /\ nextId \in Nat
    BY DEF Cart!TypeOK
  <1> QED
    BY <1>1

-----------------------------------------------------------------------------
LEMMA LineLockStep ==
  ASSUME Cart!CartAssumption, Cart!TypeOK, LineLockInv, NEW r \in CartRequest, Cart!Statement(r)
  PROVE  LineLockInv'
  <1>1. SUFFICES ASSUME NEW q \in CartRequest, cartPc'[q] = "write" PROVE advisory'[SkuOf[q]] = q
    BY DEF LineLockInv
  <1>2. SkuOf[r] \in Sku /\ SkuOf[q] \in Sku
    BY DEF Cart!CartAssumption
  <1>3. CASE Cart!FindLine(r)
    <2>1. /\ advisory[SkuOf[r]] = None /\ advisory' = [advisory EXCEPT ![SkuOf[r]] = r]
      BY <1>3 DEF Cart!FindLine, Cart!LineFree
    <2>2. CASE q = r
      BY <1>2, <2>1, <2>2 DEF Cart!TypeOK
    <2>3. CASE q # r
      <3>1. advisory[SkuOf[q]] = q /\ q # None
        BY <1>1, <2>3, LineOthersWait DEF LineLockInv, Cart!CartAssumption
      <3> QED
        BY <1>2, <2>1, <3>1 DEF Cart!TypeOK
    <2> QED
      BY <2>2, <2>3
  <1>4. CASE Cart!WriteLine(r)
    <2>1. advisory' = [advisory EXCEPT ![SkuOf[r]] = None] /\ cartPc[r] = "write" /\ cartPc'[r] # "write"
      BY <1>4 DEF Cart!WriteLine, Cart!Goto, Cart!TypeOK
    <2>2. q # r /\ cartPc[q] = "write"
      BY <1>1, <2>1, LineOthersWait
    <2>3. advisory[SkuOf[q]] = q /\ advisory[SkuOf[r]] = r
      BY <2>1, <2>2 DEF LineLockInv
    <2> QED
      BY <1>2, <2>1, <2>2, <2>3 DEF Cart!TypeOK
  <1>5. CASE ~(Cart!FindLine(r) \/ Cart!WriteLine(r))
    <2>1. UNCHANGED advisory /\ cartPc'[r] # "write"
      BY <1>5 DEF Cart!Statement, Cart!FindCart, Cart!CreateCart, Cart!WipeLines,
         Cart!ResetCart, Cart!FollowLink, Cart!FindOwnLine, Cart!SetLine, Cart!RemoveLine,
         Cart!ReadToken, Cart!WriteToken, Cart!Goto, Cart!Handler, Cart!TypeOK,
         Cart!CartAssumption
    <2> QED
      BY <1>1, <2>1, LineOthersWait DEF LineLockInv
  <1> QED
    BY <1>3, <1>4, <1>5

LEMMA LinePathStep ==
  ASSUME Cart!CartAssumption, Cart!TypeOK, LinePathInv, NEW r \in CartRequest, Cart!Statement(r)
  PROVE  LinePathInv'
  <1>1. ASSUME cart' = None
        PROVE  \A q \in CartRequest : cartPc'[q] \in {"resolve", "create"}
    <2>1. cart = None
      BY <1>1 DEF Cart!Statement, Cart!FindCart, Cart!CreateCart, Cart!WipeLines,
         Cart!ResetCart, Cart!FollowLink, Cart!FindLine, Cart!WriteLine, Cart!FindOwnLine,
         Cart!SetLine, Cart!RemoveLine, Cart!ReadToken, Cart!WriteToken, Cart!cartVars,
         Cart!CartAssumption
    <2>2. \A q \in CartRequest : cartPc[q] \in {"resolve", "create"}
      BY <2>1 DEF LinePathInv
    <2>3. Cart!FindCart(r)
      BY <1>1, <2>1, <2>2 DEF Cart!Statement, Cart!FindCart, Cart!CreateCart, Cart!WipeLines,
         Cart!ResetCart, Cart!FollowLink, Cart!FindLine, Cart!WriteLine, Cart!FindOwnLine,
         Cart!SetLine, Cart!RemoveLine, Cart!ReadToken, Cart!WriteToken, Cart!CartAssumption
    <2>4. cartPc'[r] = "create"
      BY <2>1, <2>3 DEF Cart!FindCart, Cart!Goto, Cart!TypeOK
    <2> QED
      BY <2>2, <2>4, LineOthersWait
  <1>2. cartPc'[r] = "own" => CartOp[r] \in {"set", "remove"}
    BY DEF Cart!Statement, Cart!FindCart, Cart!CreateCart, Cart!WipeLines, Cart!ResetCart,
           Cart!FollowLink, Cart!FindLine, Cart!WriteLine, Cart!FindOwnLine, Cart!SetLine,
           Cart!RemoveLine, Cart!ReadToken, Cart!WriteToken, Cart!Goto, Cart!Handler,
           Cart!TypeOK, LinePathInv, Cart!CartAssumption
  <1>3. cartPc'[r] = "link" => cartSeen'[r].id \in CartRequest \cup {None}
    <2>1. CASE Cart!ReadToken(r)
      <3>1. cartSeen' = [cartSeen EXCEPT ![r] = [cartSeen[r] EXCEPT !.id = shareToken]]
        BY <2>1 DEF Cart!ReadToken
      <3>2. cartSeen[r] \in [id: Nat \cup CartRequest \cup {None}, qty: Nat]
        BY DEF Cart!TypeOK
      <3>3. cartSeen'[r].id = shareToken
        BY <3>1, <3>2 DEF Cart!TypeOK
      <3> QED
        BY <3>3 DEF Cart!TypeOK
    <2>2. CASE ~Cart!ReadToken(r)
      BY <2>2 DEF Cart!Statement, Cart!FindCart, Cart!CreateCart, Cart!WipeLines,
         Cart!ResetCart, Cart!FollowLink, Cart!FindLine, Cart!WriteLine, Cart!FindOwnLine,
         Cart!SetLine, Cart!RemoveLine, Cart!WriteToken, Cart!Goto, Cart!Handler, Cart!TypeOK,
         LinePathInv, Cart!CartAssumption
    <2> QED
      BY <2>1, <2>2
  <1> QED
    BY <1>1, <1>2, <1>3, LineOthersWait DEF LinePathInv

LEMMA LineTypeStep ==
  ASSUME Cart!CartAssumption, Cart!TypeOK, LinePathInv, LineReadInv, NEW r \in CartRequest,
         Cart!Statement(r)
  PROVE  Cart!TypeOK'
  <1> DEFINE Labels == {"resolve", "create", "wipe", "reset", "add", "write", "own",
                        "set", "remove", "share", "link", "done", "rejected"}
  <1>1. /\ SkuOf[r] \in Sku /\ Qty[r] \in Nat \ {0} /\ CartOp[r] \in {"view", "add", "follow", "set", "remove", "share"}
        /\ cartSeen[r] \in [id: Nat \cup CartRequest \cup {None}, qty: Nat]
    BY DEF Cart!CartAssumption, Cart!TypeOK
  <1>2. cart' \in {None, "ACTIVE", "CONVERTED"} /\ shareToken' \in CartRequest \cup {None}
    <2>1. CASE Cart!WriteToken(r)
      BY <2>1 DEF Cart!WriteToken, LinePathInv, Cart!TypeOK
    <2>2. CASE ~Cart!WriteToken(r)
      BY <2>2 DEF Cart!Statement, Cart!FindCart, Cart!CreateCart, Cart!WipeLines,
         Cart!ResetCart, Cart!FollowLink, Cart!FindLine, Cart!WriteLine, Cart!FindOwnLine,
         Cart!SetLine, Cart!RemoveLine, Cart!ReadToken, Cart!cartVars, Cart!TypeOK
    <2> QED
      BY <2>1, <2>2
  <1>3. cartPc' \in [CartRequest -> Labels]
    <2>1. PICK label \in Labels : cartPc' = [cartPc EXCEPT ![r] = label]
      BY <1>1 DEF Cart!Statement, Cart!FindCart, Cart!CreateCart, Cart!WipeLines,
         Cart!ResetCart, Cart!FollowLink, Cart!FindLine, Cart!WriteLine, Cart!FindOwnLine,
         Cart!SetLine, Cart!RemoveLine, Cart!ReadToken, Cart!WriteToken, Cart!Goto,
         Cart!Handler, LinePathInv
    <2> QED
      BY <2>1 DEF Cart!TypeOK
  <1>4. advisory' \in [Sku -> CartRequest \cup {None}]
    BY <1>1 DEF Cart!Statement, Cart!FindCart, Cart!CreateCart, Cart!WipeLines, Cart!ResetCart,
       Cart!FollowLink, Cart!FindLine, Cart!WriteLine, Cart!FindOwnLine, Cart!SetLine,
       Cart!RemoveLine, Cart!ReadToken, Cart!WriteToken, Cart!TypeOK
  <1>5. cartSeen' \in [CartRequest -> [id: Nat \cup CartRequest \cup {None}, qty: Nat]]
    <2> DEFINE Read == [id: Nat \cup CartRequest \cup {None}, qty: Nat]
    <2>1. \E value \in Read : cartSeen' = [cartSeen EXCEPT ![r] = value]
      <3>1. CASE Cart!FindLine(r)
        <4>1. CASE Cart!LinesOf(SkuOf[r]) = {}
          <5>1. Cart!Nothing \in Read
            BY DEF Cart!Nothing
          <5> QED
            BY <3>1, <4>1, <5>1 DEF Cart!FindLine
        <4>2. CASE Cart!LinesOf(SkuOf[r]) # {}
          <5>1. PICK i \in Cart!LinesOf(SkuOf[r]) : cartSeen' = [cartSeen EXCEPT ![r] = [id |-> i, qty |-> lines[i].qty]]
            BY <3>1, <4>2 DEF Cart!FindLine
          <5>2. i \in Nat /\ lines[i].qty \in Nat
            BY LineTypes DEF Cart!LinesOf
          <5>3. [id |-> i, qty |-> lines[i].qty] \in Read
            BY <5>2
          <5> QED
            BY <5>1, <5>3
        <4> QED
          BY <4>1, <4>2
      <3>2. CASE Cart!FindOwnLine(r) \/ Cart!ReadToken(r)
        <4>1. UNCHANGED cartSeen \/ \E i \in Nat \cup CartRequest \cup {None} :
                                   cartSeen' = [cartSeen EXCEPT ![r] = [cartSeen[r] EXCEPT !.id = i]]
          <5>1. CASE Cart!FindOwnLine(r)
            <6>1. PICK i \in 1..(nextId - 1) : UNCHANGED cartSeen \/ cartSeen' = [cartSeen EXCEPT ![r].id = i]
              BY <5>1 DEF Cart!FindOwnLine
            <6>2. i \in Nat
              BY DEF Cart!TypeOK
            <6> QED
              BY <6>1, <6>2
          <5>2. CASE Cart!ReadToken(r)
            BY <5>2 DEF Cart!ReadToken, Cart!TypeOK
          <5> QED
            BY <3>2, <5>1, <5>2
        <4>2. \A i \in Nat \cup CartRequest \cup {None} : [cartSeen[r] EXCEPT !.id = i] \in Read
          BY <1>1
        <4>3. cartSeen = [cartSeen EXCEPT ![r] = cartSeen[r]]
          BY DEF Cart!TypeOK
        <4> QED
          BY <1>1, <4>1, <4>2, <4>3
      <3>3. CASE ~(Cart!FindLine(r) \/ Cart!FindOwnLine(r) \/ Cart!ReadToken(r))
        <4>1. UNCHANGED cartSeen
          BY <3>3 DEF Cart!Statement, Cart!FindCart, Cart!CreateCart, Cart!WipeLines,
             Cart!ResetCart, Cart!FollowLink, Cart!WriteLine, Cart!SetLine, Cart!RemoveLine,
             Cart!WriteToken
        <4> QED
          BY <1>1, <4>1 DEF Cart!TypeOK
      <3> QED
        BY <3>1, <3>2, <3>3
    <2> QED
      BY <2>1 DEF Cart!TypeOK
  <1>6. /\ covered' \subseteq Sku
        /\ nextId' \in Nat \ {0}
        /\ DOMAIN lines' \subseteq 1..(nextId' - 1)
        /\ \A i \in DOMAIN lines' : lines'[i] \in [sku: Sku, qty: Nat \ {0}]
        /\ owed' \in [Sku -> Int]
    <2> DEFINE s == SkuOf[r]
               i == cartSeen[r].id
    <2>1. CASE UNCHANGED Cart!lineVars
      BY <2>1 DEF Cart!lineVars, Cart!TypeOK
    <2>2. CASE lines' = <<>> /\ owed' = [x \in Sku |-> 0] /\ UNCHANGED <<nextId, covered>>
      <3>1. DOMAIN lines' = {}
        BY <2>2
      <3> QED
        BY <2>2, <3>1 DEF Cart!TypeOK
    <2>3. CASE /\ Cart!Put(nextId, s, Qty[r]) /\ nextId' = nextId + 1
               /\ owed' = [owed EXCEPT ![s] = @ + Qty[r]] /\ UNCHANGED covered
      <3>1. /\ DOMAIN lines' = DOMAIN lines \cup {nextId} /\ lines'[nextId] = [sku |-> s, qty |-> Qty[r]]
            /\ \A j \in DOMAIN lines \ {nextId} : lines'[j] = lines[j]
        BY <2>3 DEF Cart!Put
      <3>2. [sku |-> s, qty |-> Qty[r]] \in [sku: Sku, qty: Nat \ {0}]
        BY <1>1
      <3> QED
        BY <1>1, <2>3, <3>1, <3>2 DEF Cart!TypeOK
    <2>4. CASE /\ cartPc[r] = "write" /\ i \in DOMAIN lines /\ Cart!Put(i, s, cartSeen[r].qty + Qty[r])
               /\ owed' = [owed EXCEPT ![s] = @ + Qty[r]] /\ UNCHANGED <<nextId, covered>>
      <3>1. /\ DOMAIN lines' = DOMAIN lines \cup {i} /\ lines'[i] = [sku |-> s, qty |-> cartSeen[r].qty + Qty[r]]
            /\ \A j \in DOMAIN lines \ {i} : lines'[j] = lines[j]
        BY <2>4 DEF Cart!Put
      <3>2. [sku |-> s, qty |-> cartSeen[r].qty + Qty[r]] \in [sku: Sku, qty: Nat \ {0}]
        BY <1>1
      <3> QED
        BY <1>1, <2>4, <3>1, <3>2 DEF Cart!TypeOK
    <2>5. CASE /\ i \in DOMAIN lines /\ Cart!Put(i, lines[i].sku, Qty[r])
               /\ owed' = [owed EXCEPT ![lines[i].sku] = Qty[r]] /\ nextId' = nextId
               /\ covered' \in {covered, covered \cup {lines[i].sku}}
      <3>1. /\ DOMAIN lines' = DOMAIN lines \cup {i} /\ lines'[i] = [sku |-> lines[i].sku, qty |-> Qty[r]]
            /\ \A j \in DOMAIN lines \ {i} : lines'[j] = lines[j]
        BY <2>5 DEF Cart!Put
      <3>2. lines[i].sku \in Sku
        BY <2>5, LineTypes
      <3>3. [sku |-> lines[i].sku, qty |-> Qty[r]] \in [sku: Sku, qty: Nat \ {0}]
        BY <1>1, <3>2
      <3> QED
        BY <1>1, <2>5, <3>1, <3>2, <3>3 DEF Cart!TypeOK
    <2>6. CASE /\ i \in DOMAIN lines /\ DOMAIN lines' = DOMAIN lines \ {i}
               /\ \A j \in DOMAIN lines' : lines'[j] = lines[j]
               /\ owed' = [owed EXCEPT ![lines[i].sku] = @ - lines[i].qty]
               /\ UNCHANGED <<nextId, covered>>
      <3>1. lines[i].sku \in Sku /\ lines[i].qty \in Nat
        BY <2>6, LineTypes
      <3> QED
        BY <2>6, <3>1 DEF Cart!TypeOK
    <2> QED
      BY <2>1, <2>2, <2>3, <2>4, <2>5, <2>6, LineSteps
  <1>7. cart' = None => lines' = <<>> /\ shareToken' = None
    <2> SUFFICES ASSUME cart' = None PROVE lines' = <<>> /\ shareToken' = None
      OBVIOUS
    <2>1. cart = None
      BY DEF Cart!Statement, Cart!FindCart, Cart!CreateCart, Cart!WipeLines, Cart!ResetCart,
             Cart!FollowLink, Cart!FindLine, Cart!WriteLine, Cart!FindOwnLine, Cart!SetLine,
             Cart!RemoveLine, Cart!ReadToken, Cart!WriteToken, Cart!cartVars,
             Cart!CartAssumption
    <2>2. cartPc[r] \in {"resolve", "create"} /\ lines = <<>> /\ shareToken = None
      BY <2>1 DEF LinePathInv, Cart!TypeOK
    <2> QED
      BY <2>2 DEF Cart!Statement, Cart!FindCart, Cart!CreateCart, Cart!WipeLines,
         Cart!ResetCart, Cart!FollowLink, Cart!FindLine, Cart!WriteLine, Cart!FindOwnLine,
         Cart!SetLine, Cart!RemoveLine, Cart!ReadToken, Cart!WriteToken, Cart!cartVars,
         Cart!lineVars
  <1> QED
    BY <1>2, <1>3, <1>4, <1>5, <1>6, <1>7 DEF Cart!TypeOK

LEMMA LineReadStep ==
  ASSUME Cart!CartAssumption, Cart!TypeOK, LineLockInv, LineReadInv, NEW r \in CartRequest,
         Cart!Statement(r)
  PROVE  LineReadInv'
  <1> SUFFICES ASSUME NEW q \in CartRequest, cartPc'[q] = "write" PROVE Fresh(q)'
    BY DEF LineReadInv, Fresh
  <1>1. CASE q = r
    <2>1. Cart!FindLine(r)
      BY <1>1 DEF Cart!Statement, Cart!FindCart, Cart!CreateCart, Cart!WipeLines,
         Cart!ResetCart, Cart!FollowLink, Cart!WriteLine, Cart!FindOwnLine, Cart!SetLine,
         Cart!RemoveLine, Cart!ReadToken, Cart!WriteToken, Cart!Goto, Cart!Handler,
         Cart!TypeOK, Cart!CartAssumption
    <2>2. UNCHANGED <<lines, nextId, covered>>
      BY <2>1 DEF Cart!FindLine, Cart!lineVars
    <2>3. CASE Cart!LinesOf(SkuOf[r]) = {}
      <3>1. cartSeen'[r].id = None
        BY <2>1, <2>3 DEF Cart!FindLine, Cart!Nothing, Cart!TypeOK
      <3>2. None \notin DOMAIN lines
        BY DEF Cart!TypeOK, Cart!CartAssumption
      <3> QED
        BY <1>1, <2>2, <2>3, <3>1, <3>2 DEF Fresh, Cart!LinesOf
    <2>4. CASE Cart!LinesOf(SkuOf[r]) # {}
      <3>1. PICK i \in Cart!LinesOf(SkuOf[r]) : cartSeen' = [cartSeen EXCEPT ![r] = [id |-> i, qty |-> lines[i].qty]]
        BY <2>1, <2>4 DEF Cart!FindLine
      <3>2. cartSeen'[r].id = i /\ cartSeen'[r].qty = lines[i].qty
        BY <3>1 DEF Cart!TypeOK
      <3>3. i \in DOMAIN lines /\ lines[i].sku = SkuOf[r] /\ i \in 1..(nextId - 1) /\ i # None
        BY LineTypes DEF Cart!LinesOf, Cart!CartAssumption
      <3> QED
        BY <1>1, <2>2, <3>2, <3>3 DEF Fresh
    <2> QED
      BY <2>3, <2>4
  <1>2. CASE q # r
    <2> DEFINE i == cartSeen[r].id
    <2>1. cartPc[q] = "write" /\ cartSeen'[q] = cartSeen[q] /\ Fresh(q)
      BY <1>2, LineOthersWait DEF LineReadInv
    <2>2. /\ SkuOf[q] \in Sku /\ advisory[SkuOf[q]] = q /\ advisory[SkuOf[q]] # None
          /\ cartPc[r] = "write" => SkuOf[r] # SkuOf[q] /\ Fresh(r)
      BY <1>2, <2>1 DEF LineLockInv, LineReadInv, Cart!CartAssumption
    <2>3. nextId \in Nat /\ DOMAIN lines \subseteq 1..(nextId - 1)
      BY DEF Cart!TypeOK
    <2>4. CASE UNCHANGED Cart!lineVars
      BY <2>1, <2>4 DEF Fresh, Cart!lineVars
    <2>5. CASE lines' = <<>> /\ UNCHANGED <<nextId, covered>>
      <3>1. DOMAIN lines' = {}
        BY <2>5
      <3> QED
        BY <2>1, <2>5, <3>1 DEF Fresh
    <2>6. CASE cartPc[r] = "write" /\ i = None /\ Cart!Put(nextId, SkuOf[r], Qty[r]) /\ nextId' = nextId + 1 /\ UNCHANGED covered
      <3>1. /\ DOMAIN lines' = DOMAIN lines \cup {nextId} /\ lines'[nextId].sku = SkuOf[r]
            /\ \A j \in DOMAIN lines \ {nextId} : lines'[j] = lines[j]
        BY <2>6 DEF Cart!Put
      <3>2. cartSeen[q].id # None => cartSeen[q].id # nextId /\ cartSeen[q].id \in 1..(nextId' - 1)
        BY <2>1, <2>3, <2>6 DEF Fresh
      <3>3. None # nextId
        BY <2>3 DEF Cart!CartAssumption
      <3>4. nextId \notin DOMAIN lines
        BY <2>3
      <3> QED
        BY <2>1, <2>2, <2>6, <3>1, <3>2, <3>3, <3>4 DEF Fresh
    <2>7. CASE cartPc[r] = "write" /\ i \in DOMAIN lines /\ Cart!Put(i, SkuOf[r], cartSeen[r].qty + Qty[r]) /\ UNCHANGED <<nextId, covered>>
      <3>1. /\ DOMAIN lines' = DOMAIN lines /\ lines'[i].sku = SkuOf[r] /\ lines[i].sku = SkuOf[r]
            /\ \A j \in DOMAIN lines \ {i} : lines'[j] = lines[j]
        BY <2>2, <2>7 DEF Cart!Put, Fresh
      <3> HIDE DEF i
      <3> QED
        BY <2>1, <2>2, <2>7, <3>1 DEF Fresh
    <2>8. CASE /\ i \in DOMAIN lines /\ Cart!Put(i, lines[i].sku, Qty[r]) /\ nextId' = nextId
               /\ covered' \in {covered, covered \cup {lines[i].sku}}
               /\ advisory[lines[i].sku] # None => lines[i].sku \in covered'
      <3>1. /\ DOMAIN lines' = DOMAIN lines /\ lines'[i].sku = lines[i].sku
            /\ \A j \in DOMAIN lines \ {i} : lines'[j] = lines[j]
        BY <2>8 DEF Cart!Put
      <3> HIDE DEF i
      <3> QED
        BY <2>1, <2>2, <2>8, <3>1 DEF Fresh
    <2>9. CASE /\ i \in DOMAIN lines /\ DOMAIN lines' = DOMAIN lines \ {i}
               /\ \A j \in DOMAIN lines' : lines'[j] = lines[j]
               /\ UNCHANGED <<nextId, covered>>
      BY <2>1, <2>9 DEF Fresh
    <2> QED
      BY <2>4, <2>5, <2>6, <2>7, <2>8, <2>9, LineSteps
  <1> QED
    BY <1>1, <1>2

LEMMA LineUniqueStep ==
  ASSUME Cart!CartAssumption, Cart!TypeOK, LineReadInv, UniqueLineInv, NEW r \in CartRequest,
         Cart!Statement(r)
  PROVE  UniqueLineInv'
  <1> DEFINE i == cartSeen[r].id
  <1>1. CASE UNCHANGED Cart!lineVars
    BY <1>1 DEF UniqueLineInv, Cart!lineVars
  <1>2. CASE lines' = <<>>
    <2>1. DOMAIN lines' = {}
      BY <1>2
    <2> QED
      BY <2>1 DEF UniqueLineInv
  <1>3. CASE cartPc[r] = "write" /\ i = None /\ Cart!Put(nextId, SkuOf[r], Qty[r])
    <2>1. /\ DOMAIN lines' = DOMAIN lines \cup {nextId} /\ lines'[nextId].sku = SkuOf[r]
          /\ \A j \in DOMAIN lines \ {nextId} : lines'[j] = lines[j]
      BY <1>3 DEF Cart!Put
    <2>2. \A j \in DOMAIN lines : lines[j].sku # SkuOf[r]
      BY <1>3 DEF LineReadInv, Fresh
    <2> QED
      BY <2>1, <2>2, LineTypes DEF UniqueLineInv
  <1>4. CASE cartPc[r] = "write" /\ i \in DOMAIN lines /\ Cart!Put(i, SkuOf[r], cartSeen[r].qty + Qty[r])
    <2>1. /\ DOMAIN lines' = DOMAIN lines /\ lines'[i].sku = SkuOf[r] /\ lines[i].sku = SkuOf[r]
          /\ \A j \in DOMAIN lines \ {i} : lines'[j] = lines[j]
      BY <1>4 DEF Cart!Put, LineReadInv, Fresh
    <2> HIDE DEF i
    <2> QED
      BY <1>4, <2>1 DEF UniqueLineInv
  <1>5. CASE i \in DOMAIN lines /\ Cart!Put(i, lines[i].sku, Qty[r])
    <2>1. /\ DOMAIN lines' = DOMAIN lines /\ lines'[i].sku = lines[i].sku
          /\ \A j \in DOMAIN lines \ {i} : lines'[j] = lines[j]
      BY <1>5 DEF Cart!Put
    <2> HIDE DEF i
    <2> QED
      BY <1>5, <2>1 DEF UniqueLineInv
  <1>6. CASE /\ DOMAIN lines' = DOMAIN lines \ {i}
             /\ \A j \in DOMAIN lines' : lines'[j] = lines[j]
    BY <1>6 DEF UniqueLineInv
  <1> QED
    BY <1>1, <1>2, <1>3, <1>4, <1>5, <1>6, LineSteps

(* AddsAddUp, line by line.                                                *)
Owes(s) ==
  /\ (\A i \in DOMAIN lines : lines[i].sku # s) => owed[s] = 0
  /\ \A i \in DOMAIN lines : lines[i].sku = s => lines[i].qty = owed[s]

LEMMA AddsOwes == Cart!AddsAddUp <=> \A s \in Sku \ covered : Owes(s)
  BY DEF Cart!AddsAddUp, Owes, Cart!LinesOf

LEMMA LineAddsStep ==
  ASSUME Cart!CartAssumption, Cart!TypeOK, LineReadInv, UniqueLineInv, NEW r \in CartRequest,
         Cart!Statement(r),
         \A s \in Sku \ covered : Owes(s),
         NEW s \in Sku, s \notin covered'
  PROVE  Owes(s)'
  <1> DEFINE i == cartSeen[r].id
  <1>1. CASE UNCHANGED Cart!lineVars
    BY <1>1 DEF Owes, Cart!lineVars
  <1>2. CASE lines' = <<>> /\ owed' = [x \in Sku |-> 0]
    <2>1. DOMAIN lines' = {}
      BY <1>2
    <2> QED
      BY <1>2, <2>1 DEF Owes
  <1>3. CASE /\ cartPc[r] = "write" /\ i = None /\ Cart!Put(nextId, SkuOf[r], Qty[r])
             /\ owed' = [owed EXCEPT ![SkuOf[r]] = @ + Qty[r]] /\ UNCHANGED covered
    <2>1. /\ DOMAIN lines' = DOMAIN lines \cup {nextId}
          /\ lines'[nextId].sku = SkuOf[r] /\ lines'[nextId].qty = Qty[r]
          /\ \A j \in DOMAIN lines \ {nextId} : lines'[j] = lines[j]
      BY <1>3 DEF Cart!Put
    <2>2. \A j \in DOMAIN lines : lines[j].sku # SkuOf[r] /\ j # nextId
      BY <1>3, LineTypes DEF LineReadInv, Fresh
    <2>3. CASE s = SkuOf[r]
      <3>1. owed[s] = 0
        BY <1>3, <2>2, <2>3 DEF Owes
      <3>2. owed'[s] = Qty[r]
        BY <1>3, <2>3, <3>1 DEF Cart!TypeOK, Cart!CartAssumption
      <3> QED
        BY <2>1, <2>2, <2>3, <3>2 DEF Owes
    <2>4. CASE s # SkuOf[r]
      <3>1. owed'[s] = owed[s]
        BY <1>3, <2>4 DEF Cart!TypeOK
      <3> QED
        BY <1>3, <2>1, <2>2, <2>4, <3>1 DEF Owes
    <2> QED
      BY <2>3, <2>4
  <1>4. CASE /\ cartPc[r] = "write" /\ i \in DOMAIN lines /\ Cart!Put(i, SkuOf[r], cartSeen[r].qty + Qty[r])
             /\ owed' = [owed EXCEPT ![SkuOf[r]] = @ + Qty[r]] /\ UNCHANGED covered
    <2>1. /\ DOMAIN lines' = DOMAIN lines /\ lines[i].sku = SkuOf[r]
          /\ lines'[i].sku = SkuOf[r] /\ lines'[i].qty = cartSeen[r].qty + Qty[r]
          /\ \A j \in DOMAIN lines \ {i} : lines'[j] = lines[j]
          /\ SkuOf[r] \notin covered => lines[i].qty = cartSeen[r].qty
      BY <1>4 DEF Cart!Put, LineReadInv, Fresh
    <2>2. CASE s = SkuOf[r]
      <3>1. owed[s] = cartSeen[r].qty
        BY <1>4, <2>1, <2>2 DEF Owes
      <3>2. owed'[s] = cartSeen[r].qty + Qty[r]
        BY <1>4, <2>2, <3>1 DEF Cart!TypeOK
      <3>3. \A j \in DOMAIN lines : lines[j].sku = s => j = i
        BY <1>4, <2>1, <2>2 DEF UniqueLineInv
      <3> HIDE DEF i
      <3> QED
        BY <1>4, <2>1, <2>2, <3>2, <3>3 DEF Owes
    <2>3. CASE s # SkuOf[r]
      <3>1. owed'[s] = owed[s]
        BY <1>4, <2>3 DEF Cart!TypeOK
      <3> HIDE DEF i
      <3> QED
        BY <1>4, <2>1, <2>3, <3>1 DEF Owes
    <2> QED
      BY <2>2, <2>3
  <1>5. CASE /\ i \in DOMAIN lines /\ Cart!Put(i, lines[i].sku, Qty[r])
             /\ owed' = [owed EXCEPT ![lines[i].sku] = Qty[r]]
             /\ covered \subseteq covered'
    <2>1. /\ DOMAIN lines' = DOMAIN lines
          /\ lines'[i].sku = lines[i].sku /\ lines'[i].qty = Qty[r]
          /\ \A j \in DOMAIN lines \ {i} : lines'[j] = lines[j]
      BY <1>5 DEF Cart!Put
    <2>2. \A j \in DOMAIN lines : lines[j].sku = lines[i].sku => j = i
      BY <1>5 DEF UniqueLineInv
    <2>3. /\ s = lines[i].sku => owed'[s] = Qty[r]
          /\ s # lines[i].sku => owed'[s] = owed[s]
      BY <1>5 DEF Cart!TypeOK
    <2>4. Owes(s)
      BY <1>5
    <2> HIDE DEF i
    <2> QED
      BY <1>5, <2>1, <2>2, <2>3, <2>4 DEF Owes
  <1>6. CASE /\ i \in DOMAIN lines /\ DOMAIN lines' = DOMAIN lines \ {i}
             /\ \A j \in DOMAIN lines' : lines'[j] = lines[j]
             /\ owed' = [owed EXCEPT ![lines[i].sku] = @ - lines[i].qty]
             /\ UNCHANGED covered
    <2>1. \A j \in DOMAIN lines : lines[j].sku = lines[i].sku => j = i
      BY <1>6 DEF UniqueLineInv
    <2>2. Owes(s) /\ owed[s] \in Int
      BY <1>6 DEF Cart!TypeOK
    <2>3. CASE s = lines[i].sku
      <3>1. owed[s] = lines[i].qty
        BY <1>6, <2>2, <2>3 DEF Owes
      <3>2. owed'[s] = 0
        BY <1>6, <2>2, <2>3, <3>1 DEF Cart!TypeOK
      <3> HIDE DEF i
      <3> QED
        BY <1>6, <2>1, <2>3, <3>2 DEF Owes
    <2>4. CASE s # lines[i].sku
      <3>1. owed'[s] = owed[s]
        BY <1>6, <2>4 DEF Cart!TypeOK
      <3> HIDE DEF i
      <3> QED
        BY <1>6, <2>2, <2>4, <3>1 DEF Owes
    <2> QED
      BY <2>3, <2>4
  <1> QED
    BY <1>1, <1>2, <1>3, <1>4, <1>5, <1>6, LineSteps

-----------------------------------------------------------------------------
LEMMA LineInit == ASSUME Cart!CartAssumption, Cart!Init PROVE LineInv
  <1>1. lines = <<>> /\ DOMAIN lines = {} /\ nextId = 1
    BY DEF Cart!Init
  <1>2. Cart!TypeOK
    BY <1>1 DEF Cart!Init, Cart!TypeOK, Cart!Nothing
  <1>3. LineLockInv /\ LinePathInv /\ LineReadInv /\ UniqueLineInv
    BY <1>1 DEF Cart!Init, LineLockInv, LinePathInv, LineReadInv, UniqueLineInv
  <1>4. Cart!AddsAddUp
    BY <1>1 DEF Cart!Init, Cart!AddsAddUp, Cart!LinesOf
  <1> QED
    BY <1>2, <1>3, <1>4 DEF LineInv

LEMMA LineNext == ASSUME Cart!CartAssumption, LineInv, [Cart!Next]_(Cart!vars) PROVE LineInv'
  <1>1. CASE UNCHANGED Cart!vars
    BY <1>1 DEF Cart!vars, Cart!cartVars, Cart!lineVars, LineInv, Cart!TypeOK, LineLockInv,
       LinePathInv, LineReadInv, Fresh, UniqueLineInv, Cart!AddsAddUp, Cart!LinesOf
  <1>2. CASE Cart!Convert
    <2>1. /\ cart = "ACTIVE" /\ cart' = "CONVERTED"
         /\ UNCHANGED <<shareToken, lines, nextId, owed, covered, advisory, cartPc, cartSeen>>
      BY <1>2 DEF Cart!Convert, Cart!lineVars
    <2> QED
      BY <2>1 DEF LineInv, Cart!TypeOK, LineLockInv, LinePathInv, LineReadInv, Fresh,
         UniqueLineInv, Cart!AddsAddUp, Cart!LinesOf, Cart!CartAssumption
  <1>3. ASSUME NEW r \in CartRequest, Cart!Statement(r) PROVE LineInv'
    <2>1. \A s \in Sku : s \notin covered' => Owes(s)'
      BY <1>3, AddsOwes, LineAddsStep DEF LineInv
    <2>2. Cart!AddsAddUp'
      BY <2>1 DEF Cart!AddsAddUp, Owes, Cart!LinesOf
    <2> QED
      BY <1>3, <2>2, LineTypeStep, LineLockStep, LinePathStep, LineReadStep, LineUniqueStep
      DEF LineInv
  <1> QED
    BY <1>1, <1>2, <1>3, LineNextCases

LEMMA LineInductive == ASSUME Cart!CartAssumption PROVE Cart!Spec => []LineInv
  BY LineInit, LineNext, PTL DEF Cart!Spec

(* Of all lines that are unique, a product has one.                        *)
LEMMA OneLine == ASSUME LineInv PROVE Cart!OneLinePerProduct
  <1> SUFFICES ASSUME NEW s \in Sku PROVE Cardinality(Cart!LinesOf(s)) <= 1
    BY DEF Cart!OneLinePerProduct, Cart!Cardinality, Cardinality
  <1>1. CASE Cart!LinesOf(s) = {}
    <2>1. Cardinality(Cart!LinesOf(s)) = 0
      BY <1>1, FS_EmptySet
    <2> QED
      BY <2>1
  <1>2. CASE Cart!LinesOf(s) # {}
    <2>1. PICK i : i \in Cart!LinesOf(s)
      BY <1>2
    <2>2. Cart!LinesOf(s) = {i}
      BY <2>1 DEF LineInv, UniqueLineInv, Cart!LinesOf
    <2>3. Cardinality(Cart!LinesOf(s)) = 1
      BY <2>2, FS_Singleton
    <2> QED
      BY <2>3
  <1> QED
    BY <1>1, <1>2

-----------------------------------------------------------------------------
(* Customer records, for any records and requests.                         *)

(* A request that opens an account, or after it a wishlist, has a record   *)
(* to open it for, and one that got a record is done; no record is ever    *)
(* deleted.                                                                *)
CustomerPathInv ==
  /\ DOMAIN Known \subseteq Identity!Id
  /\ \A r \in OrderRequest :
       /\ orderPc[r] \in {"account", "wishlist"} => own[r] \in Identity!Id
       /\ orderPc[r] = "wishlist" => own[r] \in accounts
       /\ orderPc[r] = "confirm" => OrderOp[r] = "change"
       /\ Bound[r] # None => orderPc[r] \in {"read", "done"}
       /\ got[r] # None => orderPc[r] = "done"

(* A record without a wishlist has a request that is about to open it, or  *)
(* the account first; so a request that fails because one is there leaves  *)
(* the rest to another.                                                    *)
Opening(k, label) == \E r \in OrderRequest : orderPc[r] = label /\ own[r] = k
CustomerOpenInv ==
  /\ \A k \in Identity!Id \ wishlists : Opening(k, "account") \/ Opening(k, "wishlist")
  /\ \A k \in accounts \ wishlists : Opening(k, "wishlist")

(* No two records have the same address; the records there were at first   *)
(* keep theirs, unless their owner changed it.                             *)
AddressInv ==
  /\ \A j, k \in Identity!Id :
       customers[j].email = customers[k].email => j = k \/ customers[k].email = None
  /\ \A k \in DOMAIN Known :
       customers[k].by = None /\ (Identity!Moved(k) \/ customers[k].email = Known[k].email)

(* The record that a request works on, and the one it is answered with, is *)
(* that of its person.                                                     *)
Right(r, k) ==
  IF Bound[r] # None THEN k = Bound[r]
  ELSE IF EmailOf[r] # None THEN customers[k].email = EmailOf[r]
  ELSE customers[k].email = None /\ customers[k].by = r
PersonInv ==
  \A r \in OrderRequest : OrderOp[r] # "change" =>
    /\ own[r] # None => Identity!Moved(own[r]) \/ Right(r, own[r])
    /\ got[r] # None => Identity!Moved(got[r]) \/ Right(r, got[r])

CustomerInv ==
  Identity!TypeOK /\ CustomerPathInv /\ CustomerOpenInv /\ AddressInv /\ PersonInv

-----------------------------------------------------------------------------
LEMMA CustomerNextCases ==
  [Identity!Next]_(Identity!vars) =>
    UNCHANGED Identity!vars \/ \E r \in OrderRequest : Identity!Statement(r)
  BY DEF Identity!Next, Identity!Rest

LEMMA IdFacts ==
  ASSUME Identity!TypeOK
  PROVE  /\ Len(customers) \in Nat /\ Identity!Id = DOMAIN customers
         /\ \A r \in OrderRequest : own[r] # None => own[r] \in Identity!Id
  BY DEF Identity!TypeOK, Identity!Id

LEMMA MatchFacts ==
  ASSUME NEW r \in OrderRequest, NEW k \in Identity!Matches(r)
  PROVE  k \in DOMAIN customers /\ EmailOf[r] # None /\ customers[k].email = EmailOf[r]
  BY DEF Identity!Matches, Identity!ByEmail

(* What a statement does, as far as records are concerned: it looks, finds *)
(* one, inserts one, claims one, opens an account or a wishlist, finds it  *)
(* open, or changes an address.                                            *)
Takes(r) == IF Bound[r] # None THEN {Bound[r]} ELSE Identity!Matches(r)
Looks(r) ==
  /\ UNCHANGED <<Identity!tables, own>>
  /\ orderPc[r] \notin {"account", "wishlist"}
  /\ orderPc'[r] \notin {"account", "wishlist"} /\ (orderPc'[r] = "confirm" => OrderOp[r] = "change")
  /\ Bound[r] # None => orderPc'[r] = "done"
  /\ \/ UNCHANGED got
     \/ orderPc'[r] = "done" /\ \E k \in Takes(r) : got' = [got EXCEPT ![r] = k]

Finds(r) ==
  /\ UNCHANGED <<Identity!tables, got>>
  /\ orderPc[r] = "read" /\ orderPc'[r] = "byPhone" /\ Bound[r] = None
  /\ \E k \in Identity!Matches(r) : own' = [own EXCEPT ![r] = k]

Inserts(r) ==
  /\ orderPc[r] \in {"create", "noPhone", "save"} /\ orderPc'[r] = "account"
  /\ Identity!ByEmail(EmailOf[r]) = {}
  /\ \E c \in Identity!Customer :
       c.by = r /\ c.email = EmailOf[r] /\ customers' = Append(customers, c)
  /\ own' = [own EXCEPT ![r] = Len(customers) + 1]
  /\ UNCHANGED <<accounts, wishlists, got>>

ClaimsRecord(r) ==
  /\ orderPc[r] = "save" /\ orderPc'[r] = "account"
  /\ own[r] \in Identity!Id
  /\ \E c \in Identity!Customer :
       /\ c.email = customers[own[r]].email /\ c.by = customers[own[r]].by
       /\ customers' = [customers EXCEPT ![own[r]] = c]
  /\ UNCHANGED <<accounts, wishlists, own, got>>

FindsOpen(r) ==
  /\ \/ orderPc[r] = "account" /\ own[r] \in accounts
     \/ orderPc[r] = "wishlist" /\ own[r] \in wishlists
  /\ orderPc'[r] = "failed"
  /\ UNCHANGED <<Identity!tables, own, got>>

Opens(r) ==
  \/ /\ orderPc[r] = "account" /\ orderPc'[r] = "wishlist"
     /\ accounts' = accounts \cup {own[r]}
     /\ UNCHANGED <<customers, wishlists, own, got>>
  \/ /\ orderPc[r] = "wishlist" /\ orderPc'[r] = "done"
     /\ wishlists' = wishlists \cup {own[r]} /\ got' = [got EXCEPT ![r] = own[r]]
     /\ UNCHANGED <<customers, accounts, own>>

Moves(r) ==
  /\ orderPc[r] = "confirm" /\ orderPc'[r] = "done"
  /\ Identity!ByEmail(EmailOf[r]) \subseteq {Self[r]}
  /\ \E c \in Identity!Customer :
       /\ c.email = EmailOf[r] /\ c.by = customers[Self[r]].by
       /\ customers' = [customers EXCEPT ![Self[r]] = c]
  /\ got' = [got EXCEPT ![r] = Self[r]]
  /\ UNCHANGED <<accounts, wishlists, own>>

LEMMA CustomerInsertFacts ==
  ASSUME Identity!CustomersAssumption, Identity!TypeOK, NEW r \in OrderRequest,
         NEW phone \in Phone \cup {None},
         NEW password \in BOOLEAN, Identity!Insert(r, phone, password),
         orderPc[r] \in {"create", "noPhone", "save"}, Identity!ByEmail(EmailOf[r]) = {}
  PROVE  Inserts(r)
  <1> DEFINE c == [email |-> EmailOf[r], phone |-> phone, password |-> password, by |-> r]
  <1>1. c \in Identity!Customer /\ c.by = r /\ c.email = EmailOf[r]
    BY DEF Identity!CustomersAssumption, Identity!Customer
  <1>2. customers' = Append(customers, c)
    BY DEF Identity!Insert
  <1>3. /\ orderPc'[r] = "account" /\ own' = [own EXCEPT ![r] = Len(customers) + 1]
        /\ UNCHANGED <<accounts, wishlists, got>>
    BY DEF Identity!Insert, Identity!Goto, Identity!TypeOK
  <1> QED
    BY <1>1, <1>2, <1>3 DEF Inserts

LEMMA CustomerSteps ==
  ASSUME Identity!CustomersAssumption, Identity!TypeOK, CustomerPathInv,
         NEW r \in OrderRequest, Identity!Statement(r)
  PROVE  /\ \A q \in OrderRequest \ {r} : orderPc'[q] = orderPc[q]
         /\ orderPc[r] # "done"
         /\ \/ Looks(r) \/ Finds(r) \/ Inserts(r) \/ ClaimsRecord(r)
            \/ FindsOpen(r) \/ Opens(r) \/ Moves(r)
  <1>1. (\A q \in OrderRequest \ {r} : orderPc'[q] = orderPc[q]) /\ orderPc[r] # "done"
    BY DEF Identity!Statement, Identity!FindBound, Identity!FindGuest, Identity!CreateGuest, Identity!ReadWinner,
           Identity!CreateWithoutPhone, Identity!OpenAccount, Identity!OpenWishlist,
           Identity!ReadByEmail, Identity!ReadByPhone, Identity!SaveRegistration,
           Identity!RequestEmailChange, Identity!ConfirmEmailChange, Identity!Insert,
           Identity!Answer, Identity!Fail, Identity!Goto, Identity!TypeOK
  <1>2. PhoneOf[r] \in Phone \cup {None} /\ None \in Phone \cup {None}
    BY DEF Identity!CustomersAssumption
  <1>14. Bound[r] # None => OrderOp[r] = "guest" /\ orderPc[r] = "read"
    BY <1>1 DEF Identity!CustomersAssumption, CustomerPathInv
  <1> SUFFICES \/ Looks(r) \/ Finds(r) \/ Inserts(r) \/ ClaimsRecord(r)
               \/ FindsOpen(r) \/ Opens(r) \/ Moves(r)
    BY <1>1
  <1> USE <1>14 DEF Takes
  <1>3. CASE Identity!FindGuest(r) \/ Identity!FindBound(r)
    BY <1>3 DEF Identity!FindGuest, Identity!FindBound, Identity!Answer, Identity!Goto, Looks,
       Identity!TypeOK
  <1>4. CASE Identity!CreateGuest(r)
    <2>1. CASE Identity!ByEmail(EmailOf[r]) # {} \/ Identity!ByPhone(PhoneOf[r]) # {}
      BY <1>4, <2>1 DEF Identity!CreateGuest, Identity!Goto, Looks, Identity!TypeOK
    <2>2. CASE ~(Identity!ByEmail(EmailOf[r]) # {} \/ Identity!ByPhone(PhoneOf[r]) # {})
      BY <1>2, <1>4, <2>2, CustomerInsertFacts DEF Identity!CreateGuest
    <2> QED
      BY <2>1, <2>2
  <1>5. CASE Identity!ReadWinner(r)
    BY <1>5 DEF Identity!ReadWinner, Identity!Fail, Identity!Answer, Identity!Goto, Looks,
       Identity!TypeOK
  <1>6. CASE Identity!CreateWithoutPhone(r)
    <2>1. CASE Identity!ByEmail(EmailOf[r]) # {}
      BY <1>6, <2>1 DEF Identity!CreateWithoutPhone, Identity!Fail, Identity!Goto, Looks,
         Identity!TypeOK
    <2>2. CASE Identity!ByEmail(EmailOf[r]) = {}
      BY <1>2, <1>6, <2>2, CustomerInsertFacts DEF Identity!CreateWithoutPhone
    <2> QED
      BY <2>1, <2>2
  <1>7. CASE Identity!OpenAccount(r)
    BY <1>7 DEF Identity!OpenAccount, Identity!Fail, Identity!Goto, FindsOpen, Opens,
       Identity!TypeOK
  <1>8. CASE Identity!OpenWishlist(r)
    BY <1>8 DEF Identity!OpenWishlist, Identity!Fail, Identity!Answer, Identity!Goto,
       FindsOpen, Opens, Identity!TypeOK
  <1>9. CASE Identity!ReadByEmail(r)
    <2> DEFINE k == CHOOSE k \in Identity!ByEmail(EmailOf[r]) : TRUE
    <2>1. CASE Identity!ByEmail(EmailOf[r]) = {} \/ customers[k].password
      BY <1>9, <2>1 DEF Identity!ReadByEmail, Identity!Goto, Looks, Identity!tables,
         Identity!TypeOK
    <2>2. CASE ~(Identity!ByEmail(EmailOf[r]) = {} \/ customers[k].password)
      <3>1. k \in Identity!Matches(r)
        BY <2>2 DEF Identity!Matches
      <3>2. own' = [own EXCEPT ![r] = k]
        BY <1>9, <2>2 DEF Identity!ReadByEmail
      <3> QED
        BY <1>9, <2>2, <3>1, <3>2 DEF Identity!ReadByEmail, Identity!Goto, Finds,
           Identity!TypeOK
    <2> QED
      BY <2>1, <2>2
  <1>10. CASE Identity!ReadByPhone(r)
    BY <1>10 DEF Identity!ReadByPhone, Identity!Goto, Looks, Identity!TypeOK
  <1>11. CASE Identity!SaveRegistration(r)
    <2> DEFINE k == own[r]
    <2>1. CASE Identity!Fail(r)
      BY <1>11, <2>1 DEF Identity!SaveRegistration, Identity!Fail, Identity!Goto, Looks,
         Identity!TypeOK
    <2>2. CASE ~Identity!Fail(r) /\ k = None
      <3>1. /\ Identity!Insert(r, PhoneOf[r], TRUE) /\ orderPc[r] = "save"
            /\ \A other \in Identity!ByEmail(EmailOf[r]) : other = k
        BY <1>11, <2>2 DEF Identity!SaveRegistration
      <3>2. Identity!ByEmail(EmailOf[r]) = {}
        BY <2>2, <3>1, IdFacts DEF Identity!ByEmail, Identity!CustomersAssumption
      <3> QED
        BY <1>2, <3>1, <3>2, CustomerInsertFacts
    <2>3. CASE ~Identity!Fail(r) /\ k # None
      <3>1. k # None /\ k \in Identity!Id
        BY <2>3, IdFacts
      <3>2. /\ customers' = [customers EXCEPT ![k].password = TRUE,
                                              ![k].phone = IF PhoneOf[r] = None THEN @ ELSE PhoneOf[r]]
            /\ orderPc' = [orderPc EXCEPT ![r] = "account"] /\ orderPc[r] = "save"
            /\ UNCHANGED <<accounts, wishlists, own, got>>
        BY <1>11, <2>3 DEF Identity!SaveRegistration, Identity!Goto
      <3> DEFINE c == [customers[k] EXCEPT !.password = TRUE,
                                           !.phone = IF PhoneOf[r] = None THEN @ ELSE PhoneOf[r]]
      <3>3. customers[k] \in Identity!Customer
        BY <3>1, IdFacts DEF Identity!TypeOK
      <3>4. c \in Identity!Customer /\ c.email = customers[k].email /\ c.by = customers[k].by
        BY <1>2, <3>3 DEF Identity!Customer
      <3>5. customers' = [customers EXCEPT ![k] = c]
        BY <3>1, <3>2, <3>3, IdFacts DEF Identity!Customer, Identity!TypeOK
      <3> HIDE DEF c
      <3> QED
        BY <3>1, <3>2, <3>4, <3>5 DEF ClaimsRecord, Identity!TypeOK
    <2> QED
      BY <2>1, <2>2, <2>3
  <1>12. CASE Identity!RequestEmailChange(r)
    BY <1>12 DEF Identity!RequestEmailChange, Identity!Goto, Looks, Identity!TypeOK
  <1>13. CASE Identity!ConfirmEmailChange(r)
    <2> DEFINE k == Self[r]
    <2>1. CASE Identity!ByEmail(EmailOf[r]) \ {k} # {}
      BY <1>13, <2>1 DEF Identity!ConfirmEmailChange, Identity!Goto, Looks, Identity!TypeOK
    <2>2. CASE Identity!ByEmail(EmailOf[r]) \ {k} = {}
      <3>1. /\ customers' = [customers EXCEPT ![k] = [customers[k] EXCEPT !.email = EmailOf[r]]]
            /\ got' = [got EXCEPT ![r] = k]
            /\ orderPc' = [orderPc EXCEPT ![r] = "done"] /\ orderPc[r] = "confirm"
            /\ UNCHANGED <<accounts, wishlists, own>>
        BY <1>13, <2>2 DEF Identity!ConfirmEmailChange, Identity!Answer, Identity!Goto
      <3> DEFINE c == [customers[k] EXCEPT !.email = EmailOf[r]]
      <3>2. customers[k] \in Identity!Customer
        BY IdFacts DEF CustomerPathInv, Identity!CustomersAssumption, Identity!TypeOK
      <3>3. c \in Identity!Customer /\ c.email = EmailOf[r] /\ c.by = customers[k].by
        BY <3>2 DEF Identity!Customer, Identity!CustomersAssumption
      <3> HIDE DEF c
      <3>4. customers' = [customers EXCEPT ![k] = c]
        BY <3>1 DEF c
      <3> QED
        BY <2>2, <3>1, <3>3, <3>4 DEF Moves, Identity!TypeOK
    <2> QED
      BY <2>1, <2>2
  <1> QED
    BY <1>3, <1>4, <1>5, <1>6, <1>7, <1>8, <1>9, <1>10, <1>11, <1>12, <1>13
    DEF Identity!Statement

(* Records are added and changed, never deleted.                           *)
LEMMA TableSteps ==
  ASSUME Identity!CustomersAssumption, Identity!TypeOK, CustomerPathInv,
         NEW r \in OrderRequest, Identity!Statement(r)
  PROVE  /\ customers' \in Seq(Identity!Customer)
         /\ Identity!Id \subseteq Identity!Id' /\ Identity!Id' = DOMAIN customers'
         /\ ~Inserts(r) => Identity!Id' = Identity!Id
         /\ Inserts(r) => /\ Identity!Id' = Identity!Id \cup {Len(customers) + 1}
                          /\ Len(customers) + 1 \notin Identity!Id
  <1>1. customers \in Seq(Identity!Customer) /\ Len(customers) \in Nat
    BY IdFacts DEF Identity!TypeOK
  <1>2. CASE UNCHANGED customers
    <2>1. ~Inserts(r)
      BY <1>1, <1>2 DEF Inserts
    <2> QED
      BY <1>1, <1>2, <2>1 DEF Identity!Id
  <1>3. CASE Inserts(r)
    <2>1. PICK c \in Identity!Customer : customers' = Append(customers, c)
      BY <1>3 DEF Inserts
    <2>2. customers' \in Seq(Identity!Customer) /\ Len(customers') = Len(customers) + 1
      BY <1>1, <2>1
    <2>3. Identity!Id' = 1..(Len(customers) + 1)
      BY <2>2 DEF Identity!Id
    <2> QED
      BY <1>1, <1>3, <2>2, <2>3 DEF Identity!Id
  <1>4. ASSUME NEW k \in Identity!Id, NEW c \in Identity!Customer, customers' = [customers EXCEPT ![k] = c]
        PROVE  customers' \in Seq(Identity!Customer) /\ Len(customers') = Len(customers)
    BY <1>1, <1>4, IdFacts
  <1>5. CASE ClaimsRecord(r) \/ Moves(r)
    <2>1. \E k \in Identity!Id : \E c \in Identity!Customer : customers' = [customers EXCEPT ![k] = c]
      BY <1>5 DEF ClaimsRecord, Moves, CustomerPathInv, Identity!CustomersAssumption
    <2>2. customers' \in Seq(Identity!Customer) /\ Len(customers') = Len(customers)
      BY <1>4, <2>1
    <2>3. ~Inserts(r)
      <3>1. CASE Inserts(r)
        <4>1. PICK c \in Identity!Customer : customers' = Append(customers, c)
          BY <3>1 DEF Inserts
        <4>2. Len(customers') = Len(customers) + 1
          BY <1>1, <4>1
        <4> QED
          BY <1>1, <2>2, <4>2
      <3> QED
        BY <3>1
    <2> QED
      BY <1>1, <2>2, <2>3 DEF Identity!Id
  <1> QED
    BY <1>2, <1>3, <1>5, CustomerSteps DEF Looks, Finds, FindsOpen, Opens, Identity!tables

LEMMA CustomerTypeStep ==
  ASSUME Identity!CustomersAssumption, Identity!TypeOK, CustomerPathInv,
         NEW r \in OrderRequest, Identity!Statement(r)
  PROVE  Identity!TypeOK'
  <1>1. customers' \in Seq(Identity!Customer) /\ Identity!Id \subseteq Identity!Id'
    BY TableSteps
  <1>2. orderPc' \in [OrderRequest -> {"read", "create", "winner", "noPhone", "account", "wishlist",
                             "byPhone", "save", "confirm", "done", "rejected", "failed"}]
    BY DEF Identity!Statement, Identity!FindBound, Identity!FindGuest, Identity!CreateGuest, Identity!ReadWinner,
           Identity!CreateWithoutPhone, Identity!OpenAccount, Identity!OpenWishlist,
           Identity!ReadByEmail, Identity!ReadByPhone, Identity!SaveRegistration,
           Identity!RequestEmailChange, Identity!ConfirmEmailChange, Identity!Insert,
           Identity!Answer, Identity!Fail, Identity!Goto, Identity!TypeOK
  <1>3. accounts' \subseteq Identity!Id' /\ wishlists' \subseteq accounts'
    BY <1>1, CustomerSteps DEF Looks, Finds, Inserts, ClaimsRecord, FindsOpen, Opens, Moves,
       Identity!tables, CustomerPathInv, Identity!TypeOK
  <1>4. own' \in [OrderRequest -> Identity!Id' \cup {None}]
    <2>1. CASE UNCHANGED own
      BY <1>1, <2>1 DEF Identity!TypeOK
    <2>2. CASE Finds(r)
      <3>1. PICK k \in Identity!Matches(r) : own' = [own EXCEPT ![r] = k]
        BY <2>2 DEF Finds
      <3>2. k \in Identity!Id'
        BY <1>1, MatchFacts, IdFacts
      <3> QED
        BY <1>1, <3>1, <3>2 DEF Identity!TypeOK
    <2>3. CASE Inserts(r)
      <3>1. Len(customers) + 1 \in Identity!Id'
        BY <2>3, TableSteps
      <3> QED
        BY <1>1, <2>3, <3>1 DEF Inserts, Identity!TypeOK
    <2> QED
      BY <2>1, <2>2, <2>3, CustomerSteps DEF Looks, ClaimsRecord, FindsOpen, Opens, Moves
  <1>5. got' \in [OrderRequest -> Identity!Id' \cup {None}]
    <2>1. got' = got \/ \E k \in Identity!Id : got' = [got EXCEPT ![r] = k]
      <3>1. CASE Looks(r)
        <4>1. Takes(r) \subseteq Identity!Id
          BY MatchFacts, IdFacts DEF Takes, CustomerPathInv, Identity!CustomersAssumption
        <4> QED
          BY <3>1, <4>1 DEF Looks
      <3>2. CASE Opens(r)
        BY <3>2 DEF Opens, CustomerPathInv
      <3>3. CASE Moves(r)
        BY <3>3 DEF Moves, CustomerPathInv, Identity!CustomersAssumption
      <3> QED
        BY <3>1, <3>2, <3>3, CustomerSteps DEF Finds, Inserts, ClaimsRecord, FindsOpen
    <2> QED
      BY <1>1, <2>1 DEF Identity!TypeOK
  <1> QED
    BY <1>1, <1>2, <1>3, <1>4, <1>5 DEF Identity!TypeOK

LEMMA CustomerPathStep ==
  ASSUME Identity!CustomersAssumption, Identity!TypeOK, CustomerPathInv,
         NEW r \in OrderRequest, Identity!Statement(r)
  PROVE  CustomerPathInv'
  <1>1. Identity!Id \subseteq Identity!Id' /\ accounts \subseteq accounts'
    BY TableSteps, CustomerSteps DEF Looks, Finds, Inserts, ClaimsRecord, FindsOpen, Opens,
       Moves, Identity!tables
  <1>2. \A q \in OrderRequest \ {r} : orderPc'[q] = orderPc[q] /\ own'[q] = own[q] /\ got'[q] = got[q]
    BY CustomerSteps DEF Looks, Finds, Inserts, ClaimsRecord, FindsOpen, Opens, Moves,
       Identity!TypeOK
  <1>3. /\ orderPc'[r] \in {"account", "wishlist"} => own'[r] \in Identity!Id'
        /\ orderPc'[r] = "wishlist" => own'[r] \in accounts'
        /\ orderPc'[r] = "confirm" => OrderOp[r] = "change"
        /\ Bound[r] # None => orderPc'[r] \in {"read", "done"}
        /\ got'[r] # None => orderPc'[r] = "done"
    <2>1. CASE Inserts(r)
      BY <2>1, TableSteps, CustomerSteps DEF Inserts, CustomerPathInv, Identity!TypeOK
    <2>2. CASE ~Inserts(r)
      BY <1>1, <2>2, CustomerSteps DEF Looks, Finds, ClaimsRecord, FindsOpen, Opens, Moves,
         CustomerPathInv
    <2> QED
      BY <2>1, <2>2
  <1> QED
    BY <1>1, <1>2, <1>3 DEF CustomerPathInv

LEMMA CustomerOpenStep ==
  ASSUME Identity!CustomersAssumption, Identity!TypeOK, CustomerPathInv, CustomerOpenInv,
         NEW r \in OrderRequest, Identity!Statement(r)
  PROVE  CustomerOpenInv'
  <1>1. \A q \in OrderRequest \ {r} : orderPc'[q] = orderPc[q] /\ own'[q] = own[q]
    BY CustomerSteps DEF Looks, Finds, Inserts, ClaimsRecord, FindsOpen, Opens, Moves,
       Identity!TypeOK
  <1>2. SUFFICES ASSUME NEW k \in Identity!Id', k \notin wishlists'
                 PROVE  /\ Opening(k, "account")' \/ Opening(k, "wishlist")'
                        /\ k \in accounts' => Opening(k, "wishlist")'
    <2>1. accounts' \subseteq Identity!Id'
      BY CustomerTypeStep DEF Identity!TypeOK
    <2> QED
      BY <1>2, <2>1 DEF CustomerOpenInv
  <1>3. CASE Looks(r) \/ Finds(r) \/ Moves(r) \/ ClaimsRecord(r)
    <2>1. k \in Identity!Id /\ UNCHANGED <<accounts, wishlists>> /\ orderPc[r] \notin {"account", "wishlist"}
      <3>1. ~Inserts(r)
        BY <1>3 DEF Looks, Finds, Moves, ClaimsRecord, Inserts, Identity!tables, Identity!TypeOK
      <3> QED
        BY <1>2, <1>3, <3>1, TableSteps DEF Looks, Finds, Moves, ClaimsRecord, Identity!tables
    <2> QED
      BY <1>1, <1>2, <2>1 DEF CustomerOpenInv, Opening
  <1>4. CASE Inserts(r)
    <2>1. CASE k = Len(customers) + 1
      <3>1. k \notin accounts'
        BY <1>4, <2>1, TableSteps DEF Inserts, Identity!TypeOK
      <3> QED
        BY <1>4, <2>1, <3>1 DEF Inserts, Opening, Identity!TypeOK
    <2>2. CASE k # Len(customers) + 1
      <3>1. k \in Identity!Id /\ UNCHANGED <<accounts, wishlists>> /\ orderPc[r] \notin {"account", "wishlist"}
        <4>1. Identity!Id' = Identity!Id \cup {Len(customers) + 1}
          BY <1>4, TableSteps
        <4> QED
          BY <1>2, <1>4, <2>2, <4>1 DEF Inserts
      <3> QED
        BY <1>1, <1>2, <3>1 DEF CustomerOpenInv, Opening
    <2> QED
      BY <2>1, <2>2
  <1>5. CASE FindsOpen(r)
    <2>1. k \in Identity!Id /\ UNCHANGED <<accounts, wishlists>>
      BY <1>2, <1>5, TableSteps DEF FindsOpen, Inserts, Identity!tables
    <2>2. own[r] = k => orderPc[r] = "account" /\ k \in accounts
      BY <1>2, <1>5, <2>1 DEF FindsOpen
    <2> QED
      BY <1>1, <1>2, <2>1, <2>2 DEF CustomerOpenInv, Opening
  <1>6. CASE Opens(r)
    <2>1. k \in Identity!Id /\ UNCHANGED own
      BY <1>2, <1>6, TableSteps DEF Opens, Inserts
    <2>2. CASE own[r] = k
      BY <1>2, <1>6, <2>1, <2>2 DEF Opens, Opening
    <2>3. CASE own[r] # k
      BY <1>1, <1>2, <1>6, <2>1, <2>3 DEF Opens, CustomerOpenInv, Opening
    <2> QED
      BY <2>2, <2>3
  <1> QED
    BY <1>3, <1>4, <1>5, <1>6, CustomerSteps

-----------------------------------------------------------------------------
(* A record keeps its address and its origin, unless its owner moves.      *)
LEMMA RecordStep ==
  ASSUME Identity!CustomersAssumption, Identity!TypeOK, CustomerPathInv,
         NEW r \in OrderRequest, Identity!Statement(r)
  PROVE  /\ \A k : Identity!Moved(k) => Identity!Moved(k)'
         /\ \A k \in Identity!Id :
              /\ customers'[k].by = customers[k].by
              /\ Identity!Moved(k)' \/ customers'[k].email = customers[k].email
  <1>1. \A q \in OrderRequest : got[q] # None => got'[q] = got[q]
    BY CustomerSteps DEF Looks, Finds, Inserts, ClaimsRecord, FindsOpen, Opens, Moves,
       CustomerPathInv, Identity!TypeOK
  <1>2. \A k : Identity!Moved(k) => Identity!Moved(k)'
    BY <1>1 DEF Identity!Moved
  <1>3. CASE UNCHANGED customers
    BY <1>2, <1>3
  <1>4. CASE Inserts(r)
    <2>1. PICK c \in Identity!Customer : customers' = Append(customers, c)
      BY <1>4 DEF Inserts
    <2>2. \A k \in Identity!Id : customers'[k] = customers[k]
      BY <2>1, IdFacts DEF Identity!TypeOK, Identity!Id
    <2> QED
      BY <1>2, <2>2
  <1>5. CASE ClaimsRecord(r)
    <2>1. PICK c \in Identity!Customer :
            /\ c.email = customers[own[r]].email /\ c.by = customers[own[r]].by
            /\ customers' = [customers EXCEPT ![own[r]] = c]
      BY <1>5 DEF ClaimsRecord
    <2> QED
      BY <1>2, <2>1, IdFacts
  <1>6. CASE Moves(r)
    <2>1. PICK c \in Identity!Customer :
            /\ c.email = EmailOf[r] /\ c.by = customers[Self[r]].by
            /\ customers' = [customers EXCEPT ![Self[r]] = c]
      BY <1>6 DEF Moves
    <2>2. OrderOp[r] = "change" /\ Self[r] \in DOMAIN Known /\ Self[r] \in Identity!Id
      BY <1>6 DEF Moves, CustomerPathInv, Identity!CustomersAssumption
    <2>3. got'[r] # None /\ Identity!Moved(Self[r])'
      BY <1>6, <2>2 DEF Moves, Identity!TypeOK, Identity!Moved, Identity!CustomersAssumption
    <2> QED
      BY <1>2, <2>1, <2>3, IdFacts
  <1> QED
    BY <1>3, <1>4, <1>5, <1>6, CustomerSteps DEF Looks, Finds, FindsOpen, Opens, Identity!tables

LEMMA AddressStep ==
  ASSUME Identity!CustomersAssumption, Identity!TypeOK, CustomerPathInv, AddressInv,
         NEW r \in OrderRequest, Identity!Statement(r)
  PROVE  AddressInv'
  <1>1. \A k \in DOMAIN Known :
          customers'[k].by = None /\ (Identity!Moved(k)' \/ customers'[k].email = Known[k].email)
    BY RecordStep DEF AddressInv, CustomerPathInv
  <1>2. SUFFICES \A j, k \in Identity!Id' :
                   customers'[j].email = customers'[k].email => j = k \/ customers'[k].email = None
    BY <1>1 DEF AddressInv
  <1>3. CASE UNCHANGED customers
    BY <1>3 DEF AddressInv, Identity!Id
  <1>4. ASSUME NEW n, NEW e, Identity!ByEmail(e) \subseteq {n}, customers'[n].email = e,
               \A k \in Identity!Id' \ {n} : k \in Identity!Id /\ customers'[k].email = customers[k].email
        PROVE  \A j, k \in Identity!Id' :
                 customers'[j].email = customers'[k].email => j = k \/ customers'[k].email = None
    <2>1. \A k \in Identity!Id' \ {n} : e # None => customers'[k].email # e
      BY <1>4, IdFacts DEF Identity!ByEmail
    <2> QED
      BY <1>4, <2>1 DEF AddressInv
  <1>5. CASE Inserts(r)
    <2> DEFINE n == Len(customers) + 1
    <2>1. PICK c \in Identity!Customer : c.email = EmailOf[r] /\ customers' = Append(customers, c)
      BY <1>5 DEF Inserts
    <2>2. customers'[n] = c /\ \A k \in Identity!Id : customers'[k] = customers[k]
      BY <2>1, IdFacts DEF Identity!TypeOK, Identity!Id
    <2>3. Identity!Id' = Identity!Id \cup {n} /\ Identity!ByEmail(EmailOf[r]) \subseteq {n}
      BY <1>5, TableSteps DEF Inserts
    <2> HIDE DEF n
    <2> QED
      BY <1>4, <2>1, <2>2, <2>3
  <1>6. CASE Moves(r)
    <2>1. PICK c \in Identity!Customer : c.email = EmailOf[r] /\ customers' = [customers EXCEPT ![Self[r]] = c]
      BY <1>6 DEF Moves
    <2>2. Identity!Id' = Identity!Id
      BY <1>6, TableSteps DEF Moves, Inserts, Identity!TypeOK
    <2>3. Self[r] \in Identity!Id
      BY DEF CustomerPathInv, Identity!CustomersAssumption
    <2> QED
      BY <1>4, <1>6, <2>1, <2>2, <2>3, IdFacts DEF Moves
  <1>7. CASE ClaimsRecord(r)
    <2>1. PICK c \in Identity!Customer :
            c.email = customers[own[r]].email /\ customers' = [customers EXCEPT ![own[r]] = c]
      BY <1>7 DEF ClaimsRecord
    <2>2. Identity!Id' = Identity!Id
      BY <1>7, TableSteps DEF ClaimsRecord, Inserts, Identity!TypeOK
    <2>3. \A k \in Identity!Id : customers'[k].email = customers[k].email
      BY <2>1, <1>7, IdFacts DEF ClaimsRecord
    <2> QED
      BY <2>2, <2>3 DEF AddressInv
  <1> QED
    BY <1>3, <1>5, <1>6, <1>7, CustomerSteps DEF Looks, Finds, FindsOpen, Opens, Identity!tables

LEMMA PersonStep ==
  ASSUME Identity!CustomersAssumption, Identity!TypeOK, CustomerPathInv, PersonInv,
         NEW r \in OrderRequest, Identity!Statement(r)
  PROVE  PersonInv'
  <1>1. ASSUME NEW q \in OrderRequest, NEW k \in Identity!Id, Identity!Moved(k) \/ Right(q, k)
        PROVE  Identity!Moved(k)' \/ Right(q, k)'
    BY <1>1, RecordStep DEF Right
  <1>2. \A q \in OrderRequest \ {r} : own'[q] = own[q] /\ got'[q] = got[q]
    BY CustomerSteps DEF Looks, Finds, Inserts, ClaimsRecord, FindsOpen, Opens, Moves,
       Identity!TypeOK
  <1>3. ASSUME NEW q \in OrderRequest, OrderOp[q] # "change", NEW k, k = own[q], k # None
        PROVE  k \in Identity!Id /\ (Identity!Moved(k)' \/ Right(q, k)')
    BY <1>1, <1>3, IdFacts DEF PersonInv
  <1>4. ASSUME NEW q \in OrderRequest, OrderOp[q] # "change", NEW k, k = own'[q], k # None
        PROVE  Identity!Moved(k)' \/ Right(q, k)'
    <2>1. CASE k = own[q]
      BY <1>3, <1>4, <2>1
    <2>2. CASE Finds(r) /\ q = r
      <3>1. k \in Identity!Matches(r) /\ Bound[r] = None
        BY <1>4, <2>2 DEF Finds, Identity!TypeOK
      <3>2. k \in Identity!Id /\ Right(q, k)
        BY <2>2, <3>1, MatchFacts, IdFacts DEF Right
      <3> QED
        BY <1>1, <3>2
    <2>3. CASE Inserts(r) /\ q = r
      <3>1. PICK c \in Identity!Customer :
              c.by = r /\ c.email = EmailOf[r] /\ customers' = Append(customers, c)
        BY <2>3 DEF Inserts
      <3>2. k = Len(customers) + 1 /\ Bound[r] = None
        BY <1>4, <2>3 DEF Inserts, Identity!TypeOK, CustomerPathInv
      <3>3. customers'[k] = c
        BY <3>1, <3>2 DEF Identity!TypeOK
      <3> QED
        BY <2>3, <3>1, <3>2, <3>3 DEF Right
    <2> QED
      BY <1>2, <1>4, <2>1, <2>2, <2>3, CustomerSteps
      DEF Looks, ClaimsRecord, FindsOpen, Opens, Moves
  <1>5. ASSUME NEW q \in OrderRequest, OrderOp[q] # "change", NEW k, k = got'[q], k # None
        PROVE  Identity!Moved(k)' \/ Right(q, k)'
    <2>1. CASE k = got[q]
      BY <1>1, <1>5, <2>1 DEF PersonInv, Identity!TypeOK
    <2>2. CASE k = own[q]
      BY <1>3, <1>5, <2>2
    <2>3. CASE Looks(r) /\ q = r /\ ~UNCHANGED got
      <3>1. k \in Takes(r)
        BY <1>5, <2>3 DEF Looks, Identity!TypeOK
      <3>2. k \in Identity!Id /\ Right(q, k)
        BY <2>3, <3>1, MatchFacts, IdFacts
        DEF Takes, Right, CustomerPathInv, Identity!CustomersAssumption
      <3> QED
        BY <1>1, <3>2
    <2>4. CASE Opens(r) /\ q = r
      BY <1>5, <2>1, <2>2, <2>4 DEF Opens, Identity!TypeOK
    <2>5. ~(Moves(r) /\ q = r)
      BY <1>5 DEF Moves, CustomerPathInv
    <2> QED
      BY <1>2, <1>5, <2>1, <2>3, <2>4, <2>5, CustomerSteps
      DEF Finds, Inserts, ClaimsRecord, FindsOpen
  <1> QED
    BY <1>4, <1>5 DEF PersonInv

-----------------------------------------------------------------------------
LEMMA CustomerInit == ASSUME Identity!CustomersAssumption, Identity!Init PROVE CustomerInv
  <1>1. customers = Known /\ Known \in Seq(Identity!Customer) /\ Identity!Id = DOMAIN Known
    BY DEF Identity!Init, Identity!Id, Identity!CustomersAssumption
  <1>2. Identity!TypeOK
    BY <1>1 DEF Identity!Init, Identity!TypeOK
  <1>3. CustomerPathInv /\ CustomerOpenInv
    BY <1>1 DEF Identity!Init, CustomerPathInv, CustomerOpenInv
  <1>4. AddressInv /\ PersonInv
    BY <1>1 DEF Identity!Init, Identity!CustomersAssumption, AddressInv, PersonInv
  <1> QED
    BY <1>2, <1>3, <1>4 DEF CustomerInv

LEMMA CustomerNext ==
  ASSUME Identity!CustomersAssumption, CustomerInv, [Identity!Next]_(Identity!vars)
  PROVE  CustomerInv'
  <1>1. CASE UNCHANGED Identity!vars
    BY <1>1 DEF Identity!vars, Identity!tables, CustomerInv, Identity!TypeOK, CustomerPathInv,
       CustomerOpenInv, Opening, Identity!Id, AddressInv, PersonInv, Right, Identity!Moved
  <1>2. ASSUME NEW r \in OrderRequest, Identity!Statement(r) PROVE CustomerInv'
    BY <1>2, CustomerTypeStep, CustomerPathStep, CustomerOpenStep, AddressStep, PersonStep
    DEF CustomerInv
  <1> QED
    BY <1>1, <1>2, CustomerNextCases

LEMMA CustomerInductive ==
  ASSUME Identity!CustomersAssumption
  PROVE  Identity!Spec => []CustomerInv
  BY CustomerInit, CustomerNext, PTL DEF Identity!Spec

(* Nothing is left to be opened once every request was answered.           *)
LEMMA CustomersComplete == ASSUME CustomerInv PROVE Identity!AccountsComplete
  <1> SUFFICES ASSUME Identity!Answered, NEW r \in OrderRequest, got[r] # None
               PROVE  got[r] \in accounts \cap wishlists
    BY DEF Identity!AccountsComplete
  <1>1. got[r] \in Identity!Id
    BY DEF CustomerInv, Identity!TypeOK
  <1>2. \A k \in Identity!Id : ~Opening(k, "account") /\ ~Opening(k, "wishlist")
    BY DEF Identity!Answered, Opening
  <1>3. got[r] \in wishlists
    BY <1>1, <1>2 DEF CustomerInv, CustomerOpenInv
  <1> QED
    BY <1>3 DEF CustomerInv, Identity!TypeOK

(* One record is of one person, and one person's are one.                  *)
LEMMA OneRecord ==
  ASSUME Identity!CustomersAssumption, CustomerInv
  PROVE  Identity!OneRecordPerPerson
  <1> USE DEF Identity!PersonOf
  <1> SUFFICES ASSUME NEW r \in Identity!Served, NEW q \in Identity!Served,
                      ~Identity!Moved(got[r]), ~Identity!Moved(got[q])
               PROVE  got[r] = got[q] <=> Identity!PersonOf(r) = Identity!PersonOf(q)
    BY DEF Identity!OneRecordPerPerson
  <1> DEFINE Pair(x, y) == got[x] = got[y] <=> Identity!PersonOf(x) = Identity!PersonOf(y)
  <1>1. \A x \in {r, q} :
          /\ x \in OrderRequest /\ got[x] \in Identity!Id /\ Right(x, got[x])
          /\ \A k \in DOMAIN Known : got[x] = k => customers[k].email = Known[k].email
    BY DEF CustomerInv, Identity!TypeOK, PersonInv, AddressInv, Identity!Served
  <1>2. ASSUME NEW x \in {r, q}, NEW y \in {r, q}, Bound[x] # None, Bound[y] # None
        PROVE  Pair(x, y)
    BY <1>1, <1>2 DEF Right
  <1>3. ASSUME NEW x \in {r, q}, NEW y \in {r, q}, Bound[x] # None, Bound[y] = None,
               EmailOf[y] # None
        PROVE  Pair(x, y)
    <2>1. Bound[x] \in DOMAIN Known /\ got[x] = Bound[x] /\ customers[got[y]].email = EmailOf[y]
      BY <1>1, <1>3 DEF Right, Identity!CustomersAssumption
    <2>2. customers[Bound[x]].email = Known[Bound[x]].email /\ Bound[x] \in Identity!Id
      BY <1>1, <2>1
    <2>3. got[y] = Bound[x] <=> Bound[x] \in Identity!Named(EmailOf[y])
      BY <1>1, <1>3, <2>1, <2>2 DEF Identity!Named, CustomerInv, AddressInv
    <2>4. Bound[x] \in Identity!Named(EmailOf[y]) <=> Identity!Named(EmailOf[y]) = {Bound[x]}
      BY DEF Identity!Named, Identity!CustomersAssumption
    <2> QED
      BY <1>3, <2>1, <2>3, <2>4
  <1>4. ASSUME NEW x \in {r, q}, NEW y \in {r, q}, Bound[x] # None, Bound[y] = None,
               EmailOf[y] = None
        PROVE  Pair(x, y)
    <2>1. got[x] \in DOMAIN Known /\ customers[got[y]].by = y /\ y # None
      BY <1>1, <1>4 DEF Right, Identity!CustomersAssumption
    <2>2. got[x] # got[y]
      BY <2>1 DEF CustomerInv, AddressInv
    <2> QED
      BY <1>4, <2>2 DEF Identity!Named
  <1>5. ASSUME NEW x \in {r, q}, NEW y \in {r, q}, Bound[x] = None, Bound[y] = None,
               EmailOf[x] # None, EmailOf[y] # None
        PROVE  Pair(x, y)
    <2>1. got[x] = got[y] <=> EmailOf[x] = EmailOf[y]
      BY <1>1, <1>5 DEF Right, CustomerInv, AddressInv
    <2>2. Identity!Named(EmailOf[x]) = Identity!Named(EmailOf[y]) /\ Identity!Named(EmailOf[x]) # {}
            => EmailOf[x] = EmailOf[y]
      BY DEF Identity!Named
    <2> QED
      BY <1>5, <2>1, <2>2
  <1>6. ASSUME NEW x \in {r, q}, NEW y \in {r, q}, Bound[x] = None, Bound[y] = None,
               EmailOf[x] # None, EmailOf[y] = None
        PROVE  Pair(x, y)
    BY <1>1, <1>6 DEF Right, Identity!Named
  <1>7. ASSUME NEW x \in {r, q}, NEW y \in {r, q}, Bound[x] = None, Bound[y] = None,
               EmailOf[x] = None, EmailOf[y] = None
        PROVE  Pair(x, y)
    BY <1>1, <1>7 DEF Right, Identity!Named
  <1>8. Pair(r, q) \/ Pair(q, r)
    BY <1>2, <1>3, <1>4, <1>5, <1>6, <1>7
  <1> QED
    BY <1>8

-----------------------------------------------------------------------------
(* The whole: the part a behaviour picked keeps its inductive invariant.   *)
CartInv      == part = "cart" => LineInv
IdentityInv  == part = "identity" => CustomerInv
SessionInv   == part = "session" => Session!IInv
HeartInv     == part = "favourite" => FavouriteInv
ListInv      == part = "birthday" => BirthdayInv
TeamInv      == part = "team" => Team!IInv
PeopleInv == CartInv /\ IdentityInv /\ SessionInv /\ HeartInv /\ ListInv /\ TeamInv

(* A step of the whole is a step of the part, or none of it.               *)
LEMMA StepOfPart ==
  ASSUME [Next]_vars
  PROVE  /\ part' = part
         /\ part = "cart" => [Cart!Next]_(Cart!vars)
         /\ part = "identity" => [Identity!Next]_(Identity!vars)
         /\ part = "session" => [Session!Next]_(Session!vars)
         /\ part = "favourite" => [Favourite!Next]_(Favourite!vars)
         /\ part = "birthday" => [Birthday!Next]_(Birthday!vars)
         /\ part = "team" => [Team!Next]_(Team!vars)
  <1>1. CASE UNCHANGED vars
    <2>1. UNCHANGED <<part, Cart!vars, Identity!vars, Session!vars>>
      BY <1>1 DEF vars, cartVars, identityVars, sessionVars,
                  Cart!vars, Cart!cartVars, Cart!lineVars, Identity!vars, Identity!tables,
                  Session!vars, Session!api, Session!browser, Session!ended
    <2>2. UNCHANGED <<Favourite!vars, Birthday!vars, Team!vars>>
      BY <1>1 DEF vars, favouriteVars, birthdayVars, teamVars, Favourite!vars, Favourite!shown,
                  Favourite!ghost, Birthday!vars, Team!vars
    <2> QED
      BY <2>1, <2>2
  <1>2. CASE CartStep
    BY <1>2 DEF CartStep
  <1>3. CASE IdentityStep
    BY <1>3 DEF IdentityStep
  <1>4. CASE SessionStep
    BY <1>4 DEF SessionStep
  <1>5. CASE FavouriteStep
    BY <1>5 DEF FavouriteStep
  <1>6. CASE BirthdayStep
    BY <1>6 DEF BirthdayStep
  <1>7. CASE TeamStep
    BY <1>7 DEF TeamStep
  <1> QED
    BY <1>1, <1>2, <1>3, <1>4, <1>5, <1>6, <1>7 DEF Next

LEMMA PeopleInit == Init => PeopleInv
  <1> SUFFICES ASSUME Init PROVE PeopleInv
    OBVIOUS
  <1>1. CartInv
    BY PeopleAssumption, LineInit DEF Init, CartInv
  <1>2. IdentityInv
    BY PeopleAssumption, CustomerInit DEF Init, IdentityInv
  <1>3. SessionInv
    BY PeopleAssumption, Session!InitInv DEF Init, SessionInv
  <1>4. HeartInv
    BY PeopleAssumption, FavouriteInit DEF Init, HeartInv
  <1>5. ListInv
    BY PeopleAssumption, BirthdayInit DEF Init, ListInv
  <1>6. TeamInv
    BY PeopleAssumption, Team!InitInv DEF Init, TeamInv
  <1> QED
    BY <1>1, <1>2, <1>3, <1>4, <1>5, <1>6 DEF PeopleInv

LEMMA PeopleNext == PeopleInv /\ [Next]_vars => PeopleInv'
  <1> SUFFICES ASSUME PeopleInv, [Next]_vars PROVE PeopleInv'
    OBVIOUS
  <1> USE StepOfPart, PeopleAssumption DEF PeopleInv
  <1>1. CartInv'
    BY LineNext DEF CartInv
  <1>2. IdentityInv'
    BY CustomerNext DEF IdentityInv
  <1>3. SessionInv'
    BY Session!NextInv DEF SessionInv
  <1>4. HeartInv'
    BY FavouriteNext DEF HeartInv
  <1>5. ListInv'
    BY BirthdayNext DEF ListInv
  <1>6. TeamInv'
    BY Team!NextInv DEF TeamInv
  <1> QED
    BY <1>1, <1>2, <1>3, <1>4, <1>5, <1>6

LEMMA PeopleInductive == Spec => []PeopleInv
  BY PeopleInit, PeopleNext, PTL DEF Spec

-----------------------------------------------------------------------------
(* The tables of carts, customers, sessions, favourites, birthday lists    *)
(* and staff hold what their columns and keys allow, whatever requests     *)
(* overlap: CartService, CustomerAuthService, OrdersService.resolveCustomer,*)
(* useWishlist, BirthdayListService, StaffUsersService, RolesService.      *)
THEOREM TablesKeepTheirTypes == Spec => []TypeOK
  <1>1. PeopleInv => TypeOK
    BY DEF PeopleInv, CartInv, IdentityInv, SessionInv, HeartInv, ListInv, TeamInv, TypeOK,
           LineInv, CustomerInv, Session!IInv, FavouriteInv, BirthdayInv, Team!IInv
  <1> QED
    BY <1>1, PeopleInductive, PTL

(* However many requests add a product to a cart at once, by its token or  *)
(* by its link, the product keeps one line: CartService.addLine.           *)
THEOREM ProductHasOneLine == Spec => []OneLinePerProduct
  <1>1. PeopleInv => OneLinePerProduct
    BY OneLine DEF PeopleInv, CartInv, OneLinePerProduct
  <1> QED
    BY <1>1, PeopleInductive, PTL

(* No piece that CartService.addLine acknowledged is lost or counts twice, *)
(* except where updateLine typed a quantity in between the two statements  *)
(* of an add.                                                              *)
THEOREM AddedPiecesCount == Spec => []AddsAddUp
  <1>1. PeopleInv => AddsAddUp
    BY DEF PeopleInv, CartInv, LineInv, AddsAddUp
  <1> QED
    BY <1>1, PeopleInductive, PTL

(* Whoever an order or a registration was for has a loyalty account and a  *)
(* wishlist once all requests are answered, though any number of them      *)
(* create the two at once: OrdersService.resolveCustomer, register.        *)
THEOREM ServedCustomersAreComplete == Spec => []AccountsComplete
  <1>1. PeopleInv => AccountsComplete
    BY CustomersComplete DEF PeopleInv, IdentityInv, AccountsComplete
  <1> QED
    BY <1>1, PeopleInductive, PTL

(* One login never has two refresh tokens that work, issued or about to    *)
(* be: refresh of CustomerAuthService and StaffAuthService consumes a token*)
(* under its row lock before it issues the next.                           *)
THEOREM OneLoginOneToken == Spec => []OneTokenPerLogin
  <1>1. PeopleInv => OneTokenPerLogin
    BY Session!OneToken DEF PeopleInv, SessionInv, OneTokenPerLogin
  <1> QED
    BY <1>1, PeopleInductive, PTL

(* However many tabs refresh, log in and log out, the token a browser      *)
(* keeps while none of them refreshes works, unless a tab gave up on an    *)
(* answer, the token ran its thirty days or all sessions were closed:      *)
(* refreshCustomerAccessToken, refreshStaffAccessToken.                    *)
THEOREM BrowserTokenWorks == Spec => []StoredTokenWorks
  <1>1. PeopleInv => StoredTokenWorks
    BY PeopleAssumption, Session!TokenWorks DEF PeopleAssumption, PeopleInv, SessionInv, StoredTokenWorks
  <1> QED
    BY <1>1, PeopleInductive, PTL

(* The heart buttons of any number of tabs move a guest's favourites to    *)
(* the account without losing one, unless a post failed or a tab was closed*)
(* before it, and one login posts one favourite once: useWishlist, whose   *)
(* flag guestMergeInFlight is per tab.                                     *)
THEOREM FavouritesMoveOnce == Spec => []NoFavouriteLost
  <1>1. PeopleInv => NoFavouriteLost
    BY PeopleAssumption, PostedOnce DEF PeopleAssumption, PeopleInv, HeartInv, NoFavouriteLost
  <1> QED
    BY <1>1, PeopleInductive, PTL

(* A gift is promised to one guest, stays his as long as it is on the list,*)
(* and one that is reserved for a guest who was not told so is one whose   *)
(* answer is under way or lost: BirthdayListService.reserveItem.           *)
THEOREM GiftsArePromisedOnce == Spec => []PromiseKept
  <1>1. PeopleInv => PromiseKept
    BY ClaimsArePromises DEF PeopleInv, ListInv, BirthdayInv, PromiseKept
  <1> QED
    BY <1>1, PeopleInductive, PTL

(* Super administrators who are written off one at a time leave one: the   *)
(* count of StaffUsersService.update fails only when two are written off,  *)
(* or one is promoted and written off, at the same time, and when one is   *)
(* given another role, which nothing checks.                               *)
THEOREM OneAdminIsLeft == Spec => []AdminsGoOneByOne
  <1>1. PeopleInv => AdminsGoOneByOne
    BY DEF PeopleInv, TeamInv, AdminsGoOneByOne,
           Team!IInv, Team!AdminInv, Team!Excused, Team!AdminsGoOneByOne
  <1> QED
    BY <1>1, PeopleInductive, PTL

(* A role grants the codes of its last save, unless two saves of it        *)
(* overlapped: RolesService.update deletes the codes and creates them anew.*)
THEOREM RoleIsOneSave == Spec => []RoleIsLastSave
  <1>1. PeopleInv => RoleIsLastSave
    BY DEF PeopleInv, TeamInv, RoleIsLastSave, Team!IInv, Team!SaveInv
  <1> QED
    BY <1>1, PeopleInductive, PTL

(* Orders and registrations are of one record exactly when they are of one *)
(* person: the customer of the cart, else whoever the email names, and a   *)
(* shared phone number joins nobody: OrdersService.resolveCustomer and     *)
(* register, whatever lookups, inserts and retries interleave.             *)
THEOREM PersonHasOneRecord == Spec => []OneRecordPerPerson
  <1>1. PeopleInv => OneRecordPerPerson
    BY PeopleAssumption, OneRecord DEF PeopleAssumption, PeopleInv, IdentityInv, OneRecordPerPerson
  <1> QED
    BY <1>1, PeopleInductive, PTL

(* Who logged out with no refresh under way, or had all sessions closed    *)
(* while none was renewed, has no token that works ever after, whatever    *)
(* call comes late and though a closed account is opened again: logout,    *)
(* refresh, changePassword, StaffUsersService.update.                      *)
THEOREM WhoLeavesStaysOut == Spec => []OutForGood
  <1>1. PeopleInv => OutForGood
    BY DEF PeopleInv, SessionInv, OutForGood, Session!IInv, Session!PartInv, Session!SweptInv,
           Session!OutForGood
  <1> QED
    BY <1>1, PeopleInductive, PTL
=============================================================================

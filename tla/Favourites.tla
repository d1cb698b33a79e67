----------------------------- MODULE Favourites -----------------------------
(***************************************************************************)
(* The favourites of a visitor: in localStorage for a guest, in the        *)
(* account's wishlist once logged in, and merged into it at login. Every   *)
(* heart button on a page is an instance of useWishlist; the instances of  *)
(* a tab share the flag guestMergeInFlight, the tabs share localStorage.   *)
(***************************************************************************)
EXTENDS Naturals, FiniteSets

CONSTANTS
  Product,
  Heart,      \* instances of useWishlist
  Tab,
  TabOf,      \* the tab of a heart
  MaxToggles, \* bound: clicks on hearts
  MaxLogins   \* bound: logins

FavouritesAssumption == IsFiniteSet(Heart) /\ TabOf \in [Heart -> Tab]

VARIABLES
  loggedIn,  \* localStorage holds a token
  guest,     \* localStorage: the favourites of a guest
  saved,     \* the account's WishlistLines that are not removed
  flag,      \* guestMergeInFlight, per tab
  rendered,  \* the loggedIn a heart has run its effects for, or "unknown"
  todo,      \* the guest favourites a heart has still to post
  lines,     \* what a heart shows, of any age
  toggles, logins,
  posts,     \* history: how often the merges posted a product
  wanted,    \* history: what the visitor marked and did not unmark
  failed     \* history: a call failed, or a tab was closed during a merge

shown == <<rendered, lines>>
ghost == <<posts, wanted, failed>>
vars  == <<loggedIn, guest, saved, flag, shown, todo, toggles, logins, ghost>>

Init ==
  /\ loggedIn = FALSE
  /\ guest = {} /\ saved = {}
  /\ flag = [t \in Tab |-> FALSE]
  /\ rendered = [h \in Heart |-> "unknown"]
  /\ todo = [h \in Heart |-> {}]
  /\ lines = [h \in Heart |-> {}]
  /\ toggles = 0 /\ logins = 0
  /\ posts = [p \in Product |-> 0]
  /\ wanted = {} /\ failed = FALSE

(* setLines; writeAll tells every heart of the browser.                    *)
Show(h, list) == lines' = [lines EXCEPT ![h] = list]
ShowAll(list) == lines' = [h \in Heart |-> list]

-----------------------------------------------------------------------------
Login ==
  /\ ~loggedIn /\ logins < MaxLogins
  /\ loggedIn' = TRUE
  /\ logins' = logins + 1
  /\ UNCHANGED <<guest, saved, flag, shown, todo, toggles, ghost>>

Logout ==
  /\ loggedIn
  /\ loggedIn' = FALSE
  /\ UNCHANGED <<guest, saved, flag, shown, todo, toggles, logins, ghost>>

(* One merge per tab, until its visitor logs out.                          *)
MayMerge(h) == ~flag[TabOf[h]]

(* clearGuestWishlist, before the first await.                             *)
Erase(h) == guest' = {}

(* The effects of a heart that renders after a login.                      *)
MergeEffect(h) ==
  /\ loggedIn /\ rendered[h] # "in"
  /\ rendered' = [rendered EXCEPT ![h] = "in"]
  /\ IF ~MayMerge(h)
     THEN UNCHANGED <<guest, flag, todo, lines>>
     ELSE IF guest = {}
     THEN Show(h, saved) /\ UNCHANGED <<guest, flag, todo>>
     ELSE /\ flag' = [flag EXCEPT ![TabOf[h]] = TRUE]
          /\ Erase(h)
          /\ todo' = [todo EXCEPT ![h] = @ \cup guest]
          /\ UNCHANGED lines
  /\ UNCHANGED <<loggedIn, saved, toggles, logins, ghost>>

(* The effects of a heart that renders for a guest.                        *)
GuestEffect(h) ==
  /\ ~loggedIn /\ rendered[h] # "out"
  /\ rendered' = [rendered EXCEPT ![h] = "out"]
  /\ flag' = [flag EXCEPT ![TabOf[h]] = FALSE]
  /\ Show(h, guest)
  /\ UNCHANGED <<loggedIn, guest, saved, todo, toggles, logins, ghost>>

(* The account's list without the line just added.                         *)
MutSave(p) == saved' = {p}

(* WishlistService.add: an upsert on (wishlist, product).                  *)
Save(p) == saved' = saved \cup {p}

(* addToWishlist for the next favourite of a merge; its errors are         *)
(* swallowed (no token any more, network, 401).                            *)
Post(h) ==
  \E p \in todo[h] :
    /\ todo' = [todo EXCEPT ![h] = @ \ {p}]
    /\ posts' = [posts EXCEPT ![p] = @ + 1]
    /\ \/ loggedIn /\ Save(p) /\ UNCHANGED failed
       \/ failed' = TRUE /\ UNCHANGED saved
    /\ UNCHANGED <<loggedIn, guest, flag, rendered, lines, toggles, logins, wanted>>

(* The tab is closed or reloaded: what it had still to post is gone.       *)
CloseTab(t) ==
  /\ \E h \in Heart : TabOf[h] = t /\ todo[h] # {}
  /\ todo' = [h \in Heart |-> IF TabOf[h] = t THEN {} ELSE todo[h]]
  /\ rendered' = [h \in Heart |-> IF TabOf[h] = t THEN "unknown" ELSE rendered[h]]
  /\ lines' = [h \in Heart |-> IF TabOf[h] = t THEN {} ELSE lines[h]]
  /\ flag' = [flag EXCEPT ![t] = FALSE]
  /\ failed' = TRUE
  /\ UNCHANGED <<loggedIn, guest, saved, toggles, logins, posts, wanted>>

Want(h, p) == wanted' = IF p \in lines[h] THEN wanted \ {p} ELSE wanted \cup {p}

(* A click of a guest: localStorage is read, changed and written, and      *)
(* every heart is told.                                                    *)
ToggleGuest(h, p) ==
  /\ ~loggedIn /\ rendered[h] # "unknown" /\ toggles < MaxToggles
  /\ guest' = IF p \in lines[h] THEN guest \ {p} ELSE guest \cup {p}
  /\ ShowAll(guest')
  /\ Want(h, p)
  /\ toggles' = toggles + 1
  /\ UNCHANGED <<loggedIn, saved, flag, rendered, todo, logins, posts, failed>>

(* A click of a customer: the heart's own list says whether it adds or     *)
(* removes; the answer is shown, unless it is lost, and every other heart  *)
(* asks again (Refresh). A call that fails on its way is no click.         *)
ToggleSaved(h, p) ==
  /\ loggedIn /\ rendered[h] # "unknown" /\ toggles < MaxToggles
  /\ IF p \in lines[h] THEN saved' = saved \ {p} ELSE Save(p)
  /\ Show(h, saved') \/ UNCHANGED lines
  /\ Want(h, p)
  /\ toggles' = toggles + 1
  /\ UNCHANGED <<loggedIn, guest, flag, rendered, todo, logins, posts, failed>>

(* refresh, after wishlist:updated, a storage event or a merge.            *)
Refresh(h) ==
  /\ rendered[h] # "unknown"
  /\ Show(h, IF loggedIn THEN saved ELSE guest)
  /\ UNCHANGED <<loggedIn, guest, saved, flag, rendered, todo, toggles, logins, ghost>>

Rest ==
  /\ toggles = MaxToggles /\ logins = MaxLogins
  /\ \A h \in Heart : todo[h] = {}
  /\ UNCHANGED vars

Next ==
  \/ Login \/ Logout \/ Rest
  \/ \E h \in Heart : MergeEffect(h) \/ GuestEffect(h) \/ Post(h) \/ Refresh(h)
  \/ \E h \in Heart, p \in Product : ToggleGuest(h, p) \/ ToggleSaved(h, p)
  \/ \E t \in Tab : CloseTab(t)

Spec == Init /\ [][Next]_vars

-----------------------------------------------------------------------------
TypeOK ==
  /\ loggedIn \in BOOLEAN /\ failed \in BOOLEAN
  /\ guest \subseteq Product /\ saved \subseteq Product /\ wanted \subseteq Product
  /\ flag \in [Tab -> BOOLEAN]
  /\ rendered \in [Heart -> {"unknown", "in", "out"}]
  /\ todo \in [Heart -> SUBSET Product]
  /\ lines \in [Heart -> SUBSET Product]
  /\ posts \in [Product -> Nat]
  /\ toggles \in Nat /\ logins \in Nat

(* A login posts a guest's favourite once, however many hearts and tabs    *)
(* render at that moment.                                                  *)
MergedOnce == \A p \in Product : posts[p] <= logins

(* Unless a call failed or a tab was closed in the middle, no favourite is *)
(* lost on its way from the guest's list to the account: it is in one of   *)
(* them, or about to be posted.                                            *)
NoFavouriteLost ==
  ~failed =>
    wanted \subseteq guest \cup saved \cup UNION {todo[h] : h \in Heart}
=============================================================================

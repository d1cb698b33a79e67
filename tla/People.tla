------------------------------- MODULE People -------------------------------
(***************************************************************************)
(* What the people of the shop keep: a visitor's cart, the record of a     *)
(* customer, the sessions of an account, favourites, a birthday list, and  *)
(* the accounts and roles of the team.                                     *)
(*                                                                         *)
(* The six modules have no state in common, so they are not interleaved:   *)
(* a behaviour picks one of them (part) and is a behaviour of that module; *)
(* the variables of the others are Off. An instance of a module of proofs  *)
(* is one of the module it is about, with what is proved of it.            *)
(***************************************************************************)
EXTENDS Naturals

CONSTANTS
  None,
  Sku, CartRequest, CartOp, SkuOf, Qty, Available,                  \* CartLines
  OrderRequest, OrderOp, Email, EmailOf, Phone, PhoneOf, Self, Bound, Known, \* Customers
  Tab, Browser, BrowserOf, MaxCalls, MaxExpired,                    \* Sessions
  Product, Heart, TabOf, MaxToggles, MaxLogins,                     \* Favourites
  Guest, MaxItems, MaxLost,                                         \* GiftList
  Member, Role, NameOf, Code, Super, UserManage, Staff, Roles, TeamRequest, TeamOrder \* StaffTeam

VARIABLES part,
  cart, shareToken, lines, nextId, advisory, cartPc, cartSeen, owed, covered,
  customers, accounts, wishlists, orderPc, own, got,
  kind, enabled, rows, expired, calls, store, wait, late, closed, parted, swept,
  loggedIn, guest, saved, flag, rendered, todo, hearts, toggles, logins, posts, wanted, failed,
  items, nextItem, ownerSees, guestSees, asks, told, lost,
  team, roles, teamPc, teamSeen, lastSaved, crossed, raced

Cart == INSTANCE CartLines WITH
  Request <- CartRequest, Op <- CartOp, pc <- cartPc, seen <- cartSeen

Identity == INSTANCE Customers WITH
  Request <- OrderRequest, Op <- OrderOp, pc <- orderPc

Session == INSTANCE SessionsProofs

Favourite == INSTANCE Favourites WITH lines <- hearts

Birthday == INSTANCE GiftList

Team == INSTANCE StaffTeamProofs WITH
  Request <- TeamRequest, Order <- TeamOrder,
  pc <- teamPc, seen <- teamSeen, saved <- lastSaved

ASSUME PeopleAssumption ==
  /\ Cart!CartAssumption /\ Identity!CustomersAssumption /\ Session!SessionsAssumption
  /\ Favourite!FavouritesAssumption /\ Birthday!GiftListAssumption /\ Team!StaffTeamAssumption

-----------------------------------------------------------------------------
Off == "off"

CartOff ==
  /\ cart = Off /\ shareToken = Off /\ lines = Off /\ nextId = Off /\ advisory = Off
  /\ cartPc = Off /\ cartSeen = Off /\ owed = Off /\ covered = Off
IdentityOff ==
  customers = Off /\ accounts = Off /\ wishlists = Off /\ orderPc = Off /\ own = Off /\ got = Off
SessionOff ==
  /\ kind = Off /\ enabled = Off /\ rows = Off /\ expired = Off /\ calls = Off
  /\ store = Off /\ wait = Off /\ late = Off /\ closed = Off /\ parted = Off /\ swept = Off
FavouriteOff ==
  /\ loggedIn = Off /\ guest = Off /\ saved = Off /\ flag = Off /\ rendered = Off /\ todo = Off
  /\ hearts = Off /\ toggles = Off /\ logins = Off /\ posts = Off /\ wanted = Off /\ failed = Off
BirthdayOff ==
  /\ items = Off /\ nextItem = Off /\ ownerSees = Off /\ guestSees = Off
  /\ asks = Off /\ told = Off /\ lost = Off
TeamOff ==
  /\ team = Off /\ roles = Off /\ teamPc = Off /\ teamSeen = Off
  /\ lastSaved = Off /\ crossed = Off /\ raced = Off

cartVars      == <<cart, shareToken, lines, nextId, advisory, cartPc, cartSeen, owed, covered>>
identityVars  == <<customers, accounts, wishlists, orderPc, own, got>>
sessionVars   == <<kind, enabled, rows, expired, calls, store, wait, late, closed, parted, swept>>
favouriteVars == <<loggedIn, guest, saved, flag, rendered, todo, hearts, toggles, logins,
                   posts, wanted, failed>>
birthdayVars  == <<items, nextItem, ownerSees, guestSees, asks, told, lost>>
teamVars      == <<team, roles, teamPc, teamSeen, lastSaved, crossed, raced>>
vars == <<part, cartVars, identityVars, sessionVars, favouriteVars, birthdayVars, teamVars>>

Init ==
  /\ part \in {"cart", "identity", "session", "favourite", "birthday", "team"}
  /\ IF part = "cart" THEN Cart!Init ELSE CartOff
  /\ IF part = "identity" THEN Identity!Init ELSE IdentityOff
  /\ IF part = "session" THEN Session!Init ELSE SessionOff
  /\ IF part = "favourite" THEN Favourite!Init ELSE FavouriteOff
  /\ IF part = "birthday" THEN Birthday!Init ELSE BirthdayOff
  /\ IF part = "team" THEN Team!Init ELSE TeamOff

CartStep ==
  /\ part = "cart" /\ Cart!Next
  /\ UNCHANGED <<part, identityVars, sessionVars, favouriteVars, birthdayVars, teamVars>>
IdentityStep ==
  /\ part = "identity" /\ Identity!Next
  /\ UNCHANGED <<part, cartVars, sessionVars, favouriteVars, birthdayVars, teamVars>>
SessionStep ==
  /\ part = "session" /\ Session!Next
  /\ UNCHANGED <<part, cartVars, identityVars, favouriteVars, birthdayVars, teamVars>>
FavouriteStep ==
  /\ part = "favourite" /\ Favourite!Next
  /\ UNCHANGED <<part, cartVars, identityVars, sessionVars, birthdayVars, teamVars>>
BirthdayStep ==
  /\ part = "birthday" /\ Birthday!Next
  /\ UNCHANGED <<part, cartVars, identityVars, sessionVars, favouriteVars, teamVars>>
TeamStep ==
  /\ part = "team" /\ Team!Next
  /\ UNCHANGED <<part, cartVars, identityVars, sessionVars, favouriteVars, birthdayVars>>

Next ==
  \/ CartStep \/ IdentityStep \/ SessionStep
  \/ FavouriteStep \/ BirthdayStep \/ TeamStep

Spec == Init /\ [][Next]_vars

-----------------------------------------------------------------------------
(* The properties of the parts, by their names: see their modules.         *)

(* The tables and the browsers hold what their columns allow.              *)
TypeOK ==
  /\ part = "cart" => Cart!TypeOK
  /\ part = "identity" => Identity!TypeOK
  /\ part = "session" => Session!TypeOK
  /\ part = "favourite" => Favourite!TypeOK
  /\ part = "birthday" => Birthday!TypeOK
  /\ part = "team" => Team!TypeOK

(* CartService.addLine: a product keeps one line.                          *)
OneLinePerProduct == part = "cart" => Cart!OneLinePerProduct

(* CartService.addLine: no acknowledged piece is lost or counts twice.     *)
AddsAddUp == part = "cart" => Cart!AddsAddUp

(* resolveCustomer, register: whoever was served has account and wishlist. *)
AccountsComplete == part = "identity" => Identity!AccountsComplete

(* resolveCustomer, register: one person, one record.                      *)
OneRecordPerPerson == part = "identity" => Identity!OneRecordPerPerson

(* refresh: one login has one live token.                                  *)
OneTokenPerLogin == part = "session" => Session!OneTokenPerLogin

(* logout, refresh, changePassword: who is logged out stays logged out.    *)
OutForGood == part = "session" => Session!OutForGood

(* cart-client, api-client: the token a client keeps is one that works.    *)
StoredTokenWorks == part = "session" => Session!StoredTokenWorks

(* useWishlist: no favourite is lost between the guest and the account, or *)
(* posted twice by one login.                                              *)
NoFavouriteLost == part = "favourite" => Favourite!NoFavouriteLost /\ Favourite!MergedOnce

(* reserveItem: a gift is promised once, to the guest who was told so.     *)
PromiseKept == part = "birthday" => Birthday!PromiseKept

(* StaffUsersService.update: administrators who are written off one by one *)
(* leave one.                                                              *)
AdminsGoOneByOne == part = "team" => Team!AdminsGoOneByOne

(* RolesService.update: a role is what its last save said.                 *)
RoleIsLastSave == part = "team" => Team!RoleIsLastSave

(* The error message of StaffUsersService.update: the last active super    *)
(* administrator is never deactivated.                                     *)
LastAdminStays == part = "team" => Team!LastAdminStays
=============================================================================

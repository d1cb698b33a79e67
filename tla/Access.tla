------------------------------- MODULE Access -------------------------------
(***************************************************************************)
(* Who may load what. The back-office takes a member's permissions when he *)
(* signs in and when his token is refreshed, opens the sections they allow *)
(* and loads the data of the page; the guards of the API read his role at  *)
(* every call. Between the two his rights may change. The shop has no      *)
(* rights to read: its visitor is nobody, a customer, or holds the token   *)
(* of an order.                                                            *)
(*                                                                         *)
(* Pages are opened one at a time: their calls do not depend on each other.*)
(***************************************************************************)
EXTENDS Routes, Naturals

CONSTANT MaxChanges  \* bound: times the member's rights change

Admin == INSTANCE AdminScreens
Shop  == INSTANCE ShopScreens

(* A route has one need.                                                   *)
OneNeed == \A entry, other \in Needs : entry[1] = other[1] => entry = other

AccessAssumption == MaxChanges \in Nat /\ OneNeed

VARIABLES
  visitor,   \* "staff", or at the shop "anyone", "customer", "order"
  granted,   \* the permissions the API resolves for the member
  active,    \* his account is active
  held,      \* those of the session in localStorage, or NoSession
  preloaded, \* the shell has loaded what most pages need
  idle,      \* the permissions of what it loads once the browser is idle, or NoSession
  page,      \* the page that is open
  calls,     \* its calls without an answer
  refused,   \* history: the last of these calls to be refused, in a set
  changes    \* changes of rights so far

vars == <<visitor, granted, active, held, preloaded, idle, page, calls, refused, changes>>

-----------------------------------------------------------------------------
(* Permissions and the roles the shop starts with.                         *)
PermissionCode ==
  {"product.read", "product.create", "product.update", "product.delete",
   "order.read", "order.update", "order.cancel", "customer.read", "customer.export",
   "shipping.read", "shipping.update", "coupon.create", "coupon.update",
   "promotion.create", "promotion.update", "stock.update",
   "analytics.read", "analytics.export", "user.manage", "settings.manage"}

ROLE_PERMISSIONS ==
  {PermissionCode,                                                        \* SUPER_ADMIN
   {"product.read", "product.create", "product.update"},                  \* CATALOG_MANAGER
   {"order.read", "order.update", "order.cancel", "customer.read"},       \* ORDERS_MANAGER
   {"coupon.create", "coupon.update", "promotion.create", "promotion.update"}, \* MARKETING_MANAGER
   {"stock.update", "product.read"},                                      \* STOCK_MANAGER
   {"analytics.read", "analytics.export"},                                \* ANALYTICS_MANAGER
   {"customer.read", "order.read"},                                       \* CUSTOMER_SERVICE
   {"product.read", "order.read", "customer.read", "analytics.read"}}     \* READ_ONLY

NoSession == {"no session"}
NoPage    == [section |-> "none", parts |-> {}]
Preload   == [section |-> "preload", parts |-> {}]

Init ==
  /\ visitor \in {"staff", "anyone", "customer", "order"}
  /\ granted \in ROLE_PERMISSIONS
  /\ visitor # "staff" => granted = PermissionCode
  /\ active = TRUE /\ held = NoSession /\ preloaded = FALSE /\ idle = NoSession
  /\ page = NoPage /\ calls = {} /\ refused = {} /\ changes = 0

-----------------------------------------------------------------------------
(* The session.                                                            *)
SignIn ==
  /\ visitor = "staff" /\ held = NoSession /\ active
  /\ held' = granted /\ preloaded' = FALSE
  /\ UNCHANGED <<visitor, granted, active, idle, page, calls, refused, changes>>

(* A token that has expired: the permissions come with the new one, and a  *)
(* refusal ends the session.                                               *)
Refresh ==
  /\ held # NoSession
  /\ held' = IF active THEN granted ELSE NoSession
  /\ page' = IF active THEN page ELSE NoPage
  /\ UNCHANGED <<visitor, granted, active, preloaded, idle, calls, refused, changes>>

(* Another administrator edits the role, the member's role or his account. *)
ChangeRights ==
  /\ visitor = "staff" /\ changes < MaxChanges
  /\ changes' = changes + 1
  /\ \/ granted' \in ROLE_PERMISSIONS \ {granted} /\ UNCHANGED active
     \/ active' = ~active /\ UNCHANGED granted
  /\ UNCHANGED <<visitor, held, preloaded, idle, page, calls, refused>>

-----------------------------------------------------------------------------
(* Calls. They carry the permissions the screen went by.                   *)
CallsOf(from, routes, perms) == {[from |-> from, route |-> r, held |-> perms] : r \in routes}

preloadReferenceData(perms) ==
  {<<"settings", "get">>}
  \cup (IF "product.read" \in perms THEN {<<"categories", "list">>, <<"brands", "list">>} ELSE {})
  \cup (IF "shipping.read" \in perms THEN {<<"cities", "list">>, <<"city-groups", "list">>} ELSE {})
  \cup (IF "user.manage" \in perms THEN {<<"roles", "listPermissions">>, <<"roles", "list">>} ELSE {})

prefetchSecondaryData(perms) ==
  (IF "order.read" \in perms THEN {<<"orders", "adminList">>} ELSE {})
  \cup (IF "product.read" \in perms
          THEN {<<"products", "listForAdmin">>, <<"products", "stockValuation">>} ELSE {})
  \cup (IF "customer.read" \in perms THEN {<<"customers", "list">>} ELSE {})
  \cup (IF "promotion.create" \in perms THEN {<<"promotions", "list">>} ELSE {})
  \cup (IF "analytics.read" \in perms THEN {<<"analytics", "summary">>} ELSE {})

(* AdminShell, mounted once: the reference data at once, the first pages   *)
(* of the busiest sections when the browser is idle.                       *)
Shell ==
  /\ held # NoSession /\ ~preloaded /\ calls = {}
  /\ preloaded' = TRUE /\ idle' = held /\ refused' = {}
  /\ calls' = CallsOf(Preload, preloadReferenceData(held), held)
  /\ UNCHANGED <<visitor, granted, active, held, page, changes>>

OnIdle ==
  /\ idle # NoSession /\ calls = {}
  /\ idle' = NoSession /\ refused' = {}
  /\ calls' = CallsOf(Preload, prefetchSecondaryData(idle), idle)
  /\ UNCHANGED <<visitor, granted, active, held, preloaded, page, changes>>

(* The menu hides the section, its address still opens it.                 *)
MutDenied(p) == FALSE

(* The section of the menu the address belongs to decides; what the page   *)
(* is made of is mounted only if the session has its permission.           *)
Denied(p) == Admin!Nav(p.section) # Admin!Everyone /\ Admin!Nav(p.section) \notin held

OpenPage(p) ==
  /\ held # NoSession /\ calls = {} /\ page # p
  /\ page' = p /\ refused' = {}
  /\ calls' = IF Denied(p) THEN {} ELSE CallsOf(p, UNION {x.reads : x \in p.parts}, held)
  /\ UNCHANGED <<visitor, granted, active, held, preloaded, idle, changes>>

(* The shop: a component whose visitor is there loads and posts.           *)
OpenPart(x) ==
  /\ visitor # "staff" /\ calls = {}
  /\ x.who \in {"anyone", visitor}
  /\ page' = [section |-> "shop", parts |-> {x}] /\ refused' = {}
  /\ calls' = CallsOf(page', x.reads \cup {w.route : w \in x.writes}, held)
  /\ UNCHANGED <<visitor, granted, active, held, preloaded, idle, changes>>

(* JwtAuthGuard, CustomerGuard, StaffGuard, the guard of a tracked order,  *)
(* and PermissionsGuard, which resolves the role at every call.            *)
Permits(route) ==
  \/ <<route, "anyone">> \in Needs
  \/ <<route, visitor>> \in Needs
  \/ visitor = "staff" /\ active /\ \E need \in granted : <<route, need>> \in Needs

Answer(call) ==
  /\ calls' = calls \ {call}
  /\ refused' = IF Permits(call.route) THEN refused
                ELSE {[from |-> call.from, route |-> call.route,
                       stale |-> ~active \/ call.held # granted]}
  /\ UNCHANGED <<visitor, granted, active, held, preloaded, idle, page, changes>>

Next ==
  \/ SignIn \/ Refresh \/ ChangeRights \/ Shell \/ OnIdle
  \/ \E p \in Admin!AdminPages : OpenPage(p)
  \/ \E x \in Shop!ShopParts : OpenPart(x)
  \/ \E call \in calls : Answer(call)

Spec == Init /\ [][Next]_vars

-----------------------------------------------------------------------------
TypeOK ==
  /\ visitor \in {"staff", "anyone", "customer", "order"}
  /\ granted \in ROLE_PERMISSIONS /\ held \in ROLE_PERMISSIONS \cup {NoSession}
  /\ idle \in ROLE_PERMISSIONS \cup {NoSession}
  /\ active \in BOOLEAN /\ preloaded \in BOOLEAN /\ changes \in 0 .. MaxChanges
  /\ page = NoPage \/ page.section = "shop" \/ page \in Admin!AdminPages
  /\ \A call \in calls : call.route \in Route

(* Pages that load more than the permission of their section: the figures  *)
(* of the home page, and two forms that choose among the catalogue.        *)
Overreaching ==
  {p \in Admin!AdminPages :
     p.parts \cap {Admin!DashboardPage, Admin!PromotionsPage, Admin!LandingPageForm} # {}}

(* Screens make no call that is bound to be refused (the comment of        *)
(* preloadReferenceData, and the menu "reflects exactly" the guards): but  *)
(* for three pages, a refusal means that rights changed after the screen   *)
(* read them. No visitor of the shop is refused.                           *)
RefusedOnlyIfStale == \A r \in refused : r.stale \/ r.from \in Overreaching
=============================================================================

------------------------------- MODULE Sites -------------------------------
(***************************************************************************)
(* The two sites: a component at work, the rights of who opens it, and the *)
(* pages of a listing. As in People, a behaviour of this module is a       *)
(* behaviour of one part, and the variables of the others are Off.         *)
(***************************************************************************)
EXTENDS Integers

CONSTANTS
  Parts, MaxAsks, MaxClicks, MaxFailures,                          \* Screens
  MaxChanges,                                                      \* Access
  Unset, Parent, Catalogues, Queries, Desks, Promotions, Limit, MaxRanked \* Listing

VARIABLES part,
  screen, made, asked, sent, loads, posts, busy, shown, left, clicks, failures, stale, missed,
  visitor, granted, active, held, preloaded, idle, page, calls, refused, changes,
  catalogue, offers, engine, query, leaf, seen, total

Screen == INSTANCE Screens WITH part <- screen

Door == INSTANCE Access

List == INSTANCE Listing WITH active <- offers, page <- leaf

ASSUME SitesAssumption ==
  Screen!ScreensAssumption /\ Door!AccessAssumption /\ List!ListingAssumption

-----------------------------------------------------------------------------
Off == "off"

ScreenOff ==
  /\ screen = Off /\ made = Off /\ asked = Off /\ sent = Off /\ loads = Off /\ posts = Off
  /\ busy = Off /\ shown = Off /\ left = Off /\ clicks = Off /\ failures = Off
  /\ stale = Off /\ missed = Off
DoorOff ==
  /\ visitor = Off /\ granted = Off /\ active = Off /\ held = Off /\ preloaded = Off
  /\ idle = Off /\ page = Off /\ calls = Off /\ refused = Off /\ changes = Off
ListOff ==
  /\ catalogue = Off /\ offers = Off /\ engine = Off /\ query = Off
  /\ leaf = Off /\ seen = Off /\ total = Off

screenVars == <<screen, made, asked, sent, loads, posts, busy, shown, left, clicks, failures,
                stale, missed>>
doorVars   == <<visitor, granted, active, held, preloaded, idle, page, calls, refused, changes>>
listVars   == <<catalogue, offers, engine, query, leaf, seen, total>>
vars == <<part, screenVars, doorVars, listVars>>

Init ==
  /\ part \in {"screen", "door", "list"}
  /\ IF part = "screen" THEN Screen!Init ELSE ScreenOff
  /\ IF part = "door" THEN Door!Init ELSE DoorOff
  /\ IF part = "list" THEN List!Init ELSE ListOff

ScreenStep == part = "screen" /\ Screen!Next /\ UNCHANGED <<part, doorVars, listVars>>
DoorStep   == part = "door" /\ Door!Next /\ UNCHANGED <<part, screenVars, listVars>>
ListStep   == part = "list" /\ List!Next /\ UNCHANGED <<part, screenVars, doorVars>>

Next == ScreenStep \/ DoorStep \/ ListStep

Spec == Init /\ [][Next]_vars

-----------------------------------------------------------------------------
(* The properties of the parts, by their names: see their modules.         *)

(* Screens, sessions and pages are in a state they can be in.              *)
TypeOK ==
  /\ part = "screen" => Screen!TypeOK
  /\ part = "door" => Door!TypeOK
  /\ part = "list" => List!TypeOK

(* Hooks and handlers of the components: a screen at rest shows the answer *)
(* to its question, with every change it was told of.                      *)
ShownIsCurrent == part = "screen" => Screen!ShownIsCurrent

(* Their submit handlers: one call of a form that ends with its page, and  *)
(* no button disabled for good.                                            *)
CreatedOnce == part = "screen" => Screen!CreatedOnce /\ Screen!ReadyWhenQuiet

(* AdminShell, PermissionsGuard: no screen makes a call that is bound to   *)
(* be refused.                                                             *)
RefusedOnlyIfStale == part = "door" => Door!RefusedOnlyIfStale

(* ProductsService.list, listForAdmin: every match on one page, once.      *)
EveryMatchOnce == part = "list" => List!EveryMatchOnce
=============================================================================

---------------------------- MODULE ScreenParts ----------------------------
(***************************************************************************)
(* What the components of the two sites are made of. A part is a component *)
(* with state of its own:                                                  *)
(*   who     "anyone", or the visitor it waits for before it calls the API *)
(*   reads   the routes whose answer it shows                              *)
(*   keeps   "latest": an answer to an earlier question is dropped (a key  *)
(*           of SWR, a cancelled flag, a request number, a rendering of    *)
(*           the server); "any": whatever answer comes is shown            *)
(*   asks    whether the question changes: a filter, a page, a search      *)
(*   writes  its buttons and forms                                         *)
(* and a write is                                                          *)
(*   route   the call it makes                                             *)
(*   guard   whether it is disabled, or returns at once, while under way   *)
(*   frees   "always" (finally, or the caller catches) or "error" (only    *)
(*           the failure gives the button back)                            *)
(*   after   what an accepted call does: "reload" the reads, show its      *)
(*           "answer", "replace" the form, "leave" for another page,       *)
(*           "stay"; or "guess": the change is shown when the call is made *)
(*           and taken back if it fails                                    *)
(***************************************************************************)

Part(who, reads, keeps, asks, writes) ==
  [who |-> who, reads |-> reads, keeps |-> keeps, asks |-> asks, writes |-> writes]

View(who, reads, keeps)   == Part(who, reads, keeps, FALSE, {})
Search(who, reads, keeps) == Part(who, reads, keeps, TRUE, {})

Write(route, guard, frees, after) ==
  [route |-> route, guard |-> guard, frees |-> frees, after |-> after]

Form(route, after)   == Write(route, TRUE, "always", after)
Leaving(route)       == Write(route, TRUE, "error", "leave")
Button(route, after) == Write(route, FALSE, "always", after)
=============================================================================

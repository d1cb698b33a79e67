------------------------------ MODULE Screens ------------------------------
(***************************************************************************)
(* One component of a site at work: it loads what it shows, its question   *)
(* may change, its buttons post changes, and the API answers when it       *)
(* likes, or not at all. What the API holds is the set of the component's  *)
(* changes it made; what is shown is the part of them an answer told of.   *)
(* Each write has a flag of its own (where the code shares one between     *)
(* several writes, fewer of them overlap).                                 *)
(***************************************************************************)
EXTENDS Naturals, FiniteSets

CONSTANTS Parts,       \* components: ShopParts, AdminParts
          MaxAsks,     \* bound: times the question changes
          MaxClicks,   \* bound: writes that are clicked
          MaxFailures  \* bound: calls that get no answer

VARIABLES part,     \* the component
          made,     \* the clicks whose call the API accepted
          asked,    \* the question: filters, page, search
          sent,     \* number of the last load, or of the last answer that replaces loads
          loads,    \* loads under way
          posts,    \* writes under way
          busy,     \* writes whose button is disabled
          shown,    \* answer on the screen
          left,     \* the page, or the form, is gone: "no", "soon", "yes"
          clicks,   \* clicks so far
          failures, \* calls without an answer so far
          stale,    \* history: an answer was shown over a newer one
          missed    \* history: an answer the screen needed never came

vars == <<part, made, asked, sent, loads, posts, busy, shown, left, clicks, failures, stale, missed>>

(* What every component of the two sites keeps to (ScreenParts).           *)
(* - A handler that frees its button on an error only leaves the page, or  *)
(*   is replaced, otherwise.                                               *)
(* - A guess, a change shown before the API has it, is made by a component *)
(*   that drops old answers, asks nothing else and has no flag for it.     *)
(* - Of those that drop old answers, none both reloads and shows answers.  *)
PartsAssumption ==
  \A p \in Parts :
    /\ p.keeps \in {"latest", "any"} /\ p.asks \in BOOLEAN
    /\ \A w \in p.writes :
         /\ w.guard \in BOOLEAN /\ w.frees \in {"always", "error"}
         /\ w.after \in {"reload", "answer", "guess", "replace", "leave", "stay"}
         /\ w.frees = "error" => w.after \in {"leave", "replace"}
         /\ w.after = "guess" => ~w.guard /\ ~p.asks /\ p.keeps = "latest"
         /\ p.keeps = "latest" /\ w.after = "reload" =>
              \A v \in p.writes : v.after \notin {"answer", "guess"}

ScreensAssumption ==
  /\ MaxAsks \in Nat /\ MaxClicks \in Nat /\ MaxFailures \in Nat
  /\ PartsAssumption

Nothing == [q |-> MaxAsks + 1, has |-> {}]
(* The number of the last load is used again.                               *)
MutLoad == [id |-> sent, q |-> asked, has |-> {}, served |-> FALSE]
Load    == [id |-> sent + 1, q |-> asked, has |-> {}, served |-> FALSE]

(* The writes whose change the component shows, and those made so far.     *)
Changes(w)  == w.after \in {"reload", "answer", "guess"}
Changing(p) == {w \in p.writes : Changes(w)}
Held(calls) == {c.id : c \in {d \in calls : Changes(d.of)}}

Init ==
  /\ part \in Parts
  /\ made = {} /\ posts = {} /\ busy = {} /\ asked = 0 /\ clicks = 0 /\ failures = 0
  /\ sent = 1
  /\ loads = IF part.reads = {} THEN {} ELSE {[id |-> 1, q |-> 0, has |-> {}, served |-> FALSE]}
  /\ shown = Nothing /\ left = "no" /\ stale = FALSE /\ missed = FALSE

-----------------------------------------------------------------------------
(* Loads.                                                                  *)

(* Another filter, page or search.                                         *)
Ask ==
  /\ part.asks /\ left # "yes" /\ asked < MaxAsks
  /\ asked' = asked + 1 /\ sent' = sent + 1
  /\ loads' = loads \cup {[Load EXCEPT !.q = asked + 1]}
  /\ UNCHANGED <<part, made, posts, busy, shown, left, clicks, failures, stale, missed>>

(* The API reads what it holds.                                            *)
Serve(l) ==
  /\ ~l.served
  /\ LET answer == [l EXCEPT !.has = Held(made)]
     IN  loads' = (loads \ {l}) \cup {[answer EXCEPT !.served = TRUE]}
  /\ UNCHANGED <<part, made, asked, sent, posts, busy, shown, left, clicks, failures, stale, missed>>

MutAccepts(l) == TRUE
Accepts(l) == part.keeps = "any" \/ l.id = sent

Show(answer) ==
  /\ shown' = answer
  /\ stale' = (stale \/ (shown # Nothing /\ (answer.q < shown.q \/ ~shown.has \subseteq answer.has)))

Deliver(l) ==
  /\ l.served /\ left # "yes"
  /\ loads' = loads \ {l}
  /\ IF Accepts(l) THEN Show([q |-> l.q, has |-> l.has]) ELSE UNCHANGED <<shown, stale>>
  /\ UNCHANGED <<part, made, asked, sent, posts, busy, left, clicks, failures, missed>>

LoseLoad(l) ==
  /\ failures < MaxFailures
  /\ failures' = failures + 1 /\ missed' = TRUE
  /\ loads' = loads \ {l}
  /\ UNCHANGED <<part, made, asked, sent, posts, busy, shown, left, clicks, stale>>

-----------------------------------------------------------------------------
(* Writes. A post is "sent", then "accepted" or "refused" by the API.      *)

Click(w) ==
  /\ left # "yes" /\ clicks < MaxClicks
  /\ w.guard => w \notin busy
  /\ w.after = "guess" => shown # Nothing
  /\ clicks' = clicks + 1
  /\ posts' = posts \cup {[id |-> clicks + 1, of |-> w, is |-> "sent", has |-> {}, before |-> shown]}
  /\ busy' = IF w.guard THEN busy \cup {w} ELSE busy
  /\ shown' = IF w.after = "guess" THEN [shown EXCEPT !.has = @ \cup {clicks + 1}] ELSE shown
  /\ sent' = IF w.after = "guess" THEN sent + 1 ELSE sent
  /\ UNCHANGED <<part, made, asked, loads, left, failures, stale, missed>>

Commit(post) ==
  /\ post.is = "sent"
  /\ \/ /\ made' = made \cup {[id |-> post.id, of |-> post.of]}
        /\ LET answer == [post EXCEPT !.has = Held(made')]
           IN  posts' = (posts \ {post}) \cup {[answer EXCEPT !.is = "accepted"]}
     \/ /\ posts' = (posts \ {post}) \cup {[post EXCEPT !.is = "refused"]}
        /\ UNCHANGED made
  /\ UNCHANGED <<part, asked, sent, loads, busy, shown, left, clicks, failures, stale, missed>>

MutFrees(w, failed) == w.frees = "always" /\ ~failed
MutFreesAll(w, failed) == TRUE

(* What disables a button: finally frees it, or only the failure does.     *)
Frees(w, failed) == w.frees = "always" \/ failed

(* The handler goes on after an accepted call.                             *)
Return(post) ==
  /\ post.is = "accepted" /\ left # "yes"
  /\ posts' = posts \ {post}
  /\ busy' = IF Frees(post.of, FALSE) THEN busy \ {post.of} ELSE busy
  /\ LET after == post.of.after
     IN  /\ loads' = IF after = "reload" THEN loads \cup {Load} ELSE loads
         /\ sent' = IF after \in {"reload", "answer"} THEN sent + 1 ELSE sent
         /\ IF after = "answer" THEN Show([q |-> asked, has |-> post.has]) ELSE UNCHANGED <<shown, stale>>
         /\ left' = CASE after = "replace" -> "yes" [] after = "leave" -> "soon" [] OTHER -> left
  /\ UNCHANGED <<part, made, asked, clicks, failures, missed>>

(* It goes on after a refusal, or a call that no answer came to.           *)
Fail(post) ==
  /\ left # "yes"
  /\ \/ /\ post.is = "refused"
        /\ UNCHANGED <<failures, missed>>
     \/ /\ post.is # "refused" /\ failures < MaxFailures
        /\ failures' = failures + 1
        /\ missed' = (missed \/ Changes(post.of))
  /\ posts' = posts \ {post}
  /\ busy' = IF Frees(post.of, TRUE) THEN busy \ {post.of} ELSE busy
  /\ shown' = IF post.of.after = "guess" THEN post.before ELSE shown
  /\ sent' = IF post.of.after = "guess" THEN sent + 1 ELSE sent
  /\ stale' = (stale \/ (post.of.after = "guess" /\ ~(shown.has \ {post.id}) \subseteq post.before.has))
  /\ UNCHANGED <<part, made, asked, loads, left, clicks>>

(* The navigation a write started is done.                                 *)
Leave ==
  /\ left = "soon" /\ left' = "yes"
  /\ UNCHANGED <<part, made, asked, sent, loads, posts, busy, shown, clicks, failures, stale, missed>>

Next ==
  \/ Ask
  \/ \E l \in loads : Serve(l) \/ Deliver(l) \/ LoseLoad(l)
  \/ \E w \in part.writes : Click(w)
  \/ \E post \in posts : Commit(post) \/ Return(post) \/ Fail(post)
  \/ Leave

Spec == Init /\ [][Next]_vars

-----------------------------------------------------------------------------
TypeOK ==
  /\ part \in Parts /\ busy \subseteq {w \in part.writes : w.guard}
  /\ \A m \in made : m.id \in 1 .. clicks /\ m.of \in part.writes
  /\ shown.has \subseteq 1 .. clicks
  /\ asked \in 0 .. MaxAsks /\ clicks \in 0 .. MaxClicks /\ failures \in 0 .. MaxFailures
  /\ \A l \in loads : l.id <= sent /\ l.has \subseteq Held(made)
  /\ \A l, m \in loads : l.id = m.id => l = m
  /\ \A post \in posts : post.of \in part.writes /\ post.id <= clicks
  /\ left \in {"no", "soon", "yes"} /\ stale \in BOOLEAN /\ missed \in BOOLEAN

Quiet == left = "no" /\ loads = {} /\ posts = {}

(* Answers cannot overtake each other: loads are numbered, and a change is *)
(* shown either by a load or by the one write that answers, which waits    *)
(* for itself.                                                             *)
Ordered(p) ==
  /\ p.keeps = "latest"
  /\ \/ \A w \in Changing(p) : w.after = "reload"
     \/ \E w \in p.writes : w.guard /\ Changing(p) = {w}

(* When a screen is at rest and every answer came, it shows the answer to  *)
(* the question that is asked now, with every change it was told was       *)
(* accepted (mutate, useSWR, cancelled flags, request numbers); a screen   *)
(* whose answers may overtake each other is wrong only if one did.         *)
ShownIsCurrent ==
  Quiet /\ ~missed /\ part.reads # {} =>
    \/ shown = [q |-> asked, has |-> Held(made)]
    \/ (stale /\ ~Ordered(part))

(* A component at rest has no button that is still disabled: every path    *)
(* through a handler (finally, catch) gives it back.                       *)
ReadyWhenQuiet == left = "no" /\ posts = {} => busy = {}

(* A form that ends with its page, or with itself, makes its call once: a  *)
(* second record, order or review comes only of an answer that was lost.   *)
CreatedOnce ==
  \A w \in part.writes :
    w.guard /\ (w.after = "replace" \/ (w.after = "leave" /\ w.frees = "error")) =>
      Cardinality({m \in made : m.of = w}) <= 1 + failures
=============================================================================

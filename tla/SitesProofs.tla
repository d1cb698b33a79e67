---------------------------- MODULE SitesProofs ----------------------------
(***************************************************************************)
(* Theorems about Sites: what a screen shows, what its forms create, and   *)
(* who is refused, for any components, roles and numbers of steps.         *)
(***************************************************************************)
EXTENDS Sites, FiniteSetTheorems, SequenceTheorems, WellFoundedInduction, TLAPS

-----------------------------------------------------------------------------
(* Screens: values.                                                        *)
Shows == [q : Nat, has : SUBSET Nat]
Loads == [id : Nat, q : Nat, has : SUBSET Nat, served : BOOLEAN]
Posts == [id : Nat, of : screen.writes, is : {"sent", "accepted", "refused"}, has : SUBSET Nat,
          before : Shows]
Marks == [id : Nat, of : screen.writes]

ShapeInv ==
  /\ screen \in Parts
  /\ asked \in 0 .. MaxAsks /\ sent \in Nat /\ clicks \in 0 .. MaxClicks /\ failures \in 0 .. MaxFailures
  /\ left \in {"no", "soon", "yes"} /\ stale \in BOOLEAN /\ missed \in BOOLEAN
  /\ made \subseteq Marks /\ IsFiniteSet(made)
  /\ loads \subseteq Loads /\ posts \subseteq Posts /\ shown \in Shows
  /\ busy \subseteq {w \in screen.writes : w.guard}

(* A load asks one question, and the answer holds changes that were made;  *)
(* the last one asks what is asked now.                                    *)
Held == Screen!Held(made)
LoadInv ==
  /\ \A l \in loads : l.id \in 1 .. sent /\ l.q \in 0 .. asked /\ l.has \subseteq Held
  /\ \A l, m \in loads : l.id = m.id => l = m
  /\ \A l \in loads : l.id = sent => l.q = asked

(* A write is named by its click; one that is accepted is made.            *)
MarkInv ==
  /\ \A m \in made : m.id \in 1 .. clicks
  /\ \A m, n \in made : m.id = n.id => m = n
PostInv ==
  /\ \A c \in posts : c.id \in 1 .. clicks /\ c.has \subseteq Held
  /\ \A c, d \in posts : c.id = d.id => c = d
  /\ \A c \in posts : c.is = "accepted" => [id |-> c.id, of |-> c.of] \in made
  /\ \A c \in posts : c.is # "accepted" => \A m \in made : m.id # c.id
  /\ \A c \in posts : c.is = "accepted" /\ Screen!Changes(c.of) => c.id \in c.has
ShownInv == shown.has \subseteq 1 .. clicks

(* A button that waits for itself is disabled while its call is under way, *)
(* and no longer, unless the page is about to go.                          *)
BusyInv ==
  /\ \A c \in posts : c.of.guard => c.of \in busy
  /\ \A c, d \in posts : c.of.guard /\ c.of = d.of => c = d
  /\ \A w \in busy : left # "no" \/ \E c \in posts : c.of = w

(* A form that ends with its page, or with itself.                         *)
Ends(w)   == w.guard /\ (w.after = "replace" \/ (w.after = "leave" /\ w.frees = "error"))
MadeOf(w) == {m \in made : m.of = w}
Ready(w)  == (w \notin busy /\ left # "yes") \/ \E c \in posts : c.of = w /\ c.is # "accepted"
CountInv ==
  \A w \in screen.writes : Ends(w) =>
    /\ Cardinality(MadeOf(w)) <= 1 + failures
    /\ Ready(w) => Cardinality(MadeOf(w)) <= failures

(* The changes whose handler went on, the clicks shown before they are     *)
(* made, and the screens on which no answer overtook another.              *)
Told    == Held \ {c.id : c \in posts}
Guesses == {c \in posts : c.of.after = "guess"}
InOrder == ~missed /\ (~stale \/ Screen!Ordered(screen))
Answers == screen.keeps = "latest" /\ \A w \in screen.writes : w.after # "reload"

(* The last load knows what the screen was told; no load is shown while a  *)
(* guess is.                                                               *)
LastInv  == ~missed => \A l \in loads : l.id = sent /\ l.served => Told \subseteq l.has
Blank    == ~screen.asks => asked = 0 /\ (shown.q = 0 \/ shown = Screen!Nothing)
Guessed(c) ==
  /\ shown.q = asked /\ c.before.q = asked
  /\ \A k \in c.before.has : 0 < k /\ k < c.id
  /\ \A l \in loads : l.id # sent
  /\ ~stale /\ ~missed => c.id \in shown.has /\ c.before.has \subseteq shown.has
GuessInv == Blank /\ \A c \in Guesses : Guessed(c)

(* On such a screen: the question is answered, or will be; it shows only   *)
(* what is made, or guessed; and what it was told of it shows, or will.    *)
Answered == shown.q = asked \/ \E l \in loads : Screen!Accepts(l) /\ l.q = asked
Known(k) == k \in shown.has \/ \E l \in loads : Screen!Accepts(l) /\ (~l.served \/ k \in l.has)
AskInv   == InOrder /\ screen.reads # {} => Answered
SeenInv  == InOrder => shown.has \subseteq Held \cup {c.id : c \in Guesses}
ToldInv  == InOrder => (Answers => Told \subseteq shown.has) /\ \A k \in Told : Known(k)
AloneInv ==
  Screen!Ordered(screen) =>
    \A c \in posts : c.is = "accepted" /\ c.of.after = "answer" => c.has = Held

ScreenInv ==
  /\ ShapeInv /\ LoadInv /\ MarkInv /\ PostInv /\ ShownInv /\ BusyInv /\ CountInv
  /\ LastInv /\ GuessInv /\ AskInv /\ SeenInv /\ ToldInv /\ AloneInv

-----------------------------------------------------------------------------
(* Screens: what each step does, record by record.                         *)
NewLoad(n, q)  == [id |-> n, q |-> q, has |-> {}, served |-> FALSE]
ServedLoad(l)  == [id |-> l.id, q |-> l.q, has |-> Held, served |-> TRUE]
NewPost(w)     == [id |-> clicks + 1, of |-> w, is |-> "sent", has |-> {}, before |-> shown]
Mark(c)        == [id |-> c.id, of |-> c.of]
Accepted(c, h) == [id |-> c.id, of |-> c.of, is |-> "accepted", has |-> h, before |-> c.before]
Refused(c)     == [id |-> c.id, of |-> c.of, is |-> "refused", has |-> c.has, before |-> c.before]

AskDoes ==
  /\ screen.asks /\ asked' = asked + 1 /\ asked < MaxAsks /\ sent' = sent + 1
  /\ loads' = loads \cup {NewLoad(sent + 1, asked + 1)}
  /\ UNCHANGED <<screen, made, posts, busy, shown, left, clicks, failures, stale, missed>>
ServeDoes(l) ==
  /\ loads' = (loads \ {l}) \cup {ServedLoad(l)} /\ ~l.served
  /\ UNCHANGED <<screen, made, asked, sent, posts, busy, shown, left, clicks, failures, stale, missed>>
(* The answer that is shown may cover a newer one.                         *)
Covers(q, has) ==
  /\ shown' = [q |-> q, has |-> has]
  /\ stale' \in BOOLEAN
  /\ ~stale' => ~stale /\ (shown = Screen!Nothing \/ (~(q < shown.q) /\ shown.has \subseteq has))
ShowDoes(l) ==
  /\ l.served /\ Screen!Accepts(l) /\ Covers(l.q, l.has) /\ loads' = loads \ {l}
  /\ UNCHANGED <<screen, made, asked, sent, posts, busy, left, clicks, failures, missed>>
DropDoes(l) ==
  /\ ~Screen!Accepts(l) /\ loads' = loads \ {l}
  /\ UNCHANGED <<screen, made, asked, sent, posts, busy, shown, left, clicks, failures, stale, missed>>
LoseDoes(l) ==
  /\ loads' = loads \ {l} /\ failures < MaxFailures /\ failures' = failures + 1 /\ missed' = TRUE
  /\ UNCHANGED <<screen, made, asked, sent, posts, busy, shown, left, clicks, stale>>
Pressed(w) ==
  /\ left # "yes" /\ clicks < MaxClicks /\ (w.guard => w \notin busy)
  /\ clicks' = clicks + 1 /\ posts' = posts \cup {NewPost(w)}
  /\ busy' = IF w.guard THEN busy \cup {w} ELSE busy
  /\ UNCHANGED <<screen, made, asked, loads, left, failures, stale, missed>>
ClickDoes(w) == w.after # "guess" /\ Pressed(w) /\ UNCHANGED <<shown, sent>>
GuessDoes(w) ==
  /\ w.after = "guess" /\ Pressed(w) /\ shown # Screen!Nothing /\ sent' = sent + 1
  /\ shown' = [q |-> shown.q, has |-> shown.has \cup {clicks + 1}]
AcceptDoes(c) ==
  /\ c.is = "sent" /\ made' = made \cup {Mark(c)}
  /\ posts' = (posts \ {c}) \cup {Accepted(c, Held')}
  /\ UNCHANGED <<screen, asked, sent, loads, busy, shown, left, clicks, failures, stale, missed>>
RefuseDoes(c) ==
  /\ c.is = "sent" /\ posts' = (posts \ {c}) \cup {Refused(c)}
  /\ UNCHANGED <<screen, made, asked, sent, loads, busy, shown, left, clicks, failures, stale, missed>>
Frees(c, failed) ==
  /\ left # "yes" /\ posts' = posts \ {c}
  /\ busy' = IF Screen!Frees(c.of, failed) THEN busy \ {c.of} ELSE busy
  /\ UNCHANGED <<screen, made, asked, clicks>>
ReloadDoes(c) ==
  /\ c.of.after = "reload" /\ c.is = "accepted" /\ Frees(c, FALSE)
  /\ loads' = loads \cup {NewLoad(sent + 1, asked)} /\ sent' = sent + 1
  /\ UNCHANGED <<shown, left, failures, stale, missed>>
AnswerDoes(c) ==
  /\ c.of.after = "answer" /\ c.is = "accepted" /\ Frees(c, FALSE)
  /\ Covers(asked, c.has) /\ sent' = sent + 1
  /\ UNCHANGED <<loads, left, failures, missed>>
GoOnDoes(c) ==
  /\ c.of.after \notin {"reload", "answer"} /\ c.is = "accepted" /\ Frees(c, FALSE)
  /\ left' = CASE c.of.after = "replace" -> "yes" [] c.of.after = "leave" -> "soon" [] OTHER -> left
  /\ UNCHANGED <<loads, sent, shown, failures, stale, missed>>
Failed(c) ==
  /\ Frees(c, TRUE)
  /\ \/ c.is = "refused" /\ UNCHANGED <<failures, missed>>
     \/ /\ c.is # "refused" /\ failures < MaxFailures /\ failures' = failures + 1
        /\ missed' \in BOOLEAN /\ (missed \/ Screen!Changes(c.of) => missed') /\ (missed' => missed \/ Screen!Changes(c.of))
FailDoes(c) == c.of.after # "guess" /\ Failed(c) /\ UNCHANGED <<shown, sent, stale, loads, left>>
UndoDoes(c) ==
  /\ c.of.after = "guess" /\ Failed(c) /\ sent' = sent + 1 /\ shown' = c.before
  /\ stale' \in BOOLEAN
  /\ ~stale' => ~stale /\ shown.has \ {c.id} \subseteq c.before.has
  /\ UNCHANGED <<loads, left>>
LeaveDoes ==
  /\ left = "soon" /\ left' = "yes"
  /\ UNCHANGED <<screen, made, asked, sent, loads, posts, busy, shown, clicks, failures, stale, missed>>

LoadDoes  == AskDoes \/ \E l \in loads : ServeDoes(l) \/ ShowDoes(l) \/ DropDoes(l) \/ LoseDoes(l)
SendDoes  == \E w \in screen.writes : ClickDoes(w) \/ GuessDoes(w)
ServerDoes == \E c \in posts : AcceptDoes(c) \/ RefuseDoes(c)
BackDoes  == \E c \in posts : ReloadDoes(c) \/ AnswerDoes(c) \/ GoOnDoes(c) \/ FailDoes(c) \/ UndoDoes(c)
ScreenDoes == LoadDoes \/ SendDoes \/ ServerDoes \/ BackDoes \/ LeaveDoes

LEMMA ServedField ==
  ASSUME NEW H, NEW m \in [id : Nat, q : Nat, has : H, served : BOOLEAN], NEW k
  PROVE  [m EXCEPT !.served = k] = [id |-> m.id, q |-> m.q, has |-> m.has, served |-> k]
  OBVIOUS
LEMMA ServedRecord ==
  ASSUME NEW l \in Loads, NEW h
  PROVE  [[l EXCEPT !.has = h] EXCEPT !.served = TRUE] =
           [id |-> l.id, q |-> l.q, has |-> h, served |-> TRUE]
  <1> DEFINE m == [l EXCEPT !.has = h]
  <1>1. m = [id |-> l.id, q |-> l.q, has |-> h, served |-> l.served]
    BY DEF Loads
  <1>2. m \in [id : Nat, q : Nat, has : {h}, served : BOOLEAN]
    BY <1>1 DEF Loads
  <1> HIDE DEF m
  <1>3. [m EXCEPT !.served = TRUE] = [id |-> m.id, q |-> m.q, has |-> m.has, served |-> TRUE]
    BY <1>2, ServedField
  <1>4. m.id = l.id /\ m.q = l.q /\ m.has = h
    BY <1>1
  <1>5. [m EXCEPT !.served = TRUE] = [id |-> l.id, q |-> l.q, has |-> h, served |-> TRUE]
    BY <1>3, <1>4
  <1> QED
    BY <1>5 DEF m
LEMMA AskedRecord ==
  ASSUME NEW l \in Loads, NEW k
  PROVE  [l EXCEPT !.q = k] = [id |-> l.id, q |-> k, has |-> l.has, served |-> l.served]
  BY DEF Loads
LEMMA AcceptedField ==
  ASSUME NEW H, NEW m \in [id : Nat, of : screen.writes, is : {"sent", "accepted", "refused"}, has : H,
                           before : Shows], NEW k
  PROVE  [m EXCEPT !.is = k] = [id |-> m.id, of |-> m.of, is |-> k, has |-> m.has, before |-> m.before]
  OBVIOUS
LEMMA AcceptedRecord ==
  ASSUME NEW c \in Posts, NEW h
  PROVE  [[c EXCEPT !.has = h] EXCEPT !.is = "accepted"] = Accepted(c, h)
  <1> DEFINE m == [c EXCEPT !.has = h]
  <1>1. m = [id |-> c.id, of |-> c.of, is |-> c.is, has |-> h, before |-> c.before]
    BY DEF Posts
  <1>2. m \in [id : Nat, of : screen.writes, is : {"sent", "accepted", "refused"}, has : {h},
               before : Shows]
    BY <1>1 DEF Posts
  <1> HIDE DEF m
  <1>3. [m EXCEPT !.is = "accepted"] =
          [id |-> m.id, of |-> m.of, is |-> "accepted", has |-> m.has, before |-> m.before]
    BY <1>2, AcceptedField
  <1>4. m.id = c.id /\ m.of = c.of /\ m.has = h /\ m.before = c.before
    BY <1>1
  <1>5. [m EXCEPT !.is = "accepted"] = Accepted(c, h)
    BY <1>3, <1>4 DEF Accepted
  <1> QED
    BY <1>5 DEF m
LEMMA RefusedRecord ==
  ASSUME NEW c \in Posts PROVE [c EXCEPT !.is = "refused"] = Refused(c)
  BY DEF Posts, Refused
LEMMA ShownRecord ==
  ASSUME NEW s \in Shows, NEW h PROVE [s EXCEPT !.has = h] = [q |-> s.q, has |-> h]
  BY DEF Shows

LEMMA ScreenSteps ==
  ASSUME ShapeInv, Screen!Next PROVE ScreenDoes
  <1>1. CASE Screen!Ask
    <2>1. Screen!Load \in Loads
      BY DEF Screen!Load, Loads, ShapeInv
    <2>2. Screen!Load.id = sent + 1 /\ Screen!Load.has = {} /\ Screen!Load.served = FALSE
      BY DEF Screen!Load
    <2>3. [Screen!Load EXCEPT !.q = asked + 1] = NewLoad(sent + 1, asked + 1)
      BY <2>1, <2>2, AskedRecord DEF NewLoad
    <2> QED
      BY <1>1, <2>3 DEF Screen!Ask, AskDoes, LoadDoes, ScreenDoes
  <1>2. ASSUME NEW l \in loads, Screen!Serve(l) PROVE ServeDoes(l)
    <2>1. [[l EXCEPT !.has = Screen!Held(made)] EXCEPT !.served = TRUE] = ServedLoad(l)
      BY ServedRecord DEF ShapeInv, ServedLoad, Held
    <2> QED
      BY <1>2, <2>1 DEF Screen!Serve, ServeDoes
  <1>3. ASSUME NEW l \in loads, Screen!Deliver(l) PROVE ShowDoes(l) \/ DropDoes(l)
    <2>1. CASE Screen!Accepts(l)
      <3>1. Screen!Show([q |-> l.q, has |-> l.has])
        BY <1>3, <2>1 DEF Screen!Deliver
      <3>2. stale \in BOOLEAN
        BY DEF ShapeInv
      <3>3. Covers(l.q, l.has)
        BY <3>1, <3>2, Zenon DEF Screen!Show, Covers
      <3> QED
        BY <1>3, <2>1, <3>3 DEF Screen!Deliver, ShowDoes
    <2>2. CASE ~Screen!Accepts(l)
      BY <1>3, <2>2 DEF Screen!Deliver, DropDoes
    <2> QED
      BY <2>1, <2>2
  <1>4. ASSUME NEW l \in loads, Screen!LoseLoad(l) PROVE LoseDoes(l)
    BY <1>4 DEF Screen!LoseLoad, LoseDoes
  <1>5. ASSUME NEW w \in screen.writes, Screen!Click(w) PROVE ClickDoes(w) \/ GuessDoes(w)
    <2>1. Pressed(w)
      BY <1>5 DEF Screen!Click, Pressed, NewPost
    <2>2. [shown EXCEPT !.has = @ \cup {clicks + 1}] = [q |-> shown.q, has |-> shown.has \cup {clicks + 1}]
      BY ShownRecord DEF ShapeInv
    <2> QED
      BY <1>5, <2>1, <2>2 DEF Screen!Click, ClickDoes, GuessDoes
  <1>6. ASSUME NEW c \in posts, Screen!Commit(c) PROVE AcceptDoes(c) \/ RefuseDoes(c)
    <2>1. \A h : [[c EXCEPT !.has = h] EXCEPT !.is = "accepted"] = Accepted(c, h)
      BY AcceptedRecord DEF ShapeInv
    <2>2. [c EXCEPT !.is = "refused"] = Refused(c)
      BY RefusedRecord DEF ShapeInv
    <2> QED
      BY <1>6, <2>1, <2>2 DEF Screen!Commit, AcceptDoes, RefuseDoes, Mark, Held
  <1>7. ASSUME NEW c \in posts, Screen!Return(c) PROVE ReloadDoes(c) \/ AnswerDoes(c) \/ GoOnDoes(c)
    <2>1. Frees(c, FALSE) /\ c.is = "accepted"
      BY <1>7 DEF Screen!Return, Frees
    <2>2. CASE c.of.after = "reload"
      BY <1>7, <2>1, <2>2 DEF Screen!Return, ReloadDoes, NewLoad, Screen!Load
    <2>3. CASE c.of.after = "answer"
      <3>1. Screen!Show([q |-> asked, has |-> c.has])
        BY <1>7, <2>3 DEF Screen!Return
      <3>2. stale \in BOOLEAN
        BY DEF ShapeInv
      <3>3. Covers(asked, c.has)
        BY <3>1, <3>2, Zenon DEF Screen!Show, Covers
      <3> QED
        BY <1>7, <2>1, <2>3, <3>3 DEF Screen!Return, AnswerDoes
    <2>4. CASE c.of.after \notin {"reload", "answer"}
      BY <1>7, <2>1, <2>4 DEF Screen!Return, GoOnDoes
    <2> QED
      BY <2>2, <2>3, <2>4
  <1>8. ASSUME NEW c \in posts, Screen!Fail(c) PROVE FailDoes(c) \/ UndoDoes(c)
    <2>1. missed \in BOOLEAN /\ stale \in BOOLEAN
      BY DEF ShapeInv
    <2>2. Failed(c)
      <3>1. Frees(c, TRUE)
        BY <1>8 DEF Screen!Fail, Frees
      <3>2. CASE c.is = "refused" /\ UNCHANGED <<failures, missed>>
        BY <3>1, <3>2 DEF Failed
      <3>3. CASE /\ c.is # "refused" /\ failures < MaxFailures
                 /\ failures' = failures + 1
                 /\ missed' = (missed \/ Screen!Changes(c.of))
        <4>1. /\ missed' \in BOOLEAN /\ (missed \/ Screen!Changes(c.of) => missed')
              /\ (missed' => missed \/ Screen!Changes(c.of))
          BY <2>1, <3>3, Zenon
        <4> QED
          BY <3>1, <3>3, <4>1 DEF Failed
      <3> QED
        BY <1>8, <3>2, <3>3 DEF Screen!Fail
    <2>3. CASE c.of.after # "guess"
      BY <1>8, <2>1, <2>2, <2>3, Zenon DEF Screen!Fail, FailDoes
    <2>4. CASE c.of.after = "guess"
      BY <1>8, <2>1, <2>2, <2>4, Zenon DEF Screen!Fail, UndoDoes
    <2> QED
      BY <2>3, <2>4
  <1>9. CASE Screen!Leave
    BY <1>9 DEF Screen!Leave, LeaveDoes, ScreenDoes
  <1> QED
    BY <1>1, <1>2, <1>3, <1>4, <1>5, <1>6, <1>7, <1>8, <1>9
    DEF Screen!Next, ScreenDoes, LoadDoes, SendDoes, ServerDoes, BackDoes

LEMMA NewLoadIs == ASSUME NEW n \in Nat, NEW q \in Nat PROVE NewLoad(n, q) \in Loads
  BY DEF NewLoad, Loads

LEMMA ShapeStep ==
  ASSUME Screen!ScreensAssumption, ShapeInv, ScreenDoes PROVE ShapeInv'
  <1> USE DEF ShapeInv, Screen!ScreensAssumption
  <1>1. screen' = screen
    BY DEF ScreenDoes, LoadDoes, SendDoes, ServerDoes, BackDoes, AskDoes, ServeDoes, ShowDoes, DropDoes,
           LoseDoes, ClickDoes, GuessDoes, Pressed, AcceptDoes, RefuseDoes, ReloadDoes, AnswerDoes, GoOnDoes,
           FailDoes, UndoDoes, Failed, Frees, LeaveDoes
  <1>2. Held \subseteq Nat
    BY DEF Held, Screen!Held, Marks
  <1> Posts' = Posts /\ Marks' = Marks
    BY <1>1 DEF Posts, Marks
  <1>3. CASE AskDoes
    <2>1. NewLoad(sent + 1, asked + 1) \in Loads
      <3>1. sent + 1 \in Nat /\ asked + 1 \in Nat
        OBVIOUS
      <3> QED
        BY <3>1, NewLoadIs
    <2>2. loads' \subseteq Loads
      BY <1>3, <2>1 DEF AskDoes
    <2> QED
      BY <1>3, <2>2 DEF AskDoes
  <1>4. ASSUME NEW l \in loads, ServeDoes(l) PROVE ShapeInv'
    <2>1. ServedLoad(l) \in Loads
      BY <1>2 DEF ServedLoad, Loads
    <2>2. loads' \subseteq Loads
      BY <1>4, <2>1 DEF ServeDoes
    <2> QED
      BY <1>4, <2>2 DEF ServeDoes
  <1>5. ASSUME NEW l \in loads, ShowDoes(l) PROVE ShapeInv'
    <2>1. shown' \in Shows /\ stale' \in BOOLEAN
      BY <1>5 DEF ShowDoes, Covers, Loads, Shows
    <2>2. /\ loads' \subseteq loads
          /\ UNCHANGED <<screen, made, asked, sent, posts, busy, left, clicks, failures, missed>>
      BY <1>5 DEF ShowDoes
    <2>3. loads' \subseteq Loads /\ made' \subseteq Marks' /\ posts' \subseteq Posts'
      BY <2>2
    <2> QED
      BY <1>1, <2>1, <2>2, <2>3
  <1>6. ASSUME NEW l \in loads, DropDoes(l) \/ LoseDoes(l) PROVE ShapeInv'
    <2>1. /\ loads' \subseteq loads
          /\ UNCHANGED <<screen, made, asked, sent, posts, busy, shown, left, clicks, stale>>
      BY <1>6 DEF DropDoes, LoseDoes
    <2>2. loads' \subseteq Loads /\ made' \subseteq Marks' /\ posts' \subseteq Posts'
      BY <2>1
    <2>3. CASE DropDoes(l)
      <3>1. failures' = failures /\ missed' = missed
        BY <2>3 DEF DropDoes
      <3> QED
        BY <1>1, <2>1, <2>2, <3>1
    <2>4. CASE LoseDoes(l)
      <3>1. failures' = failures + 1 /\ failures < MaxFailures /\ missed' = TRUE
        BY <2>4 DEF LoseDoes
      <3>2. failures' \in 0 .. MaxFailures /\ missed' \in BOOLEAN
        BY <3>1
      <3> QED
        BY <1>1, <2>1, <2>2, <3>2
    <2> QED
      BY <1>6, <2>3, <2>4
  <1>7. ASSUME NEW w \in screen.writes, ClickDoes(w) \/ GuessDoes(w) PROVE ShapeInv'
    <2>1. Pressed(w)
      BY <1>7 DEF ClickDoes, GuessDoes
    <2>2. NewPost(w) \in Posts
      BY DEF NewPost, Posts
    <2>3. posts' \subseteq Posts /\ busy' \subseteq {v \in screen.writes : v.guard}
      BY <1>1, <2>1, <2>2 DEF Pressed
    <2>4. shown' \in Shows /\ sent' \in Nat
      BY <1>7 DEF ClickDoes, GuessDoes, Shows
    <2> QED
      BY <2>1, <2>3, <2>4 DEF Pressed
  <1>8. ASSUME NEW c \in posts, AcceptDoes(c) PROVE ShapeInv'
    <2>1. Mark(c) \in Marks
      BY DEF Mark, Marks, Posts
    <2>2. made' \subseteq Marks /\ IsFiniteSet(made')
      BY <1>8, <2>1, FS_AddElement DEF AcceptDoes
    <2>3. Held' \subseteq Nat
      BY <2>2 DEF Held, Screen!Held, Marks
    <2>4. Accepted(c, Held') \in Posts
      BY <2>3 DEF Accepted, Posts
    <2>5. posts' \subseteq Posts
      BY <1>8, <2>4 DEF AcceptDoes
    <2> QED
      BY <1>1, <1>8, <2>2, <2>5 DEF AcceptDoes
  <1>9. ASSUME NEW c \in posts, RefuseDoes(c) PROVE ShapeInv'
    <2>1. Refused(c) \in Posts
      BY DEF Refused, Posts
    <2> QED
      BY <1>9, <2>1 DEF RefuseDoes
  <1>10. ASSUME NEW c \in posts, ReloadDoes(c) \/ AnswerDoes(c) \/ GoOnDoes(c) PROVE ShapeInv'
    <2>1. Frees(c, FALSE)
      BY <1>10 DEF ReloadDoes, AnswerDoes, GoOnDoes
    <2>2. posts' \subseteq Posts /\ busy' \subseteq {v \in screen.writes : v.guard}
      BY <1>1, <2>1 DEF Frees
    <2>3. loads' \subseteq Loads /\ shown' \in Shows /\ sent' \in Nat
      <3>1. c.has \in SUBSET Nat
        BY DEF Posts
      <3>2. NewLoad(sent + 1, asked) \in Loads
        <4>1. sent + 1 \in Nat /\ asked \in Nat
          OBVIOUS
        <4> QED
          BY <4>1, NewLoadIs
      <3>3. CASE ReloadDoes(c)
        BY <3>2, <3>3 DEF ReloadDoes
      <3>4. CASE AnswerDoes(c)
        <4>1. [q |-> asked, has |-> c.has] \in Shows
          BY <3>1 DEF Shows
        <4> QED
          BY <3>4, <4>1 DEF AnswerDoes, Covers
      <3>5. CASE GoOnDoes(c)
        BY <3>5 DEF GoOnDoes
      <3> QED
        BY <1>10, <3>3, <3>4, <3>5
    <2>4. left' \in {"no", "soon", "yes"} /\ stale' \in BOOLEAN /\ UNCHANGED <<failures, missed>>
      BY <1>10 DEF ReloadDoes, AnswerDoes, GoOnDoes, Covers
    <2> QED
      BY <2>1, <2>2, <2>3, <2>4 DEF Frees
  <1>11. ASSUME NEW c \in posts, FailDoes(c) \/ UndoDoes(c) PROVE ShapeInv'
    <2>1. Failed(c) /\ Frees(c, TRUE)
      BY <1>11 DEF FailDoes, UndoDoes, Failed
    <2>2. posts' \subseteq Posts /\ busy' \subseteq {v \in screen.writes : v.guard}
      BY <1>1, <2>1 DEF Frees
    <2>3. loads' = loads /\ shown' \in Shows /\ sent' \in Nat /\ left' = left /\ stale' \in BOOLEAN
      BY <1>11 DEF FailDoes, UndoDoes, Posts
    <2>4. failures' \in 0 .. MaxFailures /\ missed' \in BOOLEAN
      BY <2>1 DEF Failed
    <2> QED
      BY <2>1, <2>2, <2>3, <2>4 DEF Frees
  <1>12. CASE LeaveDoes
    BY <1>12 DEF LeaveDoes
  <1> QED
    BY <1>3, <1>4, <1>5, <1>6, <1>7, <1>8, <1>9, <1>10, <1>11, <1>12
    DEF ScreenDoes, LoadDoes, SendDoes, ServerDoes, BackDoes

-----------------------------------------------------------------------------
(* Screens: what is made and what was told.                                *)
HeldHas(k) == \E m \in made : m.id = k /\ Screen!Changes(m.of)

LEMMA HeldIs == ASSUME NEW k PROVE k \in Held <=> HeldHas(k)
  BY DEF Held, Screen!Held, HeldHas

(* A write that is under way is held if it was accepted and changes.       *)
HeldIf(c) == c.id \in Held <=> c.is = "accepted" /\ Screen!Changes(c.of)

LEMMA HeldPost == ASSUME MarkInv, PostInv, NEW c \in posts PROVE HeldIf(c)
  <1> DEFINE m == [id |-> c.id, of |-> c.of]
  <1>1. CASE c.is = "accepted"
    <2>1. m \in made /\ m.id = c.id /\ m.of = c.of
      BY <1>1 DEF PostInv
    <2> HIDE DEF m
    <2>2. \A n \in made : n.id = c.id => n.of = c.of
      BY <2>1 DEF MarkInv
    <2>3. HeldHas(c.id) <=> Screen!Changes(c.of)
      BY <2>1, <2>2 DEF HeldHas
    <2> QED
      BY <1>1, <2>3, HeldIs DEF HeldIf
  <1>2. CASE c.is # "accepted"
    <2>1. ~HeldHas(c.id)
      BY <1>2 DEF PostInv, HeldHas
    <2> QED
      BY <1>2, <2>1, HeldIs DEF HeldIf
  <1> QED
    BY <1>1, <1>2

(* A commit adds its click to what is held, and tells nobody yet.          *)
LEMMA HeldAccept ==
  ASSUME ShapeInv, PostInv, NEW c \in posts, AcceptDoes(c)
  PROVE  /\ Held \subseteq Held' /\ Held' \subseteq Held \cup {c.id}
         /\ Screen!Changes(c.of) => c.id \in Held'
         /\ Told' = Told
  <1>1. /\ Mark(c).id = c.id /\ Mark(c).of = c.of
        /\ made' = made \cup {Mark(c)}
    BY DEF Mark, AcceptDoes
  <1>2. Held \subseteq Held' /\ Held' \subseteq Held \cup {c.id}
    BY <1>1 DEF Held, Screen!Held, Screen!Changes
  <1>3. Screen!Changes(c.of) => c.id \in Held'
    BY <1>1 DEF Held, Screen!Held, Screen!Changes
  <1>4. Accepted(c, Held').id = c.id
    BY DEF Accepted
  <1>5. {d.id : d \in posts'} = {d.id : d \in posts}
    BY <1>4 DEF AcceptDoes
  <1>6. c.id \in {d.id : d \in posts}
    OBVIOUS
  <1> QED
    BY <1>2, <1>3, <1>5, <1>6 DEF Told

LEMMA ToldRefuse ==
  ASSUME NEW c \in posts, RefuseDoes(c)
  PROVE  Held' = Held /\ Told' = Told
  <1>1. Held' = Held
    BY DEF RefuseDoes, Held, Screen!Held, Screen!Changes
  <1>2. Refused(c).id = c.id
    BY DEF Refused
  <1>3. {d.id : d \in posts'} = {d.id : d \in posts}
    BY <1>2 DEF RefuseDoes
  <1> QED
    BY <1>1, <1>3 DEF Told

(* A click is not made yet.                                                *)
LEMMA ToldPressed ==
  ASSUME ShapeInv, MarkInv, NEW w \in screen.writes, Pressed(w)
  PROVE  Held' = Held /\ Told' = Told
  <1>1. Held' = Held
    BY DEF Pressed, Held, Screen!Held, Screen!Changes
  <1>2. clicks + 1 \notin Held
    <2>1. ~HeldHas(clicks + 1)
      BY DEF MarkInv, ShapeInv, HeldHas
    <2> QED
      BY <2>1, HeldIs
  <1>3. {d.id : d \in posts'} = {d.id : d \in posts} \cup {clicks + 1}
    <2>1. NewPost(w).id = clicks + 1
      BY DEF NewPost
    <2> QED
      BY <2>1 DEF Pressed
  <1> QED
    BY <1>1, <1>2, <1>3 DEF Told

(* A handler that goes on is told what its click made.                     *)
LEMMA ToldFrees ==
  ASSUME PostInv, NEW c \in posts, NEW failed, Frees(c, failed)
  PROVE  Held' = Held /\ Told' = Told \cup ({c.id} \cap Held)
  <1>1. Held' = Held
    BY DEF Frees, Held, Screen!Held, Screen!Changes
  <1>2. {d.id : d \in posts'} = {d.id : d \in posts} \ {c.id}
    BY DEF Frees, PostInv
  <1>3. c.id \in {d.id : d \in posts}
    OBVIOUS
  <1> QED
    BY <1>1, <1>2, <1>3 DEF Told

LEMMA ToldRest ==
  ASSUME UNCHANGED <<made, posts>> PROVE Held' = Held /\ Told' = Told
  <1>1. Held' = Held
    BY DEF Held, Screen!Held, Screen!Changes
  <1> QED
    BY <1>1 DEF Told

-----------------------------------------------------------------------------
(* Screens: the steps, by what they leave alone.                           *)
NoPost == UNCHANGED <<screen, made, posts, clicks, left, busy>>
Back(c) == Frees(c, FALSE) /\ c.is = "accepted" /\ UNCHANGED <<failures, missed>>

LEMMA PostKinds ==
  ASSUME ScreenDoes
  PROVE  \/ NoPost \/ LeaveDoes
         \/ \E w \in screen.writes : Pressed(w)
         \/ \E c \in posts : AcceptDoes(c) \/ RefuseDoes(c) \/ Back(c) \/ Failed(c)
  <1>1. CASE LoadDoes
    BY <1>1 DEF LoadDoes, AskDoes, ServeDoes, ShowDoes, DropDoes, LoseDoes, NoPost
  <1>2. CASE SendDoes
    BY <1>2 DEF SendDoes, ClickDoes, GuessDoes
  <1>3. CASE ServerDoes
    BY <1>3 DEF ServerDoes
  <1>4. CASE BackDoes
    BY <1>4 DEF BackDoes, ReloadDoes, AnswerDoes, GoOnDoes, FailDoes, UndoDoes, Back
  <1> QED
    BY <1>1, <1>2, <1>3, <1>4 DEF ScreenDoes

LEMMA SameScreen == ASSUME ScreenDoes PROVE screen' = screen
  BY PostKinds DEF NoPost, LeaveDoes, Pressed, AcceptDoes, RefuseDoes, Back, Failed, Frees

LEMMA HeldGrows ==
  ASSUME ShapeInv, PostInv, ScreenDoes PROVE Held \subseteq Held'
  <1>1. ASSUME NEW c \in posts, AcceptDoes(c) PROVE Held \subseteq Held'
    BY <1>1, HeldAccept
  <1>2. ASSUME made' = made PROVE Held \subseteq Held'
    BY <1>2 DEF Held, Screen!Held, Screen!Changes
  <1> QED
    BY <1>1, <1>2, PostKinds DEF NoPost, LeaveDoes, Pressed, RefuseDoes, Back, Failed, Frees

Kept == loads' \subseteq loads /\ asked' = asked /\ (sent' = sent \/ sent' = sent + 1)

LEMMA LoadKinds ==
  ASSUME ScreenDoes
  PROVE  AskDoes \/ (\E l \in loads : ServeDoes(l)) \/ (\E c \in posts : ReloadDoes(c)) \/ Kept
  <1>1. CASE LoadDoes
    BY <1>1 DEF LoadDoes, ShowDoes, DropDoes, LoseDoes, Kept
  <1>2. CASE SendDoes
    BY <1>2 DEF SendDoes, ClickDoes, GuessDoes, Pressed, Kept
  <1>3. CASE ServerDoes
    BY <1>3 DEF ServerDoes, AcceptDoes, RefuseDoes, Kept
  <1>4. CASE BackDoes
    BY <1>4 DEF BackDoes, AnswerDoes, GoOnDoes, FailDoes, UndoDoes, Failed, Frees, Kept
  <1>5. CASE LeaveDoes
    BY <1>5 DEF LeaveDoes, Kept
  <1> QED
    BY <1>1, <1>2, <1>3, <1>4, <1>5 DEF ScreenDoes

LEMMA LoadStep ==
  ASSUME ShapeInv, PostInv, LoadInv, ScreenDoes PROVE LoadInv'
  <1>1. Held \subseteq Held' /\ sent \in Nat /\ asked \in Nat
    BY HeldGrows DEF ShapeInv
  <1>2. ASSUME NEW n, n = NewLoad(sent + 1, asked'), loads' = loads \cup {n}, sent' = sent + 1,
               asked' \in Nat, asked' >= asked
        PROVE  LoadInv'
    <2>1. n.id = sent + 1 /\ n.q = asked' /\ n.has = {}
      BY <1>2 DEF NewLoad
    <2>2. \A l \in loads : l.id \in 1 .. sent /\ l.q \in 0 .. asked' /\ l.has \subseteq Held'
      BY <1>1, <1>2 DEF LoadInv
    <2>3. \A l \in loads' : l.id \in 1 .. sent' /\ l.q \in 0 .. asked' /\ l.has \subseteq Held'
      BY <1>1, <1>2, <2>1, <2>2
    <2>4. \A l, m \in loads' : l.id = m.id => l = m
      BY <1>1, <1>2, <2>1, <2>2 DEF LoadInv
    <2>5. \A l \in loads' : l.id = sent' => l.q = asked'
      BY <1>1, <1>2, <2>1, <2>2
    <2> QED
      BY <2>3, <2>4, <2>5 DEF LoadInv
  <1>3. CASE AskDoes
    BY <1>1, <1>2, <1>3 DEF AskDoes
  <1>4. ASSUME NEW l \in loads, ServeDoes(l) PROVE LoadInv'
    <2>1. ServedLoad(l).id = l.id /\ ServedLoad(l).q = l.q /\ ServedLoad(l).has = Held
      BY DEF ServedLoad
    <2>2. sent' = sent /\ asked' = asked /\ loads' = (loads \ {l}) \cup {ServedLoad(l)}
      BY <1>4 DEF ServeDoes
    <2> QED
      BY <1>1, <2>1, <2>2 DEF LoadInv
  <1>5. ASSUME NEW c \in posts, ReloadDoes(c) PROVE LoadInv'
    BY <1>1, <1>2, <1>5 DEF ReloadDoes, Frees
  <1>6. CASE Kept
    <2>1. \A l \in loads' : l.id \in 1 .. sent' /\ l.q \in 0 .. asked' /\ l.has \subseteq Held'
      BY <1>1, <1>6 DEF LoadInv, Kept
    <2>2. \A l \in loads' : l.id = sent' => l.q = asked'
      BY <1>1, <1>6 DEF LoadInv, Kept
    <2>3. \A l, m \in loads' : l.id = m.id => l = m
      BY <1>6 DEF LoadInv, Kept
    <2> QED
      BY <2>1, <2>2, <2>3 DEF LoadInv
  <1> QED
    BY <1>3, <1>4, <1>5, <1>6, LoadKinds

LEMMA MarkStep ==
  ASSUME ShapeInv, MarkInv, PostInv, ScreenDoes PROVE MarkInv'
  <1>1. ASSUME NEW c \in posts, AcceptDoes(c) PROVE MarkInv'
    <2>1. Mark(c).id = c.id /\ c.id \in 1 .. clicks
      BY DEF Mark, PostInv
    <2>2. \A m \in made : m.id # c.id
      BY <1>1 DEF PostInv, AcceptDoes
    <2>3. made' = made \cup {Mark(c)} /\ clicks' = clicks
      BY <1>1 DEF AcceptDoes
    <2> QED
      BY <2>1, <2>2, <2>3 DEF MarkInv
  <1>2. ASSUME made' = made, clicks' = clicks \/ clicks' = clicks + 1 PROVE MarkInv'
    BY <1>2 DEF MarkInv, ShapeInv
  <1> QED
    BY <1>1, <1>2, PostKinds DEF NoPost, LeaveDoes, Pressed, RefuseDoes, Back, Failed, Frees

LEMMA PostStep ==
  ASSUME ShapeInv, MarkInv, PostInv, ScreenDoes PROVE PostInv'
  <1>1. Held \subseteq Held'
    BY HeldGrows
  <1>2. ASSUME posts' \subseteq posts, UNCHANGED <<made, clicks>> PROVE PostInv'
    BY <1>1, <1>2 DEF PostInv, Screen!Changes
  <1>3. ASSUME NEW w \in screen.writes, Pressed(w) PROVE PostInv'
    <2> DEFINE n == NewPost(w)
    <2>1. n.id = clicks + 1 /\ n.is = "sent" /\ n.has = {}
      BY DEF NewPost
    <2>2. posts' = posts \cup {n} /\ made' = made /\ clicks' = clicks + 1 /\ clicks \in Nat
      BY <1>3 DEF Pressed, ShapeInv
    <2> HIDE DEF n
    <2>3. \A c \in posts' : c.id \in 1 .. clicks' /\ c.has \subseteq Held'
      BY <1>1, <2>1, <2>2 DEF PostInv
    <2>4. \A c, d \in posts' : c.id = d.id => c = d
      BY <2>1, <2>2 DEF PostInv
    <2>5. \A c \in posts' : c.is = "accepted" => c \in posts
      BY <2>1, <2>2
    <2>6. \A c \in posts' : c.is # "accepted" => \A m \in made : m.id # c.id
      BY <2>1, <2>2 DEF PostInv, MarkInv
    <2> QED
      BY <2>2, <2>3, <2>4, <2>5, <2>6 DEF PostInv, Screen!Changes
  <1>4. ASSUME NEW c \in posts, AcceptDoes(c) PROVE PostInv'
    <2> DEFINE n == Accepted(c, Held')
    <2>1. n.id = c.id /\ n.is = "accepted" /\ n.has = Held' /\ n.of = c.of
      BY DEF Accepted
    <2>2. /\ posts' = (posts \ {c}) \cup {n} /\ made' = made \cup {Mark(c)} /\ clicks' = clicks
          /\ c.is = "sent"
      BY <1>4 DEF AcceptDoes
    <2> HIDE DEF n
    <2>3. \A d \in posts' : d.id \in 1 .. clicks' /\ d.has \subseteq Held'
      BY <1>1, <2>1, <2>2 DEF PostInv
    <2>4. \A d, e \in posts' : d.id = e.id => d = e
      BY <2>1, <2>2 DEF PostInv
    <2>5. \A d \in posts' : d.is = "accepted" => [id |-> d.id, of |-> d.of] \in made'
      BY <2>1, <2>2 DEF PostInv, Mark
    <2>6. \A d \in posts' : d.is # "accepted" => \A m \in made' : m.id # d.id
      <3>1. ASSUME NEW d \in posts', d.is # "accepted" PROVE \A m \in made' : m.id # d.id
        <4>1. d \in posts /\ d.id # c.id
          BY <2>1, <2>2, <3>1 DEF PostInv
        <4>2. Mark(c).id = c.id
          BY DEF Mark
        <4> QED
          BY <2>2, <3>1, <4>1, <4>2 DEF PostInv
      <3> QED
        BY <3>1
    <2>7. \A d \in posts' : d.is = "accepted" /\ Screen!Changes(d.of) => d.id \in d.has
      <3>1. Screen!Changes(c.of) => n.id \in n.has
        BY <1>4, <2>1, HeldAccept
      <3>2. \A d \in posts' : d = n \/ d \in posts
        BY <2>2
      <3> QED
        BY <2>1, <3>1, <3>2 DEF PostInv
    <2> QED
      BY <2>3, <2>4, <2>5, <2>6, <2>7 DEF PostInv, Screen!Changes
  <1>5. ASSUME NEW c \in posts, RefuseDoes(c) PROVE PostInv'
    <2> DEFINE n == Refused(c)
    <2>1. n.id = c.id /\ n.is = "refused" /\ n.has = c.has /\ n.of = c.of
      BY DEF Refused
    <2>2. posts' = (posts \ {c}) \cup {n} /\ made' = made /\ clicks' = clicks /\ c.is = "sent"
      BY <1>5 DEF RefuseDoes
    <2> HIDE DEF n
    <2>3. \A d \in posts' : d.id \in 1 .. clicks' /\ d.has \subseteq Held'
      BY <1>1, <2>1, <2>2 DEF PostInv
    <2>4. \A d, e \in posts' : d.id = e.id => d = e
      BY <2>1, <2>2 DEF PostInv
    <2>5. \A d \in posts' : d.is = "accepted" => d \in posts
      BY <2>1, <2>2
    <2>6. \A d \in posts' : d.is # "accepted" => \A m \in made : m.id # d.id
      BY <2>1, <2>2 DEF PostInv
    <2> QED
      BY <2>2, <2>3, <2>4, <2>5, <2>6 DEF PostInv, Screen!Changes
  <1>6. CASE NoPost \/ LeaveDoes
    BY <1>2, <1>6 DEF NoPost, LeaveDoes
  <1>7. ASSUME NEW c \in posts, Back(c) \/ Failed(c) PROVE PostInv'
    BY <1>2, <1>7 DEF Back, Failed, Frees
  <1> QED
    BY <1>3, <1>4, <1>5, <1>6, <1>7, PostKinds

(* What is shown: as before, an answer, one click more, or what was there  *)
(* before a click.                                                         *)
LEMMA ShownKinds ==
  ASSUME ScreenDoes
  PROVE  \/ shown' = shown
         \/ \E l \in loads : ShowDoes(l)
         \/ \E w \in screen.writes : GuessDoes(w)
         \/ \E c \in posts : AnswerDoes(c) \/ UndoDoes(c)
  <1>1. CASE LoadDoes
    BY <1>1 DEF LoadDoes, AskDoes, ServeDoes, DropDoes, LoseDoes
  <1>2. CASE SendDoes
    BY <1>2 DEF SendDoes, ClickDoes
  <1>3. CASE ServerDoes
    BY <1>3 DEF ServerDoes, AcceptDoes, RefuseDoes
  <1>4. CASE BackDoes
    BY <1>4 DEF BackDoes, ReloadDoes, GoOnDoes, FailDoes
  <1>5. CASE LeaveDoes
    BY <1>5 DEF LeaveDoes
  <1> QED
    BY <1>1, <1>2, <1>3, <1>4, <1>5 DEF ScreenDoes

LEMMA HeldClicks == ASSUME MarkInv PROVE Held \subseteq 1 .. clicks
  BY DEF MarkInv, Held, Screen!Held

LEMMA ShownStep ==
  ASSUME ShapeInv, LoadInv, MarkInv, PostInv, GuessInv, ShownInv, ScreenDoes PROVE ShownInv'
  <1>1. clicks \in Nat /\ (clicks' = clicks \/ clicks' = clicks + 1)
    <2>1. clicks' = clicks \/ clicks' = clicks + 1
      BY PostKinds DEF NoPost, LeaveDoes, Pressed, AcceptDoes, RefuseDoes, Back, Failed, Frees
    <2> QED
      BY <2>1 DEF ShapeInv
  <1>2. 1 .. clicks \subseteq 1 .. clicks'
    BY <1>1
  <1>3. CASE shown' = shown
    BY <1>2, <1>3 DEF ShownInv
  <1>4. ASSUME NEW l \in loads, ShowDoes(l) PROVE ShownInv'
    <2>1. shown'.has = l.has /\ l.has \subseteq Held
      BY <1>4 DEF ShowDoes, Covers, LoadInv
    <2> QED
      BY <1>2, <2>1, HeldClicks DEF ShownInv
  <1>5. ASSUME NEW w \in screen.writes, GuessDoes(w) PROVE ShownInv'
    <2>1. shown'.has = shown.has \cup {clicks + 1} /\ clicks' = clicks + 1
      BY <1>5 DEF GuessDoes, Pressed
    <2> QED
      BY <1>1, <2>1 DEF ShownInv
  <1>6. ASSUME NEW c \in posts, AnswerDoes(c) PROVE ShownInv'
    <2>1. shown'.has = c.has /\ c.has \subseteq Held
      BY <1>6 DEF AnswerDoes, Covers, PostInv
    <2> QED
      BY <1>2, <2>1, HeldClicks DEF ShownInv
  <1>7. ASSUME NEW c \in posts, UndoDoes(c) PROVE ShownInv'
    <2>1. shown' = c.before /\ c \in Guesses /\ c.id \in 1 .. clicks /\ c.before.has \subseteq Nat
      BY <1>7 DEF UndoDoes, Guesses, PostInv, ShapeInv, Posts, Shows
    <2>2. \A k \in c.before.has : 0 < k /\ k < c.id
      BY <2>1 DEF GuessInv, Guessed
    <2>3. c.before.has \subseteq 1 .. clicks
      BY <1>1, <2>1, <2>2
    <2> QED
      BY <1>2, <2>1, <2>3 DEF ShownInv
  <1> QED
    BY <1>3, <1>4, <1>5, <1>6, <1>7, ShownKinds

(* A write whose button waits is freed when its handler goes on, or the    *)
(* page is about to go.                                                    *)
LEMMA BackFrees ==
  ASSUME Screen!ScreensAssumption, ShapeInv, ScreenDoes, NEW c \in posts, ~Screen!Frees(c.of, FALSE),
         ReloadDoes(c) \/ AnswerDoes(c) \/ GoOnDoes(c)
  PROVE  left' # "no"
  <1>1. c.of \in screen.writes
    BY DEF ShapeInv, Posts
  <1>2. c.of.frees = "error" /\ c.of.after \in {"leave", "replace"}
    BY <1>1 DEF Screen!ScreensAssumption, Screen!PartsAssumption, ShapeInv, Screen!Frees
  <1>3. GoOnDoes(c)
    BY <1>2 DEF ReloadDoes, AnswerDoes
  <1> QED
    BY <1>2, <1>3 DEF GoOnDoes

LEMMA LeftStays == ASSUME ScreenDoes, left # "no" PROVE left' # "no"
  <1>1. CASE LoadDoes
    BY <1>1 DEF LoadDoes, AskDoes, ServeDoes, ShowDoes, DropDoes, LoseDoes
  <1>2. CASE SendDoes
    BY <1>2 DEF SendDoes, ClickDoes, GuessDoes, Pressed
  <1>3. CASE ServerDoes
    BY <1>3 DEF ServerDoes, AcceptDoes, RefuseDoes
  <1>4. CASE BackDoes
    BY <1>4 DEF BackDoes, ReloadDoes, AnswerDoes, GoOnDoes, FailDoes, UndoDoes
  <1>5. CASE LeaveDoes
    BY <1>5 DEF LeaveDoes
  <1> QED
    BY <1>1, <1>2, <1>3, <1>4, <1>5 DEF ScreenDoes

LEMMA BusyStep ==
  ASSUME Screen!ScreensAssumption, ShapeInv, BusyInv, ScreenDoes PROVE BusyInv'
  <1>1. ASSUME NEW w \in screen.writes, Pressed(w) PROVE BusyInv'
    <2>1. NewPost(w).of = w
      BY DEF NewPost
    <2>2. /\ posts' = posts \cup {NewPost(w)} /\ left' = left /\ (w.guard => w \notin busy)
          /\ busy' = IF w.guard THEN busy \cup {w} ELSE busy
      BY <1>1 DEF Pressed
    <2>3. \A c \in posts : c.of.guard => c.of # w
      BY <2>2 DEF BusyInv
    <2>4. \A c \in posts' : c.of.guard => c.of \in busy'
      BY <2>1, <2>2 DEF BusyInv
    <2>5. \A c, d \in posts' : c.of.guard /\ c.of = d.of => c = d
      BY <2>1, <2>2, <2>3 DEF BusyInv
    <2>6. \A v \in busy' : left' # "no" \/ \E c \in posts' : c.of = v
      BY <2>1, <2>2 DEF BusyInv
    <2> QED
      BY <2>4, <2>5, <2>6 DEF BusyInv
  <1>2. ASSUME NEW c \in posts, NEW n, n.of = c.of, posts' = (posts \ {c}) \cup {n}, busy' = busy,
               left' = left
        PROVE  BusyInv'
    BY <1>2 DEF BusyInv
  <1>3. ASSUME NEW c \in posts, AcceptDoes(c) \/ RefuseDoes(c) PROVE BusyInv'
    <2>1. Accepted(c, Held').of = c.of /\ Refused(c).of = c.of
      BY DEF Accepted, Refused
    <2> QED
      BY <1>2, <1>3, <2>1 DEF AcceptDoes, RefuseDoes
  <1>4. ASSUME NEW c \in posts, NEW f \in BOOLEAN, Frees(c, f), ~Screen!Frees(c.of, f) => left' # "no"
        PROVE  BusyInv'
    <2>1. posts' = posts \ {c} /\ busy' = IF Screen!Frees(c.of, f) THEN busy \ {c.of} ELSE busy
      BY <1>4 DEF Frees
    <2>2. \A d \in posts' : d.of.guard => d.of # c.of
      BY <2>1 DEF BusyInv
    <2>3. \A d \in posts' : d.of.guard => d.of \in busy'
      BY <2>1, <2>2 DEF BusyInv
    <2>4. \A v \in busy' : left' # "no" \/ \E d \in posts' : d.of = v
      <3>1. CASE left' # "no"
        BY <3>1
      <3>2. CASE left' = "no"
        <4>1. left = "no" /\ busy' = busy \ {c.of}
          BY <1>4, <2>1, <3>2, LeftStays
        <4> QED
          BY <2>1, <4>1 DEF BusyInv
      <3> QED
        BY <3>1, <3>2
    <2> QED
      BY <2>1, <2>3, <2>4 DEF BusyInv
  <1>5. ASSUME NEW c \in posts, ReloadDoes(c) \/ AnswerDoes(c) \/ GoOnDoes(c) PROVE BusyInv'
    <2>1. Frees(c, FALSE)
      BY <1>5 DEF ReloadDoes, AnswerDoes, GoOnDoes
    <2> QED
      BY <1>4, <1>5, <2>1, BackFrees
  <1>6. ASSUME NEW c \in posts, FailDoes(c) \/ UndoDoes(c) PROVE BusyInv'
    <2>1. Frees(c, TRUE) /\ Screen!Frees(c.of, TRUE)
      BY <1>6 DEF FailDoes, UndoDoes, Failed, Screen!Frees
    <2> QED
      BY <1>4, <2>1
  <1>7. CASE LoadDoes \/ LeaveDoes
    <2>1. posts' = posts /\ busy' = busy /\ (left' = left \/ left' = "yes")
      BY <1>7 DEF LoadDoes, AskDoes, ServeDoes, ShowDoes, DropDoes, LoseDoes, LeaveDoes
    <2> QED
      BY <2>1 DEF BusyInv
  <1>8. CASE SendDoes
    BY <1>1, <1>8 DEF SendDoes, ClickDoes, GuessDoes
  <1>9. CASE ServerDoes
    BY <1>3, <1>9 DEF ServerDoes
  <1>10. CASE BackDoes
    BY <1>5, <1>6, <1>10 DEF BackDoes
  <1> QED
    BY <1>7, <1>8, <1>9, <1>10 DEF ScreenDoes

-----------------------------------------------------------------------------
(* Screens: how often a form is made.                                      *)
LEMMA MadeFinite == ASSUME ShapeInv, NEW w PROVE IsFiniteSet(MadeOf(w)) /\ Cardinality(MadeOf(w)) \in Nat
  <1>1. IsFiniteSet(MadeOf(w))
    BY FS_Subset DEF MadeOf, ShapeInv
  <1> QED
    BY <1>1, FS_CardinalityType

Limits(w) ==
  /\ Cardinality(MadeOf(w)) <= 1 + failures
  /\ Ready(w) => Cardinality(MadeOf(w)) <= failures

(* A step that makes nothing and makes no form ready keeps its limits.     *)
LEMMA LimitsKept ==
  ASSUME ShapeInv, NEW w, Limits(w), made' = made, failures' \in Nat,
         (failures' = failures /\ (Ready(w)' => Ready(w))) \/ failures' = failures + 1
  PROVE  Limits(w)'
  <1>1. MadeOf(w)' = MadeOf(w) /\ failures \in Nat
    BY DEF MadeOf, ShapeInv
  <1>2. Cardinality(MadeOf(w)) \in Nat
    BY MadeFinite
  <1> DEFINE n == Cardinality(MadeOf(w))
  <1>3. Cardinality(MadeOf(w)') = n
    BY <1>1
  <1> HIDE DEF n
  <1>4. n \in Nat
    BY <1>2 DEF n
  <1>5. n <= 1 + failures /\ (Ready(w) => n <= failures)
    BY DEF Limits, n
  <1>6. n <= 1 + failures' /\ (Ready(w)' => n <= failures')
    <2>1. CASE failures' = failures /\ (Ready(w)' => Ready(w))
      BY <1>5, <2>1
    <2>2. CASE failures' = failures + 1
      <3>1. n <= failures' /\ n <= 1 + failures'
        BY <1>1, <1>4, <1>5, <2>2
      <3> QED
        BY <3>1
    <2> QED
      BY <2>1, <2>2
  <1> QED
    BY <1>3, <1>6 DEF Limits

LEMMA CountPressed ==
  ASSUME ShapeInv, ShapeInv', NEW w \in screen.writes, Ends(w), Limits(w), NEW v \in screen.writes,
         Pressed(v)
  PROVE  Limits(w)'
  <1>1. /\ posts' = posts \cup {NewPost(v)} /\ NewPost(v).of = v /\ left' = left /\ left # "yes"
        /\ busy \subseteq busy' /\ (v.guard => v \notin busy) /\ made' = made /\ failures' = failures
    BY DEF Pressed, NewPost
  <1>2. Ready(w)' => Ready(w)
    <2>1. CASE v = w
      BY <1>1, <2>1 DEF Ready, Ends
    <2>2. CASE v # w
      BY <1>1, <2>2 DEF Ready
    <2> QED
      BY <2>1, <2>2
  <1>3. failures' \in Nat
    BY DEF ShapeInv
  <1> QED
    BY <1>1, <1>2, <1>3, LimitsKept

LEMMA CountAccept ==
  ASSUME ShapeInv, BusyInv, NEW w \in screen.writes, Ends(w), Limits(w), NEW c \in posts, AcceptDoes(c)
  PROVE  Limits(w)'
  <1>1. /\ posts' = (posts \ {c}) \cup {Accepted(c, Held')} /\ Accepted(c, Held').of = c.of
        /\ Accepted(c, Held').is = "accepted" /\ c.is = "sent" /\ busy' = busy /\ left' = left
        /\ made' = made \cup {Mark(c)} /\ Mark(c).of = c.of /\ failures' = failures
    BY DEF AcceptDoes, Accepted, Mark
  <1>2. IsFiniteSet(MadeOf(w)) /\ Cardinality(MadeOf(w)) \in Nat /\ failures \in Nat
    BY MadeFinite DEF ShapeInv
  <1>3. CASE c.of = w
    <2>1. Cardinality(MadeOf(w)) <= failures
      BY <1>1, <1>3 DEF Limits, Ready
    <2>2. MadeOf(w)' = MadeOf(w) \cup {Mark(c)}
      BY <1>1, <1>3 DEF MadeOf
    <2>3. \/ Cardinality(MadeOf(w)') = Cardinality(MadeOf(w))
          \/ Cardinality(MadeOf(w)') = Cardinality(MadeOf(w)) + 1
      BY <1>2, <2>2, FS_AddElement
    <2>4. ~Ready(w)'
      BY <1>1, <1>3 DEF Ready, BusyInv, Ends
    <2>5. Cardinality(MadeOf(w)') <= 1 + failures'
      BY <1>1, <1>2, <2>1, <2>3
    <2> QED
      BY <2>4, <2>5 DEF Limits
  <1>4. CASE c.of # w
    <2>1. MadeOf(w)' = MadeOf(w)
      BY <1>1, <1>4 DEF MadeOf
    <2>2. Ready(w)' => Ready(w)
      BY <1>1, <1>4 DEF Ready
    <2> QED
      BY <1>1, <2>1, <2>2 DEF Limits
  <1> QED
    BY <1>3, <1>4

LEMMA CountRefuse ==
  ASSUME ShapeInv, ShapeInv', NEW w \in screen.writes, Limits(w), NEW c \in posts, RefuseDoes(c)
  PROVE  Limits(w)'
  <1>1. /\ posts' = (posts \ {c}) \cup {Refused(c)} /\ Refused(c).of = c.of
        /\ c.is = "sent" /\ busy' = busy /\ left' = left /\ made' = made /\ failures' = failures
    BY DEF RefuseDoes, Refused
  <1>2. Ready(w)' => Ready(w)
    BY <1>1 DEF Ready
  <1>3. failures' \in Nat
    BY DEF ShapeInv
  <1> QED
    BY <1>1, <1>2, <1>3, LimitsKept

(* A form that ends is not ready again when its handler went on.           *)
LEMMA CountBack ==
  ASSUME ShapeInv, ShapeInv', BusyInv, NEW w \in screen.writes, Ends(w), Limits(w), NEW c \in posts,
         ReloadDoes(c) \/ AnswerDoes(c) \/ GoOnDoes(c)
  PROVE  Limits(w)'
  <1>1. /\ Frees(c, FALSE) /\ c.is = "accepted" /\ failures' = failures
    BY DEF ReloadDoes, AnswerDoes, GoOnDoes
  <1>2. /\ posts' = posts \ {c} /\ left # "yes" /\ made' = made
        /\ busy' = IF Screen!Frees(c.of, FALSE) THEN busy \ {c.of} ELSE busy
    BY <1>1 DEF Frees
  <1>3. Ready(w)' => Ready(w)
    <2>1. CASE c.of = w
      <3>1. \A d \in posts' : d.of # w
        BY <1>2, <2>1 DEF BusyInv, Ends
      <3>2. GoOnDoes(c)
        BY <2>1 DEF Ends, ReloadDoes, AnswerDoes
      <3>3. w.after = "replace" => left' = "yes"
        BY <2>1, <3>2 DEF GoOnDoes
      <3>4. w.after = "leave" /\ w.frees = "error" => w \in busy'
        BY <1>2, <2>1 DEF Screen!Frees, BusyInv, Ends
      <3> QED
        BY <3>1, <3>3, <3>4 DEF Ready, Ends
    <2>2. CASE c.of # w
      BY <1>2, <2>2 DEF Ready
    <2> QED
      BY <2>1, <2>2
  <1>4. failures' \in Nat
    BY DEF ShapeInv
  <1> QED
    BY <1>1, <1>2, <1>3, <1>4, LimitsKept

(* A refused form may be sent again; so may one whose answer was lost.     *)
LEMMA CountFailed ==
  ASSUME ShapeInv, ShapeInv', BusyInv, NEW w \in screen.writes, Limits(w), NEW c \in posts, Failed(c),
         left' = left
  PROVE  Limits(w)'
  <1>1. /\ posts' = posts \ {c} /\ left # "yes" /\ made' = made
        /\ busy' = IF Screen!Frees(c.of, TRUE) THEN busy \ {c.of} ELSE busy
    BY DEF Failed, Frees
  <1>2. failures' \in Nat
    BY DEF ShapeInv
  <1>3. CASE c.is = "refused" /\ failures' = failures
    <2>1. Ready(w)' => Ready(w)
      <3>1. CASE c.of = w
        BY <1>3, <3>1 DEF Ready
      <3>2. CASE c.of # w
        BY <1>1, <3>2 DEF Ready
      <3> QED
        BY <3>1, <3>2
    <2> QED
      BY <1>1, <1>2, <1>3, <2>1, LimitsKept
  <1>4. CASE failures' = failures + 1
    BY <1>1, <1>2, <1>4, LimitsKept
  <1> QED
    BY <1>3, <1>4 DEF Failed

LEMMA CountStep ==
  ASSUME ShapeInv, ShapeInv', BusyInv, CountInv, ScreenDoes PROVE CountInv'
  <1> SUFFICES ASSUME NEW w \in screen.writes, Ends(w) PROVE Limits(w)'
    BY SameScreen DEF CountInv, Limits, Ends
  <1>1. Limits(w)
    BY DEF CountInv, Limits
  <1>2. CASE LoadDoes \/ LeaveDoes
    <2>1. /\ posts' = posts /\ busy' = busy /\ made' = made /\ (left' = left \/ left' = "yes")
          /\ (failures' = failures \/ failures' = failures + 1)
      BY <1>2 DEF LoadDoes, AskDoes, ServeDoes, ShowDoes, DropDoes, LoseDoes, LeaveDoes
    <2>2. Ready(w)' => Ready(w)
      BY <2>1 DEF Ready
    <2>3. failures' \in Nat
      BY DEF ShapeInv
    <2> QED
      BY <1>1, <2>1, <2>2, <2>3, LimitsKept
  <1>3. CASE SendDoes
    BY <1>1, <1>3, CountPressed DEF SendDoes, ClickDoes, GuessDoes
  <1>4. CASE ServerDoes
    BY <1>1, <1>4, CountAccept, CountRefuse DEF ServerDoes
  <1>5. CASE BackDoes
    <2>1. ASSUME NEW c \in posts, FailDoes(c) \/ UndoDoes(c) PROVE Failed(c) /\ left' = left
      BY <2>1 DEF FailDoes, UndoDoes
    <2> QED
      BY <1>1, <1>5, <2>1, CountBack, CountFailed DEF BackDoes
  <1> QED
    BY <1>2, <1>3, <1>4, <1>5 DEF ScreenDoes

-----------------------------------------------------------------------------
(* Screens: what an answer knows.                                          *)

(* What is told grows only when a handler goes on.                         *)
LEMMA ToldStays ==
  ASSUME ShapeInv, MarkInv, LoadDoes \/ SendDoes \/ LeaveDoes PROVE Held' = Held /\ Told' = Told
  <1>1. CASE LoadDoes \/ LeaveDoes
    BY <1>1, ToldRest DEF LoadDoes, AskDoes, ServeDoes, ShowDoes, DropDoes, LoseDoes, LeaveDoes
  <1>2. CASE SendDoes
    BY <1>2, ToldPressed DEF SendDoes, ClickDoes, GuessDoes
  <1> QED
    BY <1>1, <1>2

LEMMA ToldServer == ASSUME ShapeInv, PostInv, ServerDoes PROVE Told' = Told
  BY HeldAccept, ToldRefuse DEF ServerDoes

(* Going on without showing tells nothing new, but for a guess, which is   *)
(* shown already.                                                          *)
LEMMA ToldGoOn ==
  ASSUME MarkInv, PostInv, NEW c \in posts, GoOnDoes(c)
  PROVE  /\ Held' = Held /\ Told' \subseteq Told \cup {c.id}
         /\ c.of.after # "guess" => Told' = Told
  <1>1. Held' = Held /\ Told' = Told \cup ({c.id} \cap Held)
    BY ToldFrees DEF GoOnDoes
  <1>2. c.of.after # "guess" => c.id \notin Held
    BY HeldPost DEF HeldIf, GoOnDoes, Screen!Changes
  <1> QED
    BY <1>1, <1>2

LEMMA ToldFailed ==
  ASSUME MarkInv, PostInv, NEW c \in posts, Failed(c)
  PROVE  Held' = Held /\ (~missed' => Told' = Told /\ c.id \notin Held)
  <1>1. Held' = Held /\ Told' = Told \cup ({c.id} \cap Held)
    BY ToldFrees DEF Failed
  <1>2. ~missed' => ~(c.is = "accepted" /\ Screen!Changes(c.of))
    BY DEF Failed
  <1>3. ~missed' => c.id \notin Held
    BY <1>2, HeldPost DEF HeldIf
  <1> QED
    BY <1>1, <1>3

LEMMA Memory ==
  ASSUME ShapeInv, ScreenDoes
  PROVE  (~missed' => ~missed) /\ (~stale' => ~stale) /\ (InOrder' => InOrder)
  <1>1. (~missed' => ~missed) /\ (~stale' => ~stale)
    <2>1. CASE LoadDoes \/ LeaveDoes
      BY <2>1 DEF LoadDoes, AskDoes, ServeDoes, ShowDoes, DropDoes, LoseDoes, LeaveDoes, Covers
    <2>2. CASE SendDoes
      BY <2>2 DEF SendDoes, ClickDoes, GuessDoes, Pressed
    <2>3. CASE ServerDoes
      BY <2>3 DEF ServerDoes, AcceptDoes, RefuseDoes
    <2>4. ASSUME NEW c \in posts, Failed(c) PROVE ~missed' => ~missed
      BY <2>4 DEF Failed
    <2>5. CASE BackDoes
      <3>1. ASSUME NEW c \in posts, ReloadDoes(c) \/ AnswerDoes(c) \/ GoOnDoes(c)
            PROVE  (~missed' => ~missed) /\ (~stale' => ~stale)
        <4>1. missed' = missed /\ (stale' = stale \/ (~stale' => ~stale))
          BY <3>1 DEF ReloadDoes, AnswerDoes, GoOnDoes, Covers
        <4> QED
          BY <4>1
      <3>2. ASSUME NEW c \in posts, FailDoes(c) \/ UndoDoes(c)
            PROVE  (~missed' => ~missed) /\ (~stale' => ~stale)
        <4>1. Failed(c) /\ (stale' = stale \/ (~stale' => ~stale))
          BY <3>2 DEF FailDoes, UndoDoes
        <4> QED
          BY <2>4, <4>1
      <3> QED
        BY <2>5, <3>1, <3>2 DEF BackDoes
    <2> QED
      BY <2>1, <2>2, <2>3, <2>5 DEF ScreenDoes
  <1>2. Screen!Ordered(screen)' <=> Screen!Ordered(screen)
    BY SameScreen DEF Screen!Ordered, Screen!Changing, Screen!Changes
  <1> QED
    BY <1>1, <1>2 DEF InOrder

(* A step after which no load has the last number.                         *)
LEMMA NoLast ==
  ASSUME ShapeInv, LoadInv, loads' \subseteq loads, sent' = sent + 1
  PROVE  \A l \in loads' : l.id # sent'
  BY DEF LoadInv, ShapeInv

LEMMA LastStep ==
  ASSUME ShapeInv, LoadInv, MarkInv, PostInv, GuessInv, LastInv, ScreenDoes PROVE LastInv'
  <1> SUFFICES ASSUME ~missed' PROVE \A l \in loads' : l.id = sent' /\ l.served => Told' \subseteq l.has
    BY DEF LastInv
  <1>1. \A l \in loads : l.id = sent /\ l.served => Told \subseteq l.has
    BY Memory DEF LastInv
  <1>2. ASSUME Told' = Told, loads' \subseteq loads, sent' = sent
        PROVE  \A l \in loads' : l.id = sent' /\ l.served => Told' \subseteq l.has
    BY <1>1, <1>2
  <1>3. ASSUME NEW n, n.served = FALSE, loads' = loads \cup {n}, sent' = sent + 1
        PROVE  \A l \in loads' : l.id = sent' /\ l.served => Told' \subseteq l.has
    BY <1>3 DEF LoadInv, ShapeInv
  <1>4. CASE LoadDoes \/ SendDoes \/ LeaveDoes
    <2>1. Held' = Held /\ Told' = Told
      BY <1>4, ToldStays
    <2>2. CASE AskDoes
      BY <1>3, <2>2 DEF AskDoes, NewLoad
    <2>3. ASSUME NEW l \in loads, ServeDoes(l)
          PROVE  \A m \in loads' : m.id = sent' /\ m.served => Told' \subseteq m.has
      <3>1. Told \subseteq ServedLoad(l).has
        BY DEF Told, ServedLoad
      <3> QED
        BY <1>1, <2>1, <2>3, <3>1 DEF ServeDoes
    <2>4. ASSUME NEW l \in loads, ShowDoes(l) \/ DropDoes(l) \/ LoseDoes(l)
          PROVE  \A m \in loads' : m.id = sent' /\ m.served => Told' \subseteq m.has
      BY <1>2, <2>1, <2>4 DEF ShowDoes, DropDoes, LoseDoes
    <2>5. ASSUME NEW w \in screen.writes, ClickDoes(w)
          PROVE  \A m \in loads' : m.id = sent' /\ m.served => Told' \subseteq m.has
      BY <1>2, <2>1, <2>5 DEF ClickDoes, Pressed
    <2>6. ASSUME NEW w \in screen.writes, GuessDoes(w)
          PROVE  \A m \in loads' : m.id = sent' /\ m.served => Told' \subseteq m.has
      BY <2>6, NoLast DEF GuessDoes, Pressed
    <2>7. CASE LeaveDoes
      BY <1>2, <2>1, <2>7 DEF LeaveDoes
    <2> QED
      BY <1>4, <2>2, <2>3, <2>4, <2>5, <2>6, <2>7 DEF LoadDoes, SendDoes
  <1>5. CASE ServerDoes
    <2>1. UNCHANGED <<loads, sent>>
      BY <1>5 DEF ServerDoes, AcceptDoes, RefuseDoes
    <2> QED
      BY <1>2, <1>5, <2>1, ToldServer
  <1>6. ASSUME NEW c \in posts, ReloadDoes(c)
        PROVE  \A l \in loads' : l.id = sent' /\ l.served => Told' \subseteq l.has
    BY <1>3, <1>6 DEF ReloadDoes, NewLoad
  <1>7. ASSUME NEW c \in posts, AnswerDoes(c) \/ UndoDoes(c)
        PROVE  \A l \in loads' : l.id = sent' /\ l.served => Told' \subseteq l.has
    BY <1>7, NoLast DEF AnswerDoes, UndoDoes
  <1>8. ASSUME NEW c \in posts, GoOnDoes(c)
        PROVE  \A l \in loads' : l.id = sent' /\ l.served => Told' \subseteq l.has
    <2>1. UNCHANGED <<loads, sent>>
      BY <1>8 DEF GoOnDoes
    <2>2. CASE c.of.after = "guess"
      BY <2>1, <2>2 DEF GuessInv, Guessed, Guesses
    <2>3. CASE c.of.after # "guess"
      BY <1>2, <1>8, <2>1, <2>3, ToldGoOn
    <2> QED
      BY <2>2, <2>3
  <1>9. ASSUME NEW c \in posts, FailDoes(c)
        PROVE  \A l \in loads' : l.id = sent' /\ l.served => Told' \subseteq l.has
    <2>1. UNCHANGED <<loads, sent>> /\ Failed(c)
      BY <1>9 DEF FailDoes
    <2> QED
      BY <1>2, <2>1, ToldFailed
  <1> QED
    BY <1>4, <1>5, <1>6, <1>7, <1>8, <1>9 DEF ScreenDoes, BackDoes

-----------------------------------------------------------------------------
(* Screens: guesses.                                                       *)

(* A component that shows a change before it is made (ScreensAssumption).  *)
GuessRules ==
  /\ ~screen.asks /\ screen.keeps = "latest" /\ ~Screen!Ordered(screen)
  /\ \A v \in screen.writes : v.after # "reload"

LEMMA GuessRule ==
  ASSUME Screen!ScreensAssumption, ShapeInv, NEW w \in screen.writes, w.after = "guess" PROVE GuessRules
  <1> USE DEF Screen!ScreensAssumption, Screen!PartsAssumption, ShapeInv
  <1>1. ~w.guard /\ ~screen.asks /\ screen.keeps = "latest"
    OBVIOUS
  <1>2. \A v \in screen.writes : v.after # "reload"
    BY <1>1
  <1>3. w \in Screen!Changing(screen)
    BY DEF Screen!Changing, Screen!Changes
  <1>4. ~Screen!Ordered(screen)
    BY <1>1, <1>3 DEF Screen!Ordered
  <1> QED
    BY <1>1, <1>2, <1>4 DEF GuessRules

(* What a new record of a write keeps of the old one.                      *)
SameGuess(d, c) == d.id = c.id /\ d.of = c.of /\ d.before = c.before

LEMMA GuessesKept ==
  ASSUME ScreenDoes
  PROVE  \A d \in Guesses' :
           (\E c \in Guesses : SameGuess(d, c)) \/ \E w \in screen.writes : GuessDoes(w) /\ d = NewPost(w)
  <1>1. ASSUME posts' \subseteq posts, NEW d \in Guesses' PROVE \E c \in Guesses : SameGuess(d, c)
    BY <1>1 DEF Guesses, SameGuess
  <1>2. ASSUME NEW c \in posts, NEW n, SameGuess(n, c), posts' = (posts \ {c}) \cup {n}, NEW d \in Guesses'
        PROVE  \E e \in Guesses : SameGuess(d, e)
    BY <1>2 DEF Guesses, SameGuess
  <1>3. ASSUME NEW c \in posts, AcceptDoes(c) \/ RefuseDoes(c), NEW d \in Guesses'
        PROVE  \E e \in Guesses : SameGuess(d, e)
    <2>1. SameGuess(Accepted(c, Held'), c) /\ SameGuess(Refused(c), c)
      BY DEF SameGuess, Accepted, Refused
    <2> QED
      BY <1>2, <1>3, <2>1 DEF AcceptDoes, RefuseDoes
  <1>4. ASSUME NEW w \in screen.writes, ClickDoes(w), NEW d \in Guesses'
        PROVE  \E c \in Guesses : SameGuess(d, c)
    <2>1. NewPost(w).of.after # "guess" /\ posts' = posts \cup {NewPost(w)}
      BY <1>4 DEF NewPost, ClickDoes, Pressed
    <2> QED
      BY <2>1 DEF Guesses, SameGuess
  <1>5. ASSUME NEW w \in screen.writes, GuessDoes(w), NEW d \in Guesses'
        PROVE  (\E c \in Guesses : SameGuess(d, c)) \/ d = NewPost(w)
    <2>1. posts' = posts \cup {NewPost(w)}
      BY <1>5 DEF GuessDoes, Pressed
    <2> QED
      BY <2>1 DEF Guesses, SameGuess
  <1>6. CASE LoadDoes \/ LeaveDoes
    BY <1>1, <1>6 DEF LoadDoes, AskDoes, ServeDoes, ShowDoes, DropDoes, LoseDoes, LeaveDoes
  <1>7. CASE SendDoes
    BY <1>4, <1>5, <1>7 DEF SendDoes
  <1>8. CASE ServerDoes
    BY <1>3, <1>8 DEF ServerDoes
  <1>9. CASE BackDoes
    BY <1>1, <1>9 DEF BackDoes, ReloadDoes, AnswerDoes, GoOnDoes, FailDoes, UndoDoes, Failed, Frees
  <1> QED
    BY <1>6, <1>7, <1>8, <1>9 DEF ScreenDoes

(* The steps that leave every guess as it is.                              *)
Untouched ==
  /\ shown' = shown /\ asked' = asked /\ sent' = sent
  /\ \A l \in loads' : \E m \in loads : l.id = m.id

LEMMA GuessKinds ==
  ASSUME ScreenDoes
  PROVE  \/ Untouched \/ AskDoes
         \/ \E l \in loads : ShowDoes(l)
         \/ \E w \in screen.writes : GuessDoes(w)
         \/ \E c \in posts : ReloadDoes(c) \/ AnswerDoes(c) \/ UndoDoes(c)
  <1>1. ASSUME NEW l \in loads, ServeDoes(l) PROVE Untouched
    <2>1. ServedLoad(l).id = l.id
      BY DEF ServedLoad
    <2> QED
      BY <1>1, <2>1 DEF ServeDoes, Untouched
  <1>2. CASE LoadDoes \/ LeaveDoes
    BY <1>1, <1>2 DEF LoadDoes, DropDoes, LoseDoes, LeaveDoes, Untouched
  <1>3. CASE SendDoes
    BY <1>3 DEF SendDoes, ClickDoes, Pressed, Untouched
  <1>4. CASE ServerDoes
    BY <1>4 DEF ServerDoes, AcceptDoes, RefuseDoes, Untouched
  <1>5. CASE BackDoes
    BY <1>5 DEF BackDoes, GoOnDoes, FailDoes, Failed, Frees, Untouched
  <1> QED
    BY <1>2, <1>3, <1>4, <1>5 DEF ScreenDoes

LEMMA BlankStep ==
  ASSUME Screen!ScreensAssumption, ShapeInv, LoadInv, GuessInv, ScreenDoes PROVE Blank'
  <1> SUFFICES ASSUME ~screen.asks PROVE asked' = 0 /\ (shown'.q = 0 \/ shown' = Screen!Nothing)
    BY SameScreen DEF Blank
  <1>1. asked = 0 /\ (shown.q = 0 \/ shown = Screen!Nothing)
    BY DEF GuessInv, Blank
  <1>2. CASE Untouched
    BY <1>1, <1>2 DEF Untouched
  <1>3. CASE AskDoes
    BY <1>3 DEF AskDoes
  <1>4. ASSUME NEW l \in loads, ShowDoes(l) PROVE asked' = 0 /\ shown'.q = 0
    <2>1. asked' = asked /\ shown'.q = l.q /\ l.q \in 0 .. asked
      BY <1>4 DEF ShowDoes, Covers, LoadInv
    <2> QED
      BY <1>1, <2>1
  <1>5. ASSUME NEW w \in screen.writes, GuessDoes(w) PROVE asked' = 0 /\ shown'.q = 0
    BY <1>1, <1>5 DEF GuessDoes, Pressed
  <1>6. ASSUME NEW c \in posts, ReloadDoes(c) \/ AnswerDoes(c) \/ UndoDoes(c)
        PROVE  asked' = 0 /\ (shown'.q = 0 \/ shown' = Screen!Nothing)
    <2>1. asked' = asked
      BY <1>6 DEF ReloadDoes, AnswerDoes, UndoDoes, Failed, Frees
    <2>2. CASE ReloadDoes(c)
      BY <1>1, <2>1, <2>2 DEF ReloadDoes
    <2>3. CASE AnswerDoes(c)
      BY <1>1, <2>1, <2>3 DEF AnswerDoes, Covers
    <2>4. CASE UndoDoes(c)
      BY <1>1, <2>1, <2>4 DEF UndoDoes, GuessInv, Guesses, Guessed
    <2> QED
      BY <1>6, <2>2, <2>3, <2>4
  <1> QED
    BY <1>2, <1>3, <1>4, <1>5, <1>6, GuessKinds

LEMMA GuessStep ==
  ASSUME Screen!ScreensAssumption, ShapeInv, LoadInv, PostInv, ShownInv, GuessInv, ScreenDoes
  PROVE  GuessInv'
  <1>1. Blank'
    BY BlankStep
  <1> SUFFICES ASSUME NEW d \in Guesses' PROVE Guessed(d)'
    BY <1>1 DEF GuessInv
  <1>2. (~missed' => ~missed) /\ (~stale' => ~stale)
    BY Memory
  <1>3. ASSUME NEW c \in Guesses, SameGuess(d, c) PROVE Guessed(d)'
    <2>1. Guessed(c) /\ c \in posts /\ c.of \in screen.writes /\ c.of.after = "guess"
      BY DEF GuessInv, Guesses, ShapeInv, Posts
    <2>2. GuessRules
      BY <2>1, GuessRule
    <2>3. d.id = c.id /\ d.before = c.before
      BY <1>3 DEF SameGuess
    <2>4. CASE Untouched
      BY <1>2, <2>1, <2>3, <2>4 DEF Guessed, Untouched
    <2>5. ~AskDoes
      BY <2>2 DEF AskDoes, GuessRules
    <2>6. ASSUME NEW l \in loads, ShowDoes(l) PROVE FALSE
      BY <2>1, <2>2, <2>6 DEF ShowDoes, Screen!Accepts, GuessRules, Guessed
    <2>7. ASSUME NEW w \in screen.writes, GuessDoes(w) PROVE Guessed(d)'
      <3>1. shown' = [q |-> shown.q, has |-> shown.has \cup {clicks + 1}] /\ asked' = asked
        BY <2>7 DEF GuessDoes, Pressed
      <3>2. \A l \in loads' : l.id # sent'
        BY <2>7, NoLast DEF GuessDoes, Pressed
      <3> QED
        BY <1>2, <2>1, <2>3, <3>1, <3>2 DEF Guessed
    <2>8. ASSUME NEW e \in posts PROVE ~ReloadDoes(e)
      BY <2>2 DEF ReloadDoes, GuessRules, ShapeInv, Posts
    <2>9. ASSUME NEW e \in posts, AnswerDoes(e) PROVE Guessed(d)'
      <3>1. shown' = [q |-> asked, has |-> e.has] /\ asked' = asked
        BY <2>9 DEF AnswerDoes, Covers, Frees
      <3>2. \A l \in loads' : l.id # sent'
        BY <2>9, NoLast DEF AnswerDoes
      <3>3. shown # Screen!Nothing
        BY <2>1 DEF Guessed, Screen!Nothing, ShapeInv, Screen!ScreensAssumption
      <3>4. ~stale' => shown.has \subseteq e.has
        BY <2>9, <3>3 DEF AnswerDoes, Covers
      <3> QED
        BY <1>2, <2>1, <2>3, <3>1, <3>2, <3>4 DEF Guessed
    <2>10. ASSUME NEW e \in posts, UndoDoes(e) PROVE Guessed(d)'
      <3>1. /\ shown' = e.before /\ asked' = asked /\ e \in Guesses
            /\ (~stale' => shown.has \ {e.id} \subseteq e.before.has)
        BY <2>10 DEF UndoDoes, Failed, Frees, Guesses
      <3>2. Guessed(e) /\ e.id \in Nat /\ c.id \in Nat
        BY <3>1 DEF GuessInv, ShapeInv, Posts, Guesses
      <3>3. \A l \in loads' : l.id # sent'
        BY <2>10, NoLast DEF UndoDoes
      <3>4. d \in posts'
        BY DEF Guesses
      <3>5. c.id # e.id
        <4>1. posts' = posts \ {e}
          BY <2>10 DEF UndoDoes, Failed, Frees
        <4> QED
          BY <2>3, <3>4, <4>1 DEF PostInv
      <3>6. ~stale' /\ ~missed' => c.id \in e.before.has /\ c.before.has \subseteq e.before.has
        <4> SUFFICES ASSUME ~stale', ~missed'
                     PROVE  c.id \in e.before.has /\ c.before.has \subseteq e.before.has
          OBVIOUS
        <4>1. c.id \in shown.has /\ c.before.has \subseteq shown.has
          BY <1>2, <2>1 DEF Guessed
        <4>2. c.id \in e.before.has
          BY <3>1, <3>5, <4>1
        <4>3. c.id < e.id
          BY <3>2, <4>2 DEF Guessed
        <4>4. c.before.has \subseteq Nat
          BY <2>1 DEF ShapeInv, Posts, Shows
        <4>5. e.id \notin c.before.has
          BY <2>1, <3>2, <4>3, <4>4 DEF Guessed
        <4> QED
          BY <3>1, <4>1, <4>2, <4>5
      <3> QED
        BY <2>1, <2>3, <3>1, <3>2, <3>3, <3>6 DEF Guessed
    <2> QED
      BY <2>4, <2>5, <2>6, <2>7, <2>8, <2>9, <2>10, GuessKinds
  <1>4. ASSUME NEW w \in screen.writes, GuessDoes(w), d = NewPost(w) PROVE Guessed(d)'
    <2>1. d.id = clicks + 1 /\ d.before = shown
      BY <1>4 DEF NewPost
    <2>2. shown' = [q |-> shown.q, has |-> shown.has \cup {clicks + 1}] /\ asked' = asked
      BY <1>4 DEF GuessDoes, Pressed
    <2>3. GuessRules
      BY <1>4, GuessRule DEF GuessDoes
    <2>4. shown.q = asked
      BY <1>4, <2>3 DEF GuessDoes, GuessRules, GuessInv, Blank
    <2>5. \A l \in loads' : l.id # sent'
      BY <1>4, NoLast DEF GuessDoes, Pressed
    <2>6. \A k \in shown.has : 0 < k /\ k < clicks + 1
      BY DEF ShownInv, ShapeInv
    <2> QED
      BY <2>1, <2>2, <2>4, <2>5, <2>6 DEF Guessed
  <1> QED
    BY <1>3, <1>4, GuessesKept

-----------------------------------------------------------------------------
(* Screens: the question, and what was told.                               *)

(* An answer that is shown covers what the screen showed, where answers do *)
(* overtake each other and none did.                                       *)
LEMMA CoversAll ==
  ASSUME Screen!ScreensAssumption, ShapeInv, NEW q \in Nat, NEW h, Covers(q, h), ~stale'
  PROVE  shown.has \subseteq h /\ (shown.q \in 0 .. asked => shown.q <= q)
  <1>1. shown = Screen!Nothing \/ (~(q < shown.q) /\ shown.has \subseteq h)
    BY DEF Covers
  <1>2. CASE shown = Screen!Nothing
    <2>1. shown.q = MaxAsks + 1 /\ shown.has = {}
      BY <1>2 DEF Screen!Nothing
    <2>2. asked <= MaxAsks /\ asked \in Nat /\ MaxAsks \in Nat
      BY DEF ShapeInv, Screen!ScreensAssumption
    <2>3. shown.q \notin 0 .. asked
      BY <2>1, <2>2
    <2> QED
      BY <2>1, <2>3
  <1>3. CASE ~(q < shown.q) /\ shown.has \subseteq h
    BY <1>3 DEF ShapeInv, Shows
  <1> QED
    BY <1>1, <1>2, <1>3

(* The steps that leave the loads and the screen as they are.              *)
Same == shown' = shown /\ asked' = asked /\ sent' = sent /\ loads' = loads

LEMMA SameKinds ==
  ASSUME ScreenDoes
  PROVE  \/ LoadDoes \/ Same
         \/ \E w \in screen.writes : GuessDoes(w)
         \/ \E c \in posts : ReloadDoes(c) \/ AnswerDoes(c) \/ UndoDoes(c)
  <1>1. CASE SendDoes
    BY <1>1 DEF SendDoes, ClickDoes, Pressed, Same
  <1>2. CASE ServerDoes
    BY <1>2 DEF ServerDoes, AcceptDoes, RefuseDoes, Same
  <1>3. CASE BackDoes
    BY <1>3 DEF BackDoes, GoOnDoes, FailDoes, Failed, Frees, Same
  <1>4. CASE LeaveDoes
    BY <1>4 DEF LeaveDoes, Same
  <1> QED
    BY <1>1, <1>2, <1>3, <1>4 DEF ScreenDoes

LEMMA AskStep ==
  ASSUME Screen!ScreensAssumption, ShapeInv, LoadInv, GuessInv, AskInv, ScreenDoes PROVE AskInv'
  <1> SUFFICES ASSUME InOrder', screen.reads # {} PROVE Answered'
    BY SameScreen DEF AskInv
  <1>1. InOrder /\ Answered
    BY Memory DEF AskInv
  <1>2. screen' = screen
    BY SameScreen
  <1>3. CASE AskDoes
    <2>1. NewLoad(sent + 1, asked + 1).id = sent' /\ NewLoad(sent + 1, asked + 1).q = asked'
      BY <1>3 DEF NewLoad, AskDoes
    <2>2. NewLoad(sent + 1, asked + 1) \in loads'
      BY <1>3 DEF AskDoes
    <2> QED
      BY <2>1, <2>2 DEF Answered, Screen!Accepts
  <1>4. ASSUME NEW l \in loads, ServeDoes(l) PROVE Answered'
    <2>1. ServedLoad(l).id = l.id /\ ServedLoad(l).q = l.q
      BY DEF ServedLoad
    <2>2. /\ shown' = shown /\ asked' = asked /\ sent' = sent
          /\ loads' = (loads \ {l}) \cup {ServedLoad(l)}
      BY <1>4 DEF ServeDoes
    <2> QED
      BY <1>1, <1>2, <2>1, <2>2 DEF Answered, Screen!Accepts
  <1>5. ASSUME NEW l \in loads, ShowDoes(l) PROVE Answered'
    <2>1. /\ shown'.q = l.q /\ asked' = asked /\ sent' = sent /\ loads' = loads \ {l}
          /\ Covers(l.q, l.has) /\ Screen!Accepts(l)
      BY <1>5 DEF ShowDoes, Covers
    <2>2. l.q \in 0 .. asked /\ asked \in Nat
      BY DEF LoadInv, ShapeInv
    <2>3. CASE screen.keeps = "latest"
      <3>1. l.q = asked
        BY <2>1, <2>3 DEF Screen!Accepts, LoadInv
      <3> QED
        BY <2>1, <3>1 DEF Answered
    <2>4. CASE screen.keeps # "latest"
      <3>1. ~stale'
        BY <1>2, <2>4 DEF InOrder, Screen!Ordered
      <3>2. CASE shown.q = asked
        <4>1. asked <= l.q
          BY <2>1, <2>2, <3>1, <3>2, CoversAll
        <4>2. l.q = asked
          BY <2>2, <4>1
        <4> QED
          BY <2>1, <4>2 DEF Answered
      <3>3. ASSUME NEW m \in loads, Screen!Accepts(m), m.q = asked PROVE Answered'
        BY <1>2, <2>1, <3>3 DEF Answered, Screen!Accepts
      <3> QED
        BY <1>1, <3>2, <3>3 DEF Answered
    <2> QED
      BY <2>3, <2>4
  <1>6. ASSUME NEW l \in loads, DropDoes(l) PROVE Answered'
    BY <1>1, <1>2, <1>6 DEF DropDoes, Answered, Screen!Accepts
  <1>7. ASSUME NEW l \in loads PROVE ~LoseDoes(l)
    BY DEF LoseDoes, InOrder
  <1>8. ASSUME NEW w \in screen.writes, GuessDoes(w) PROVE Answered'
    <2>1. shown'.q = shown.q /\ asked' = asked
      BY <1>8 DEF GuessDoes, Pressed
    <2>2. GuessRules
      BY <1>8, GuessRule DEF GuessDoes
    <2>3. shown.q = asked
      BY <1>8, <2>2 DEF GuessDoes, GuessRules, GuessInv, Blank
    <2> QED
      BY <2>1, <2>3 DEF Answered
  <1>9. ASSUME NEW c \in posts, ReloadDoes(c) PROVE Answered'
    <2>1. NewLoad(sent + 1, asked).id = sent' /\ NewLoad(sent + 1, asked).q = asked'
      BY <1>9 DEF NewLoad, ReloadDoes, Frees
    <2>2. NewLoad(sent + 1, asked) \in loads'
      BY <1>9 DEF ReloadDoes
    <2> QED
      BY <2>1, <2>2 DEF Answered, Screen!Accepts
  <1>10. ASSUME NEW c \in posts, AnswerDoes(c) PROVE Answered'
    BY <1>10 DEF AnswerDoes, Covers, Frees, Answered
  <1>11. ASSUME NEW c \in posts, UndoDoes(c) PROVE Answered'
    <2>1. shown' = c.before /\ asked' = asked /\ c \in Guesses
      BY <1>11 DEF UndoDoes, Failed, Frees, Guesses
    <2> QED
      BY <2>1 DEF GuessInv, Guessed, Answered
  <1>12. CASE Same
    BY <1>1, <1>2, <1>12 DEF Same, Answered, Screen!Accepts
  <1> QED
    BY <1>3, <1>4, <1>5, <1>6, <1>7, <1>8, <1>9, <1>10, <1>11, <1>12, SameKinds DEF LoadDoes

GuessIds == {c.id : c \in Guesses}

LEMMA SeenStep ==
  ASSUME Screen!ScreensAssumption, ShapeInv, LoadInv, MarkInv, PostInv, GuessInv, SeenInv, ScreenDoes
  PROVE  SeenInv'
  <1> SUFFICES ASSUME InOrder' PROVE shown'.has \subseteq Held' \cup GuessIds'
    BY DEF SeenInv, GuessIds
  <1>1. shown.has \subseteq Held \cup GuessIds
    BY Memory DEF SeenInv, GuessIds
  <1>2. Held \subseteq Held'
    BY HeldGrows
  <1>3. ASSUME posts' = posts PROVE GuessIds' = GuessIds
    BY <1>3 DEF GuessIds, Guesses
  <1>4. CASE LoadDoes \/ LeaveDoes
    <2>1. posts' = posts
      BY <1>4 DEF LoadDoes, AskDoes, ServeDoes, ShowDoes, DropDoes, LoseDoes, LeaveDoes
    <2>2. ASSUME NEW l \in loads, ShowDoes(l) PROVE shown'.has \subseteq Held'
      BY <1>2, <2>2 DEF ShowDoes, Covers, LoadInv
    <2>3. CASE shown' = shown
      BY <1>1, <1>2, <1>3, <2>1, <2>3
    <2>4. (\E l \in loads : ShowDoes(l)) \/ shown' = shown
      BY <1>4 DEF LoadDoes, AskDoes, ServeDoes, DropDoes, LoseDoes, LeaveDoes
    <2> QED
      BY <2>2, <2>3, <2>4
  <1>5. ASSUME NEW w \in screen.writes, Pressed(w), ClickDoes(w) \/ GuessDoes(w)
        PROVE  shown'.has \subseteq Held' \cup GuessIds'
    <2>1. posts' = posts \cup {NewPost(w)} /\ NewPost(w).id = clicks + 1 /\ NewPost(w).of = w
      BY <1>5 DEF Pressed, NewPost
    <2>2. GuessIds \subseteq GuessIds' /\ (w.after = "guess" => clicks + 1 \in GuessIds')
      BY <2>1 DEF GuessIds, Guesses
    <2>3. CASE ClickDoes(w)
      BY <1>1, <1>2, <2>2, <2>3 DEF ClickDoes
    <2>4. CASE GuessDoes(w)
      BY <1>1, <1>2, <2>2, <2>4 DEF GuessDoes
    <2> QED
      BY <1>5, <2>3, <2>4
  <1>6. ASSUME NEW c \in posts, AcceptDoes(c) \/ RefuseDoes(c) PROVE shown'.has \subseteq Held' \cup GuessIds'
    <2>1. /\ Accepted(c, Held').id = c.id /\ Accepted(c, Held').of = c.of
          /\ Refused(c).id = c.id /\ Refused(c).of = c.of
      BY DEF Accepted, Refused
    <2>2. GuessIds' = GuessIds
      BY <1>6, <2>1 DEF AcceptDoes, RefuseDoes, GuessIds, Guesses
    <2> QED
      BY <1>1, <1>2, <1>6, <2>2 DEF AcceptDoes, RefuseDoes
  <1>7. ASSUME NEW c \in posts, AnswerDoes(c) PROVE shown'.has \subseteq Held' \cup GuessIds'
    BY <1>2, <1>7 DEF AnswerDoes, Covers, PostInv
  <1>8. ASSUME NEW c \in posts, posts' = posts \ {c}, shown' = shown, c.id \in GuessIds => c.id \in Held
        PROVE  shown'.has \subseteq Held' \cup GuessIds'
    <2>1. GuessIds \ {c.id} \subseteq GuessIds'
      BY <1>8 DEF GuessIds, Guesses
    <2> QED
      BY <1>1, <1>2, <1>8, <2>1
  <1>9. ASSUME NEW c \in posts, c.id \in GuessIds PROVE c \in Guesses
    BY <1>9 DEF GuessIds, Guesses, PostInv
  <1>10. ASSUME NEW c \in posts, ReloadDoes(c) \/ GoOnDoes(c) \/ FailDoes(c)
         PROVE  shown'.has \subseteq Held' \cup GuessIds'
    <2>1. posts' = posts \ {c} /\ shown' = shown
      BY <1>10 DEF ReloadDoes, GoOnDoes, FailDoes, Failed, Frees
    <2>2. c.id \in GuessIds => c.id \in Held
      <3> SUFFICES ASSUME c.id \in GuessIds PROVE c.id \in Held
        OBVIOUS
      <3>1. c.of.after = "guess"
        BY <1>9 DEF Guesses
      <3>2. c.is = "accepted" /\ Screen!Changes(c.of)
        BY <1>10, <3>1 DEF ReloadDoes, GoOnDoes, FailDoes, Screen!Changes
      <3> QED
        BY <3>2, HeldPost DEF HeldIf
    <2> QED
      BY <1>8, <2>1, <2>2
  <1>11. ASSUME NEW c \in posts, UndoDoes(c) PROVE shown'.has \subseteq Held' \cup GuessIds'
    <2>1. shown' = c.before /\ c \in Guesses /\ posts' = posts \ {c} /\ c.of \in screen.writes
      BY <1>11 DEF UndoDoes, Failed, Frees, Guesses, ShapeInv, Posts
    <2>2. GuessRules
      BY <1>11, <2>1, GuessRule DEF UndoDoes
    <2>3. ~stale /\ ~missed
      BY <2>2, Memory DEF GuessRules, InOrder
    <2>4. c.before.has \subseteq shown.has /\ \A k \in c.before.has : k < c.id
      BY <2>1, <2>3 DEF GuessInv, Guessed
    <2>5. c.id \notin c.before.has
      <3>1. c.id \in Nat
        BY <2>1 DEF ShapeInv, Posts
      <3> QED
        BY <2>4, <3>1
    <2>6. GuessIds \ {c.id} \subseteq GuessIds'
      BY <2>1 DEF GuessIds, Guesses
    <2> QED
      BY <1>1, <1>2, <2>1, <2>4, <2>5, <2>6
  <1> QED
    BY <1>4, <1>5, <1>6, <1>7, <1>10, <1>11
    DEF ScreenDoes, SendDoes, ServerDoes, BackDoes, ClickDoes, GuessDoes

(* A component that answers, and drops old loads, never reloads.           *)
LEMMA AnswerRule ==
  ASSUME Screen!ScreensAssumption, ShapeInv, NEW c \in posts, c.of.after \in {"answer", "guess"},
         screen.keeps = "latest"
  PROVE  Answers
  <1>1. c.of \in screen.writes
    BY DEF ShapeInv, Posts
  <1> QED
    BY <1>1 DEF Answers, Screen!ScreensAssumption, Screen!PartsAssumption, ShapeInv

TellsAll == (Answers => Told \subseteq shown.has) /\ \A k \in Told : Known(k)

LEMMA ShowTells ==
  ASSUME Screen!ScreensAssumption, ShapeInv, LoadInv, LastInv, TellsAll, InOrder', ~missed,
         NEW l \in loads, ShowDoes(l)
  PROVE  TellsAll'
  <1>1. /\ shown'.has = l.has /\ shown'.q = l.q /\ sent' = sent /\ loads' = loads \ {l}
        /\ Covers(l.q, l.has) /\ Screen!Accepts(l) /\ l.served /\ screen' = screen /\ l.q \in Nat
    BY DEF ShowDoes, Covers, ShapeInv, Loads
  <1>2. Told' = Told /\ (Answers' <=> Answers)
    BY ToldRest DEF ShowDoes, Answers
  <1>3. CASE screen.keeps = "latest"
    <2>1. Told \subseteq l.has
      BY <1>1, <1>3 DEF Screen!Accepts, LastInv
    <2> QED
      BY <1>1, <1>2, <2>1 DEF TellsAll, Known
  <1>4. CASE screen.keeps # "latest"
    <2>1. ~stale' /\ ~Answers
      BY <1>1, <1>4 DEF InOrder, Screen!Ordered, Answers
    <2>2. shown.has \subseteq l.has
      BY <1>1, <2>1, CoversAll
    <2>3. ASSUME NEW k \in Told PROVE Known(k)'
      <3>1. Known(k)
        BY DEF TellsAll
      <3>2. CASE k \in shown.has
        BY <1>1, <2>2, <3>2 DEF Known
      <3>3. ASSUME NEW m \in loads, Screen!Accepts(m), ~m.served \/ k \in m.has PROVE Known(k)'
        <4>1. CASE m = l
          BY <1>1, <3>3, <4>1 DEF Known
        <4>2. CASE m # l
          BY <1>1, <3>3, <4>2 DEF Known, Screen!Accepts
        <4> QED
          BY <4>1, <4>2
      <3> QED
        BY <3>1, <3>2, <3>3 DEF Known
    <2> QED
      BY <1>2, <2>1, <2>3 DEF TellsAll
  <1> QED
    BY <1>3, <1>4

LEMMA AnswerTells ==
  ASSUME Screen!ScreensAssumption, ShapeInv, PostInv, AloneInv, TellsAll, InOrder',
         NEW c \in posts, AnswerDoes(c)
  PROVE  TellsAll'
  <1>1. /\ shown'.has = c.has /\ sent' = sent + 1 /\ loads' = loads
        /\ Covers(asked, c.has) /\ c.is = "accepted" /\ c.of.after = "answer" /\ screen' = screen
        /\ Frees(c, FALSE) /\ asked \in Nat
    BY DEF AnswerDoes, Covers, Frees, ShapeInv
  <1>2. Told' = Told \cup ({c.id} \cap Held) /\ (Answers' <=> Answers)
    BY <1>1, ToldFrees DEF Answers
  <1>3. c.id \in c.has
    BY <1>1 DEF PostInv, Screen!Changes
  <1>4. CASE screen.keeps = "latest"
    <2>1. Told \subseteq shown.has
      BY <1>1, <1>4, AnswerRule DEF TellsAll
    <2>4. Screen!Ordered(screen)' => Screen!Ordered(screen)
      BY <1>1 DEF Screen!Ordered, Screen!Changing, Screen!Changes
    <2>5. Told \subseteq c.has
      <3>1. CASE ~stale'
        <4>1. shown.has \subseteq c.has
          BY <1>1, <3>1, CoversAll
        <4> QED
          BY <2>1, <4>1
      <3>2. CASE Screen!Ordered(screen)
        <4>1. c.has = Held
          BY <1>1, <3>2 DEF AloneInv
        <4> QED
          BY <4>1 DEF Told
      <3> QED
        BY <2>4, <3>1, <3>2 DEF InOrder
    <2>6. Told' \subseteq shown'.has
      BY <1>1, <1>2, <1>3, <2>5
    <2> QED
      BY <2>6 DEF TellsAll, Known
  <1>5. CASE screen.keeps # "latest"
    <2>1. ~stale' /\ ~Answers /\ screen.keeps = "any"
      BY <1>1, <1>5 DEF InOrder, Screen!Ordered, Answers, Screen!ScreensAssumption, Screen!PartsAssumption,
                        ShapeInv
    <2>2. shown.has \subseteq c.has
      BY <1>1, <2>1, CoversAll
    <2>3. ASSUME NEW k \in Told PROVE Known(k)'
      <3>1. Known(k)
        BY DEF TellsAll
      <3> QED
        BY <1>1, <2>1, <2>2, <3>1 DEF Known, Screen!Accepts
    <2>4. Known(c.id)'
      BY <1>1, <1>3 DEF Known
    <2> QED
      BY <1>2, <2>1, <2>3, <2>4 DEF TellsAll
  <1> QED
    BY <1>4, <1>5

(* A step that leaves the loads and the screen alone, and tells nothing.   *)
LEMMA SameTells ==
  ASSUME TellsAll, Same, screen' = screen, Told' = Told PROVE TellsAll'
  BY DEF TellsAll, Same, Known, Answers, Screen!Accepts

LEMMA ToldStep ==
  ASSUME Screen!ScreensAssumption, ShapeInv, LoadInv, MarkInv, PostInv, LastInv, GuessInv, ToldInv, AloneInv,
         ScreenDoes
  PROVE  ToldInv'
  <1> SUFFICES ASSUME InOrder' PROVE TellsAll'
    BY DEF ToldInv, TellsAll
  <1>1. InOrder /\ TellsAll /\ ~missed' /\ ~missed
    BY Memory DEF ToldInv, TellsAll, InOrder
  <1>2. screen' = screen
    BY SameScreen
  <1>3. Answers' <=> Answers
    BY <1>2 DEF Answers
  <1>5. CASE AskDoes
    <2>1. NewLoad(sent + 1, asked + 1).id = sent' /\ NewLoad(sent + 1, asked + 1).served = FALSE
      BY <1>5 DEF NewLoad, AskDoes
    <2>2. NewLoad(sent + 1, asked + 1) \in loads' /\ shown' = shown
      BY <1>5 DEF AskDoes
    <2>3. Told' = Told
      BY <1>5, ToldRest DEF AskDoes
    <2>4. \A k \in Told : Known(k)'
      BY <2>1, <2>2 DEF Known, Screen!Accepts
    <2> QED
      BY <1>1, <1>3, <2>2, <2>3, <2>4 DEF TellsAll
  <1>6. ASSUME NEW l \in loads, ServeDoes(l) PROVE TellsAll'
    <2>1. ServedLoad(l).id = l.id /\ ServedLoad(l).has = Held
      BY DEF ServedLoad
    <2>2. /\ shown' = shown /\ sent' = sent /\ loads' = (loads \ {l}) \cup {ServedLoad(l)}
      BY <1>6 DEF ServeDoes
    <2>3. Told' = Told /\ Told \subseteq Held
      BY <1>6, ToldRest DEF ServeDoes, Told
    <2>4. ASSUME NEW k \in Told PROVE Known(k)'
      <3>1. Known(k)
        BY <1>1 DEF TellsAll
      <3>2. CASE k \in shown.has
        BY <2>2, <3>2 DEF Known
      <3>3. ASSUME NEW m \in loads, Screen!Accepts(m), ~m.served \/ k \in m.has PROVE Known(k)'
        <4>1. CASE m = l
          <5>1. ServedLoad(l) \in loads' /\ k \in ServedLoad(l).has
            BY <2>1, <2>2, <2>3
          <5>2. screen'.keeps = "any" \/ ServedLoad(l).id = sent'
            BY <1>2, <2>1, <2>2, <3>3, <4>1 DEF Screen!Accepts
          <5> QED
            BY <5>1, <5>2 DEF Known, Screen!Accepts
        <4>2. CASE m # l
          BY <1>2, <2>2, <3>3, <4>2 DEF Known, Screen!Accepts
        <4> QED
          BY <4>1, <4>2
      <3> QED
        BY <3>1, <3>2, <3>3 DEF Known
    <2> QED
      BY <1>1, <1>3, <2>2, <2>3, <2>4 DEF TellsAll
  <1>7. ASSUME NEW l \in loads, DropDoes(l) PROVE TellsAll'
    <2>1. shown' = shown /\ sent' = sent /\ loads' = loads \ {l} /\ ~Screen!Accepts(l)
      BY <1>7 DEF DropDoes
    <2>2. Told' = Told
      BY <1>7, ToldRest DEF DropDoes
    <2>3. \A k \in Told : Known(k)'
      BY <1>1, <1>2, <2>1 DEF TellsAll, Known, Screen!Accepts
    <2> QED
      BY <1>1, <1>3, <2>1, <2>2, <2>3 DEF TellsAll
  <1>8. ASSUME NEW l \in loads PROVE ~LoseDoes(l)
    BY <1>1 DEF LoseDoes
  <1>9. ASSUME NEW w \in screen.writes, GuessDoes(w) PROVE TellsAll'
    <2>1. Answers
      BY <1>9, GuessRule DEF GuessDoes, GuessRules, Answers
    <2>2. Told' = Told /\ shown.has \subseteq shown'.has
      BY <1>9, ToldPressed DEF GuessDoes
    <2>3. Told' \subseteq shown'.has
      BY <1>1, <2>1, <2>2 DEF TellsAll
    <2> QED
      BY <2>3 DEF TellsAll, Known
  <1>10. ASSUME NEW c \in posts, ReloadDoes(c) PROVE TellsAll'
    <2>1. NewLoad(sent + 1, asked).id = sent' /\ NewLoad(sent + 1, asked).served = FALSE
      BY <1>10 DEF NewLoad, ReloadDoes
    <2>2. NewLoad(sent + 1, asked) \in loads'
      BY <1>10 DEF ReloadDoes
    <2>3. ~Answers
      BY <1>10 DEF Answers, ReloadDoes, ShapeInv, Posts
    <2>4. \A k \in Told' : Known(k)'
      BY <2>1, <2>2 DEF Known, Screen!Accepts
    <2> QED
      BY <1>3, <2>3, <2>4 DEF TellsAll
  <1>11. ASSUME NEW c \in posts, GoOnDoes(c) PROVE TellsAll'
    <2>1. UNCHANGED <<shown, sent, loads, asked>>
      BY <1>11 DEF GoOnDoes, Frees
    <2>2. CASE c.of.after # "guess"
      <3>1. Told' = Told
        BY <1>11, <2>2, ToldGoOn
      <3> QED
        BY <1>1, <1>2, <2>1, <3>1, SameTells DEF Same
    <2>3. CASE c.of.after = "guess"
      <3>1. GuessRules /\ c \in Guesses
        BY <2>3, GuessRule DEF ShapeInv, Posts, Guesses
      <3>2. c.id \in shown.has
        BY <1>1, <3>1 DEF GuessRules, InOrder, GuessInv, Guessed
      <3>3. Answers
        BY <3>1 DEF GuessRules, Answers
      <3>4. Told' \subseteq shown.has
        BY <1>1, <1>11, <3>2, <3>3, ToldGoOn DEF TellsAll
      <3> QED
        BY <2>1, <3>4 DEF TellsAll, Known
    <2> QED
      BY <2>2, <2>3
  <1>12. ASSUME NEW c \in posts, FailDoes(c) PROVE TellsAll'
    <2>1. Same /\ Failed(c)
      BY <1>12 DEF FailDoes, Failed, Frees, Same
    <2> QED
      BY <1>1, <1>2, <2>1, ToldFailed, SameTells
  <1>13. ASSUME NEW c \in posts, UndoDoes(c) PROVE TellsAll'
    <2>1. shown' = c.before /\ Failed(c) /\ c.of.after = "guess" /\ (~stale' => shown.has \ {c.id} \subseteq c.before.has)
      BY <1>13 DEF UndoDoes
    <2>2. GuessRules
      BY <2>1, GuessRule DEF ShapeInv, Posts
    <2>3. ~stale'
      BY <1>2, <2>2 DEF GuessRules, InOrder, Screen!Ordered, Screen!Changing, Screen!Changes
    <2>4. Told' = Told /\ c.id \notin Held
      BY <1>1, <2>1, ToldFailed
    <2>5. Told \subseteq shown.has
      BY <1>1, <2>2 DEF TellsAll, Answers, GuessRules
    <2>6. Told' \subseteq shown'.has
      BY <2>1, <2>3, <2>4, <2>5 DEF Told
    <2> QED
      BY <2>6 DEF TellsAll, Known
  <1>14. ASSUME NEW w \in screen.writes, ClickDoes(w) PROVE TellsAll'
    <2>1. Same /\ Pressed(w)
      BY <1>14 DEF ClickDoes, Pressed, Same
    <2> QED
      BY <1>1, <1>2, <2>1, ToldPressed, SameTells
  <1>15. CASE ServerDoes
    <2>1. Same
      BY <1>15 DEF ServerDoes, AcceptDoes, RefuseDoes, Same
    <2> QED
      BY <1>1, <1>2, <1>15, <2>1, ToldServer, SameTells
  <1>16. CASE LeaveDoes
    <2>1. Same /\ Told' = Told
      BY <1>16, ToldRest DEF LeaveDoes, Same
    <2> QED
      BY <1>1, <1>2, <2>1, SameTells
  <1> QED
    BY <1>1, <1>5, <1>6, <1>7, <1>8, <1>9, <1>10, <1>11, <1>12, <1>13, <1>14, <1>15, <1>16, ShowTells, AnswerTells
    DEF ScreenDoes, LoadDoes, SendDoes, BackDoes

(* While the one write that answers waits, nothing that shows is made.     *)
LEMMA AloneStep ==
  ASSUME ShapeInv, MarkInv, PostInv, BusyInv, AloneInv, ScreenDoes PROVE AloneInv'
  <1> SUFFICES ASSUME Screen!Ordered(screen), NEW d \in posts', d.is = "accepted", d.of.after = "answer"
               PROVE  d.has = Held'
    <2>1. Screen!Ordered(screen)' => Screen!Ordered(screen)
      BY SameScreen DEF Screen!Ordered, Screen!Changing, Screen!Changes
    <2> QED
      BY <2>1 DEF AloneInv
  <1>1. CASE posts' \subseteq posts /\ made' = made
    <2>1. Held' = Held
      BY <1>1 DEF Held, Screen!Held, Screen!Changes
    <2> QED
      BY <1>1, <2>1 DEF AloneInv
  <1>2. ASSUME NEW w \in screen.writes, Pressed(w) PROVE d.has = Held'
    <2>1. Held' = Held
      BY <1>2, ToldPressed
    <2>2. d \in posts
      BY <1>2 DEF Pressed, NewPost
    <2> QED
      BY <2>1, <2>2 DEF AloneInv
  <1>3. ASSUME NEW c \in posts, RefuseDoes(c) PROVE d.has = Held'
    <2>1. Held' = Held
      BY <1>3, ToldRefuse
    <2>2. d \in posts
      BY <1>3 DEF RefuseDoes, Refused
    <2> QED
      BY <2>1, <2>2 DEF AloneInv
  <1>4. ASSUME NEW c \in posts, AcceptDoes(c) PROVE d.has = Held'
    <2>1. CASE d = Accepted(c, Held')
      BY <2>1 DEF Accepted
    <2>2. CASE d # Accepted(c, Held')
      <3>1. d \in posts /\ c.is = "sent" /\ made' = made \cup {Mark(c)} /\ Mark(c).of = c.of
        BY <1>4, <2>2 DEF AcceptDoes, Mark
      <3>2. d.of \in Screen!Changing(screen) /\ c.of \in screen.writes
        BY <3>1 DEF Screen!Changing, Screen!Changes, ShapeInv, Posts
      <3>3. d.of.guard /\ Screen!Changing(screen) = {d.of}
        BY <3>2 DEF Screen!Ordered
      <3>4. ~Screen!Changes(c.of)
        BY <3>1, <3>2, <3>3 DEF Screen!Changing, BusyInv
      <3>5. Held' = Held
        BY <3>1, <3>4 DEF Held, Screen!Held, Screen!Changes
      <3> QED
        BY <3>1, <3>5 DEF AloneInv
    <2> QED
      BY <2>1, <2>2
  <1> QED
    BY <1>1, <1>2, <1>3, <1>4, PostKinds DEF NoPost, LeaveDoes, Back, Failed, Frees

-----------------------------------------------------------------------------
(* Screens: together.                                                      *)
LEMMA ScreenInit ==
  ASSUME Screen!ScreensAssumption, Screen!Init PROVE ScreenInv
  <1> USE DEF Screen!Init, Screen!ScreensAssumption
  <1>1. Held = {} /\ Told = {} /\ Guesses = {}
    BY DEF Held, Told, Guesses, Screen!Held
  <1> DEFINE l == [id |-> 1, q |-> 0, has |-> {}, served |-> FALSE]
  <1>2. l \in Loads /\ l.id = 1 /\ l.q = 0 /\ l.has = {} /\ l.served = FALSE
    BY DEF Loads
  <1>3. (screen.reads = {} /\ loads = {}) \/ loads = {l}
    OBVIOUS
  <1> HIDE DEF l
  <1>4. Screen!Nothing \in Shows
    BY DEF Screen!Nothing, Shows
  <1>5. Screen!Nothing.has = {} /\ Screen!Nothing.q = MaxAsks + 1
    BY DEF Screen!Nothing
  <1>6. ShapeInv
    <2>1. loads \subseteq Loads
      BY <1>2, <1>3
    <2>2. IsFiniteSet({})
      BY FS_EmptySet
    <2>3. asked \in 0 .. MaxAsks /\ clicks \in 0 .. MaxClicks /\ failures \in 0 .. MaxFailures /\ sent \in Nat
      OBVIOUS
    <2>4. made \subseteq Marks /\ posts \subseteq Posts /\ busy \subseteq {w \in screen.writes : w.guard}
      OBVIOUS
    <2>5. screen \in Parts /\ made = {} /\ shown = Screen!Nothing /\ left = "no" /\ stale = FALSE /\ missed = FALSE
      OBVIOUS
    <2> QED
      BY <1>4, <2>1, <2>2, <2>3, <2>4, <2>5, Zenon DEF ShapeInv
  <1>7. LoadInv /\ LastInv
    BY <1>2, <1>3 DEF LoadInv, LastInv
  <1>8. MarkInv /\ PostInv /\ BusyInv /\ AloneInv
    BY DEF MarkInv, PostInv, BusyInv, AloneInv
  <1>9. ShownInv
    BY <1>5 DEF ShownInv
  <1>10. CountInv
    <2>1. \A w : MadeOf(w) = {}
      BY DEF MadeOf
    <2>2. Cardinality({}) = 0
      BY FS_EmptySet
    <2> QED
      BY <2>1, <2>2 DEF CountInv
  <1>11. GuessInv
    BY <1>1 DEF GuessInv, Blank
  <1>12. AskInv
    BY <1>2, <1>3 DEF AskInv, Answered, Screen!Accepts
  <1>13. SeenInv /\ ToldInv
    BY <1>1, <1>5 DEF SeenInv, ToldInv
  <1> QED
    BY <1>6, <1>7, <1>8, <1>9, <1>10, <1>11, <1>12, <1>13 DEF ScreenInv

LEMMA ScreenNext ==
  ASSUME Screen!ScreensAssumption, ScreenInv, Screen!Next PROVE ScreenInv'
  <1> USE DEF ScreenInv
  <1>1. ScreenDoes
    BY ScreenSteps
  <1>2. ShapeInv'
    BY <1>1, ShapeStep
  <1>3. LoadInv' /\ MarkInv' /\ PostInv' /\ ShownInv'
    BY <1>1, LoadStep, MarkStep, PostStep, ShownStep
  <1>4. BusyInv' /\ CountInv'
    BY <1>1, <1>2, BusyStep, CountStep
  <1>5. LastInv' /\ GuessInv'
    BY <1>1, LastStep, GuessStep
  <1>6. AskInv' /\ SeenInv'
    BY <1>1, AskStep, SeenStep
  <1>7. ToldInv' /\ AloneInv'
    BY <1>1, ToldStep, AloneStep
  <1> QED
    BY <1>2, <1>3, <1>4, <1>5, <1>6, <1>7

LEMMA ScreenRest ==
  ASSUME ScreenInv, UNCHANGED screenVars PROVE ScreenInv'
  <1>1. Held' = Held /\ Told' = Told
    BY ToldRest DEF screenVars
  <1>2. ShapeInv'
    BY DEF screenVars, ScreenInv, ShapeInv, Marks, Posts
  <1>3. LoadInv' /\ LastInv'
    BY <1>1 DEF screenVars, ScreenInv, LoadInv, LastInv
  <1>4. MarkInv' /\ PostInv'
    BY <1>1 DEF screenVars, ScreenInv, MarkInv, PostInv
  <1>5. ShownInv' /\ BusyInv'
    BY DEF screenVars, ScreenInv, ShownInv, BusyInv
  <1>6. CountInv'
    BY DEF screenVars, ScreenInv, CountInv, MadeOf, Ready
  <1>7. GuessInv'
    BY DEF screenVars, ScreenInv, GuessInv, Blank, Guesses, Guessed
  <1>8. InOrder' <=> InOrder
    BY DEF screenVars, InOrder
  <1>9. AskInv'
    BY <1>8 DEF screenVars, ScreenInv, AskInv, Answered, Screen!Accepts
  <1>10. SeenInv'
    BY <1>1, <1>8 DEF screenVars, ScreenInv, SeenInv, Guesses
  <1>11. ToldInv'
    BY <1>1, <1>8 DEF screenVars, ScreenInv, ToldInv, Answers, Known, Screen!Accepts
  <1>12. AloneInv'
    BY <1>1 DEF screenVars, ScreenInv, AloneInv
  <1> QED
    BY <1>2, <1>3, <1>4, <1>5, <1>6, <1>7, <1>9, <1>10, <1>11, <1>12 DEF ScreenInv

(* At rest, what was told is what is held, and it is what is shown.        *)
LEMMA ScreenShows ==
  ASSUME ScreenInv PROVE Screen!ShownIsCurrent
  <1> SUFFICES ASSUME loads = {}, posts = {}, ~missed, screen.reads # {},
                      ~stale \/ Screen!Ordered(screen)
               PROVE  shown = [q |-> asked, has |-> Held]
    BY DEF Screen!ShownIsCurrent, Screen!Quiet, Held
  <1>1. InOrder /\ Told = Held /\ Guesses = {}
    BY DEF InOrder, Told, Guesses
  <1>2. shown.q = asked
    BY <1>1 DEF ScreenInv, AskInv, Answered
  <1>3. shown.has \subseteq Held
    BY <1>1 DEF ScreenInv, SeenInv
  <1>4. Held \subseteq shown.has
    BY <1>1 DEF ScreenInv, ToldInv, Known
  <1>5. shown.has = Held /\ shown \in Shows
    BY <1>3, <1>4 DEF ScreenInv, ShapeInv
  <1> QED
    BY <1>2, <1>5 DEF Shows

LEMMA ScreenCreates ==
  ASSUME ScreenInv PROVE Screen!CreatedOnce /\ Screen!ReadyWhenQuiet
  <1>1. Screen!CreatedOnce
    <2> SUFFICES ASSUME NEW w \in screen.writes, Ends(w)
                 PROVE  Cardinality({m \in made : m.of = w}) <= 1 + failures
      <3>1. \A S : Screen!Cardinality(S) = Cardinality(S)
        BY Zenon DEF Screen!Cardinality, Cardinality
      <3> QED
        BY <3>1 DEF Screen!CreatedOnce, Ends
    <2>1. Cardinality(MadeOf(w)) <= 1 + failures
      BY DEF ScreenInv, CountInv
    <2> QED
      BY <2>1 DEF MadeOf
  <1>2. Screen!ReadyWhenQuiet
    BY DEF ScreenInv, BusyInv, Screen!ReadyWhenQuiet
  <1> QED
    BY <1>1, <1>2

LEMMA ScreenTypes ==
  ASSUME ScreenInv PROVE Screen!TypeOK
  <1>1. ShapeInv /\ LoadInv /\ MarkInv /\ PostInv /\ ShownInv
    BY DEF ScreenInv
  <1>2. \A m \in made : m.id \in 1 .. clicks /\ m.of \in screen.writes
    BY <1>1 DEF MarkInv, ShapeInv, Marks
  <1>3. \A l \in loads : l.id <= sent /\ l.has \subseteq Held
    BY <1>1 DEF LoadInv, ShapeInv
  <1>4. \A c \in posts : c.of \in screen.writes /\ c.id <= clicks
    BY <1>1 DEF PostInv, ShapeInv, Posts
  <1>5. \A l, m \in loads : l.id = m.id => l = m
    BY <1>1 DEF LoadInv
  <1> QED
    BY <1>1, <1>2, <1>3, <1>4, <1>5 DEF ShapeInv, ShownInv, Held, Screen!TypeOK

-----------------------------------------------------------------------------
(* Access: the table of the routes, and what each screen asks of it.       *)
LEMMA Controllers ==
  /\ Door!ProductsController \subseteq Door!Needs
  /\ Door!CategoriesController \subseteq Door!Needs
  /\ Door!BrandsController \subseteq Door!Needs
  /\ Door!ReviewsController \subseteq Door!Needs
  /\ Door!PromotionsController \subseteq Door!Needs
  /\ Door!CouponsController \subseteq Door!Needs
  /\ Door!BundlesController \subseteq Door!Needs
  /\ Door!HeroBannersController \subseteq Door!Needs
  /\ Door!LandingPagesController \subseteq Door!Needs
  /\ Door!CartController \subseteq Door!Needs
  /\ Door!OrdersController \subseteq Door!Needs
  /\ Door!OrderTrackingController \subseteq Door!Needs
  /\ Door!CitiesController \subseteq Door!Needs
  /\ Door!CityGroupsController \subseteq Door!Needs
  /\ Door!CustomerAuthController \subseteq Door!Needs
  /\ Door!WishlistController \subseteq Door!Needs
  /\ Door!BirthdayListController \subseteq Door!Needs
  /\ Door!CustomersController \subseteq Door!Needs
  /\ Door!StaffAuthController \subseteq Door!Needs
  /\ Door!StaffUsersController \subseteq Door!Needs
  /\ Door!RolesController \subseteq Door!Needs
  /\ Door!AuditLogController \subseteq Door!Needs
  /\ Door!SettingsController \subseteq Door!Needs
  /\ Door!AnalyticsController \subseteq Door!Needs
  BY DEF Door!Needs

(* Everything a component of a section reads is open to anyone, or is what *)
(* the section is shown for.                                               *)
Asks(x, need) ==
  \A r \in x.reads :
    <<r, "anyone">> \in Door!Needs \/ (need # Door!Admin!Everyone /\ <<r, need>> \in Door!Needs)
(* What the pages that ask more read.                                      *)
Beyond(x) ==
  \A r \in x.reads :
    \E need \in {"order.read", "product.read", "promotion.create"} : <<r, need>> \in Door!Needs

LEMMA PagesAsk ==
  /\ Asks(Door!Admin!AnalyticsPage, "analytics.read")
  /\ Asks(Door!Admin!AuditLogsPage, "user.manage")
  /\ Asks(Door!Admin!ReviewsPage, "product.update")
  /\ Asks(Door!Admin!HeroBannersPage, "promotion.create")
  /\ Asks(Door!Admin!BannerEditForm, "promotion.create")
  /\ Asks(Door!Admin!BundlesPage, "promotion.create")
  /\ Asks(Door!Admin!BundleSearch, "promotion.create")
  /\ Asks(Door!Admin!CategoriesPage, "product.read")
  /\ Asks(Door!Admin!CategoryRow, "product.read")
  /\ Asks(Door!Admin!BrandsPage, "product.read")
  /\ Asks(Door!Admin!BrandRow, "product.read")
  /\ Asks(Door!Admin!CustomersListPage, "customer.read")
  /\ Asks(Door!Admin!CustomerDetailPage, "customer.read")
  /\ Asks(Door!Admin!OrdersListPage, "order.read")
  /\ Asks(Door!Admin!OrderDetailPage, "order.read")
  /\ Asks(Door!Admin!CouponsPage, "coupon.create")
  /\ Asks(Door!Admin!TeamPage, "user.manage")
  /\ Asks(Door!Admin!StaffRow, "user.manage")
  /\ Asks(Door!Admin!RolesPage, "user.manage")
  /\ Asks(Door!Admin!RoleCard, "user.manage")
  /\ Asks(Door!Admin!ImportPage, "product.create")
  /\ Asks(Door!Admin!StockPage, "product.read")
  /\ Asks(Door!Admin!LandingPagesListPage, "promotion.create")
  /\ Asks(Door!Admin!ShippingPage, "shipping.read")
  /\ Asks(Door!Admin!CityRow, "shipping.read")
  /\ Asks(Door!Admin!CityGroupRow, "shipping.read")
  /\ Asks(Door!Admin!ChangePasswordCard, Door!Admin!Everyone)
  /\ Asks(Door!Admin!SettingsPage, Door!Admin!Everyone)
  /\ Asks(Door!Admin!ProductsListPage, "product.read")
  /\ Asks(Door!Admin!ProductForm, "product.read")
  /\ Asks(Door!Admin!EditProductPage, "product.read")
  /\ Asks(Door!Admin!ProductImagesCard, "product.read")
  /\ Asks(Door!Admin!ProductVariantsCard, "product.read")
  /\ Asks(Door!Admin!ProductUpsellsCard, "product.read")
  /\ Asks(Door!Admin!UpsellSearch, "product.read")
  /\ Asks(Door!Admin!StockAdjustCard, "product.read")
  <1>1. Asks(Door!Admin!AnalyticsPage, "analytics.read")
    BY Controllers
    DEF Asks, Door!Admin!Everyone, Door!Admin!AnalyticsPage, Door!Admin!Search,
        Door!Admin!Part, Door!AnalyticsController, Door!Of, Door!Open
  <1>2. Asks(Door!Admin!AuditLogsPage, "user.manage")
    BY Controllers
    DEF Asks, Door!Admin!Everyone, Door!Admin!AuditLogsPage, Door!Admin!Search,
        Door!Admin!Part, Door!AuditLogController, Door!Of, Door!Open
  <1>3. Asks(Door!Admin!ReviewsPage, "product.update")
    BY Controllers
    DEF Asks, Door!Admin!Everyone, Door!Admin!ReviewsPage, Door!Admin!Part,
        Door!ReviewsController, Door!Of, Door!Open
  <1>4. Asks(Door!Admin!HeroBannersPage, "promotion.create")
    BY Controllers
    DEF Asks, Door!Admin!Everyone, Door!Admin!HeroBannersPage, Door!Admin!Part,
        Door!HeroBannersController, Door!Of, Door!Open
  <1>5. Asks(Door!Admin!BannerEditForm, "promotion.create")
    BY Controllers
    DEF Asks, Door!Admin!Everyone, Door!Admin!BannerEditForm, Door!Admin!Part,
        Door!HeroBannersController, Door!Of, Door!Open
  <1>6. Asks(Door!Admin!BundlesPage, "promotion.create")
    BY Controllers
    DEF Asks, Door!Admin!Everyone, Door!Admin!BundlesPage, Door!Admin!Part,
        Door!BundlesController, Door!Of, Door!Open
  <1>7. Asks(Door!Admin!BundleSearch, "promotion.create")
    BY Controllers
    DEF Asks, Door!Admin!Everyone, Door!Admin!BundleSearch, Door!Admin!Search,
        Door!Admin!Part, Door!ProductsController, Door!Of, Door!Open
  <1>8. Asks(Door!Admin!CategoriesPage, "product.read")
    BY Controllers
    DEF Asks, Door!Admin!Everyone, Door!Admin!CategoriesPage, Door!Admin!Part,
        Door!CategoriesController, Door!Of, Door!Open
  <1>9. Asks(Door!Admin!CategoryRow, "product.read")
    BY Controllers
    DEF Asks, Door!Admin!Everyone, Door!Admin!CategoryRow, Door!Admin!Part,
        Door!CategoriesController, Door!Of, Door!Open
  <1>10. Asks(Door!Admin!BrandsPage, "product.read")
    BY Controllers
    DEF Asks, Door!Admin!Everyone, Door!Admin!BrandsPage, Door!Admin!Part,
        Door!BrandsController, Door!Of, Door!Open
  <1>11. Asks(Door!Admin!BrandRow, "product.read")
    BY Controllers
    DEF Asks, Door!Admin!Everyone, Door!Admin!BrandRow, Door!Admin!Part,
        Door!BrandsController, Door!Of, Door!Open
  <1>12. Asks(Door!Admin!CustomersListPage, "customer.read")
    BY Controllers
    DEF Asks, Door!Admin!Everyone, Door!Admin!CustomersListPage, Door!Admin!Search,
        Door!Admin!Part, Door!CustomersController, Door!Of, Door!Open
  <1>13. Asks(Door!Admin!CustomerDetailPage, "customer.read")
    BY Controllers
    DEF Asks, Door!Admin!Everyone, Door!Admin!CustomerDetailPage, Door!Admin!View,
        Door!Admin!Part, Door!CustomersController, Door!Of, Door!Open
  <1>14. Asks(Door!Admin!OrdersListPage, "order.read")
    BY Controllers
    DEF Asks, Door!Admin!Everyone, Door!Admin!OrdersListPage, Door!Admin!Part,
        Door!OrdersController, Door!Of, Door!Open
  <1>15. Asks(Door!Admin!OrderDetailPage, "order.read")
    BY Controllers
    DEF Asks, Door!Admin!Everyone, Door!Admin!OrderDetailPage, Door!Admin!Part,
        Door!OrdersController, Door!Of, Door!Open
  <1>16. Asks(Door!Admin!CouponsPage, "coupon.create")
    BY Controllers
    DEF Asks, Door!Admin!Everyone, Door!Admin!CouponsPage, Door!Admin!Part,
        Door!CouponsController, Door!Of, Door!Open
  <1>17. Asks(Door!Admin!TeamPage, "user.manage")
    BY Controllers
    DEF Asks, Door!Admin!Everyone, Door!Admin!TeamPage, Door!Admin!Part,
        Door!RolesController, Door!StaffUsersController, Door!Of, Door!Open
  <1>18. Asks(Door!Admin!StaffRow, "user.manage")
    BY Controllers
    DEF Asks, Door!Admin!Everyone, Door!Admin!StaffRow, Door!Admin!Part,
        Door!StaffUsersController, Door!Of, Door!Open
  <1>19. Asks(Door!Admin!RolesPage, "user.manage")
    BY Controllers
    DEF Asks, Door!Admin!Everyone, Door!Admin!RolesPage, Door!Admin!Part,
        Door!RolesController, Door!Of, Door!Open
  <1>20. Asks(Door!Admin!RoleCard, "user.manage")
    BY Controllers
    DEF Asks, Door!Admin!Everyone, Door!Admin!RoleCard, Door!Admin!Part,
        Door!RolesController, Door!Of, Door!Open
  <1>21. Asks(Door!Admin!ImportPage, "product.create")
    BY Controllers
    DEF Asks, Door!Admin!Everyone, Door!Admin!ImportPage, Door!Admin!Part,
        Door!ProductsController, Door!Of, Door!Open
  <1>22. Asks(Door!Admin!StockPage, "product.read")
    BY Controllers
    DEF Asks, Door!Admin!Everyone, Door!Admin!StockPage, Door!Admin!Search,
        Door!Admin!Part, Door!ProductsController, Door!Of, Door!Open
  <1>23. Asks(Door!Admin!LandingPagesListPage, "promotion.create")
    BY Controllers
    DEF Asks, Door!Admin!Everyone, Door!Admin!LandingPagesListPage, Door!Admin!Part,
        Door!LandingPagesController, Door!Of, Door!Open
  <1>24. Asks(Door!Admin!ShippingPage, "shipping.read")
    BY Controllers
    DEF Asks, Door!Admin!Everyone, Door!Admin!ShippingPage, Door!Admin!Part,
        Door!CitiesController, Door!CityGroupsController, Door!Of, Door!Open
  <1>25. Asks(Door!Admin!CityRow, "shipping.read")
    BY Controllers
    DEF Asks, Door!Admin!Everyone, Door!Admin!CityRow, Door!Admin!Part,
        Door!CitiesController, Door!Of, Door!Open
  <1>26. Asks(Door!Admin!CityGroupRow, "shipping.read")
    BY Controllers
    DEF Asks, Door!Admin!Everyone, Door!Admin!CityGroupRow, Door!Admin!Part,
        Door!CityGroupsController, Door!Of, Door!Open
  <1>27. Asks(Door!Admin!ChangePasswordCard, Door!Admin!Everyone)
    BY Controllers
    DEF Asks, Door!Admin!Everyone, Door!Admin!ChangePasswordCard, Door!Admin!Part,
        Door!StaffAuthController, Door!Of, Door!Open
  <1>28. Asks(Door!Admin!SettingsPage, Door!Admin!Everyone)
    BY Controllers
    DEF Asks, Door!Admin!Everyone, Door!Admin!SettingsPage, Door!Admin!Part,
        Door!SettingsController, Door!Of, Door!Open
  <1>29. Asks(Door!Admin!ProductsListPage, "product.read")
    BY Controllers
    DEF Asks, Door!Admin!Everyone, Door!Admin!ProductsListPage, Door!Admin!Search,
        Door!Admin!Part, Door!ProductsController, Door!Of, Door!Open
  <1>30. Asks(Door!Admin!ProductForm, "product.read")
    BY Controllers
    DEF Asks, Door!Admin!Everyone, Door!Admin!ProductForm, Door!Admin!Part,
        Door!BrandsController, Door!CategoriesController, Door!ProductsController, Door!Of,
        Door!Open
  <1>31. Asks(Door!Admin!EditProductPage, "product.read")
    BY Controllers
    DEF Asks, Door!Admin!Everyone, Door!Admin!EditProductPage, Door!Admin!View,
        Door!Admin!Part, Door!ProductsController, Door!Of, Door!Open
  <1>32. Asks(Door!Admin!ProductImagesCard, "product.read")
    BY Controllers
    DEF Asks, Door!Admin!Everyone, Door!Admin!ProductImagesCard, Door!Admin!Part,
        Door!ProductsController, Door!Of, Door!Open
  <1>33. Asks(Door!Admin!ProductVariantsCard, "product.read")
    BY Controllers
    DEF Asks, Door!Admin!Everyone, Door!Admin!ProductVariantsCard, Door!Admin!Part,
        Door!ProductsController, Door!Of, Door!Open
  <1>34. Asks(Door!Admin!ProductUpsellsCard, "product.read")
    BY Controllers
    DEF Asks, Door!Admin!Everyone, Door!Admin!ProductUpsellsCard, Door!Admin!Part,
        Door!ProductsController, Door!Of, Door!Open
  <1>35. Asks(Door!Admin!UpsellSearch, "product.read")
    BY Controllers
    DEF Asks, Door!Admin!Everyone, Door!Admin!UpsellSearch, Door!Admin!Search,
        Door!Admin!Part, Door!ProductsController, Door!Of, Door!Open
  <1>36. Asks(Door!Admin!StockAdjustCard, "product.read")
    BY Controllers
    DEF Asks, Door!Admin!Everyone, Door!Admin!StockAdjustCard, Door!Admin!Part,
        Door!ProductsController, Door!Of, Door!Open
  <1> QED
    BY <1>1, <1>2, <1>3, <1>4, <1>5, <1>6, <1>7, <1>8, <1>9, <1>10, <1>11, <1>12, <1>13,
       <1>14, <1>15, <1>16, <1>17, <1>18, <1>19, <1>20, <1>21, <1>22, <1>23, <1>24, <1>25,
       <1>26, <1>27, <1>28, <1>29, <1>30, <1>31, <1>32, <1>33, <1>34, <1>35, <1>36

LEMMA EntryIsRoute ==
  ASSUME NEW r, NEW need, <<r, need>> \in Door!Needs PROVE r \in Door!Route
  BY DEF Door!Route

LEMMA PagesBeyond ==
  /\ Beyond(Door!Admin!DashboardPage)
  /\ Beyond(Door!Admin!EditLandingPage)
  /\ Beyond(Door!Admin!LandingPageForm)
  /\ Beyond(Door!Admin!PromotionsPage)
  <1>1. Beyond(Door!Admin!DashboardPage)
    BY Controllers
    DEF Beyond, Door!Admin!DashboardPage, Door!Admin!View, Door!Admin!Part,
        Door!OrdersController, Door!ProductsController, Door!Of, Door!Open
  <1>2. Beyond(Door!Admin!EditLandingPage)
    BY Controllers
    DEF Beyond, Door!Admin!EditLandingPage, Door!Admin!View, Door!Admin!Part,
        Door!LandingPagesController, Door!Of, Door!Open
  <1>3. Beyond(Door!Admin!LandingPageForm)
    BY Controllers
    DEF Beyond, Door!Admin!LandingPageForm, Door!Admin!Part, Door!LandingPagesController,
        Door!ProductsController, Door!Of, Door!Open
  <1>4. Beyond(Door!Admin!PromotionsPage)
    BY Controllers
    DEF Beyond, Door!Admin!PromotionsPage, Door!Admin!Part, Door!BrandsController,
        Door!CategoriesController, Door!PromotionsController, Door!Of, Door!Open
  <1> QED
    BY <1>1, <1>2, <1>3, <1>4

(* A page asks what its section is shown for, or is one of the three that  *)
(* ask more.                                                               *)
MoreThanShown(p) ==
  p.parts \cap {Door!Admin!DashboardPage, Door!Admin!PromotionsPage, Door!Admin!LandingPageForm} # {}
PageAsks(p) ==
  \/ MoreThanShown(p) /\ \A x \in p.parts : Beyond(x)
  \/ \A x \in p.parts : Asks(x, Door!Admin!Nav(p.section))

LEMMA AtIs == \A s, ps : Door!Admin!At(s, ps).section = s /\ Door!Admin!At(s, ps).parts = ps
  BY DEF Door!Admin!At

LEMMA NavIs ==
  /\ Door!Admin!Nav("/") = Door!Admin!Everyone
  /\ Door!Admin!Nav("/parametres") = Door!Admin!Everyone
  /\ Door!Admin!Nav("/produits") = "product.read"
  /\ Door!Admin!Nav("/stock") = "product.read"
  /\ Door!Admin!Nav("/categories") = "product.read"
  /\ Door!Admin!Nav("/marques") = "product.read"
  /\ Door!Admin!Nav("/import") = "product.create"
  /\ Door!Admin!Nav("/commandes") = "order.read"
  /\ Door!Admin!Nav("/clients") = "customer.read"
  /\ Door!Admin!Nav("/promotions") = "promotion.create"
  /\ Door!Admin!Nav("/landing-pages") = "promotion.create"
  /\ Door!Admin!Nav("/bannieres") = "promotion.create"
  /\ Door!Admin!Nav("/bundles") = "promotion.create"
  /\ Door!Admin!Nav("/coupons") = "coupon.create"
  /\ Door!Admin!Nav("/avis") = "product.update"
  /\ Door!Admin!Nav("/livraison") = "shipping.read"
  /\ Door!Admin!Nav("/analytics") = "analytics.read"
  /\ Door!Admin!Nav("/equipe") = "user.manage"
  /\ Door!Admin!Nav("/roles") = "user.manage"
  /\ Door!Admin!Nav("/audit-logs") = "user.manage"
  BY DEF Door!Admin!Nav

LEMMA AdminPagesAsk == \A p \in Door!Admin!AdminPages : PageAsks(p)
  <1>1. PageAsks(Door!Admin!At("/", {Door!Admin!DashboardPage}))
    BY PagesBeyond, AtIs, NavIs DEF PageAsks, MoreThanShown
  <1>2. PageAsks(Door!Admin!At("/analytics", {Door!Admin!AnalyticsPage}))
    BY PagesAsk, AtIs, NavIs DEF PageAsks, MoreThanShown
  <1>3. PageAsks(Door!Admin!At("/audit-logs", {Door!Admin!AuditLogsPage}))
    BY PagesAsk, AtIs, NavIs DEF PageAsks, MoreThanShown
  <1>4. PageAsks(Door!Admin!At("/avis", {Door!Admin!ReviewsPage}))
    BY PagesAsk, AtIs, NavIs DEF PageAsks, MoreThanShown
  <1>5. PageAsks(Door!Admin!At("/bannieres", {Door!Admin!HeroBannersPage, Door!Admin!BannerEditForm}))
    BY PagesAsk, AtIs, NavIs DEF PageAsks, MoreThanShown
  <1>6. PageAsks(Door!Admin!At("/bundles", {Door!Admin!BundlesPage, Door!Admin!BundleSearch}))
    BY PagesAsk, AtIs, NavIs DEF PageAsks, MoreThanShown
  <1>7. PageAsks(Door!Admin!At("/categories", {Door!Admin!CategoriesPage, Door!Admin!CategoryRow}))
    BY PagesAsk, AtIs, NavIs DEF PageAsks, MoreThanShown
  <1>8. PageAsks(Door!Admin!At("/marques", {Door!Admin!BrandsPage, Door!Admin!BrandRow}))
    BY PagesAsk, AtIs, NavIs DEF PageAsks, MoreThanShown
  <1>9. PageAsks(Door!Admin!At("/clients", {Door!Admin!CustomersListPage}))
    BY PagesAsk, AtIs, NavIs DEF PageAsks, MoreThanShown
  <1>10. PageAsks(Door!Admin!At("/clients", {Door!Admin!CustomerDetailPage}))
    BY PagesAsk, AtIs, NavIs DEF PageAsks, MoreThanShown
  <1>11. PageAsks(Door!Admin!At("/commandes", {Door!Admin!OrdersListPage}))
    BY PagesAsk, AtIs, NavIs DEF PageAsks, MoreThanShown
  <1>12. PageAsks(Door!Admin!At("/commandes", {Door!Admin!OrderDetailPage}))
    BY PagesAsk, AtIs, NavIs DEF PageAsks, MoreThanShown
  <1>13. PageAsks(Door!Admin!At("/coupons", {Door!Admin!CouponsPage}))
    BY PagesAsk, AtIs, NavIs DEF PageAsks, MoreThanShown
  <1>14. PageAsks(Door!Admin!At("/promotions", {Door!Admin!PromotionsPage}))
    BY PagesBeyond, AtIs, NavIs DEF PageAsks, MoreThanShown
  <1>15. PageAsks(Door!Admin!At("/equipe", {Door!Admin!TeamPage, Door!Admin!StaffRow}))
    BY PagesAsk, AtIs, NavIs DEF PageAsks, MoreThanShown
  <1>16. PageAsks(Door!Admin!At("/roles", {Door!Admin!RolesPage, Door!Admin!RoleCard}))
    BY PagesAsk, AtIs, NavIs DEF PageAsks, MoreThanShown
  <1>17. PageAsks(Door!Admin!At("/import", {Door!Admin!ImportPage}))
    BY PagesAsk, AtIs, NavIs DEF PageAsks, MoreThanShown
  <1>18. PageAsks(Door!Admin!At("/stock", {Door!Admin!StockPage}))
    BY PagesAsk, AtIs, NavIs DEF PageAsks, MoreThanShown
  <1>19. PageAsks(Door!Admin!At("/landing-pages", {Door!Admin!LandingPagesListPage}))
    BY PagesAsk, AtIs, NavIs DEF PageAsks, MoreThanShown
  <1>20. PageAsks(Door!Admin!At("/landing-pages", {Door!Admin!LandingPageForm}))
    BY PagesBeyond, AtIs, NavIs DEF PageAsks, MoreThanShown
  <1>21. PageAsks(Door!Admin!At("/landing-pages", {Door!Admin!EditLandingPage, Door!Admin!LandingPageForm}))
    BY PagesBeyond, AtIs, NavIs DEF PageAsks, MoreThanShown
  <1>22. PageAsks(Door!Admin!At("/livraison", {Door!Admin!ShippingPage, Door!Admin!CityRow,
                          Door!Admin!CityGroupRow}))
    BY PagesAsk, AtIs, NavIs DEF PageAsks, MoreThanShown
  <1>23. PageAsks(Door!Admin!At("/parametres", {Door!Admin!ChangePasswordCard, Door!Admin!SettingsPage}))
    BY PagesAsk, AtIs, NavIs DEF PageAsks, MoreThanShown
  <1>24. PageAsks(Door!Admin!At("/produits", {Door!Admin!ProductsListPage}))
    BY PagesAsk, AtIs, NavIs DEF PageAsks, MoreThanShown
  <1>25. PageAsks(Door!Admin!At("/produits", {Door!Admin!ProductForm}))
    BY PagesAsk, AtIs, NavIs DEF PageAsks, MoreThanShown
  <1>26. PageAsks(Door!Admin!At("/produits", {Door!Admin!EditProductPage, Door!Admin!ProductForm,
                          Door!Admin!ProductImagesCard, Door!Admin!ProductVariantsCard,
                          Door!Admin!ProductUpsellsCard, Door!Admin!UpsellSearch,
                          Door!Admin!StockAdjustCard}))
    BY PagesAsk, AtIs, NavIs DEF PageAsks, MoreThanShown
  <1> QED
    BY <1>1, <1>2, <1>3, <1>4, <1>5, <1>6, <1>7, <1>8, <1>9, <1>10, <1>11, <1>12, <1>13,
       <1>14, <1>15, <1>16, <1>17, <1>18, <1>19, <1>20, <1>21, <1>22, <1>23, <1>24, <1>25,
       <1>26 DEF Door!Admin!AdminPages

(* All that a component of the shop calls is open to anyone, or to the     *)
(* visitor it waits for.                                                   *)
CallsOf(x) == x.reads \cup {w.route : w \in x.writes}
Served(x) ==
  \A r \in CallsOf(x) : <<r, "anyone">> \in Door!Needs \/ <<r, x.who>> \in Door!Needs

LEMMA ShopIsServed == \A x \in Door!Shop!ShopParts : Served(x)
  <1>1. Served(Door!Shop!HomePage)
    BY Controllers
    DEF Served, CallsOf, Door!Shop!HomePage, Door!Shop!View, Door!Shop!Part,
        Door!BrandsController, Door!CategoriesController, Door!HeroBannersController,
        Door!ProductsController, Door!Of, Door!Open
  <1>2. Served(Door!Shop!CategoryPage)
    BY Controllers
    DEF Served, CallsOf, Door!Shop!CategoryPage, Door!Shop!Search, Door!Shop!Part,
        Door!BrandsController, Door!CategoriesController, Door!ProductsController, Door!Of,
        Door!Open
  <1>3. Served(Door!Shop!SearchPage)
    BY Controllers
    DEF Served, CallsOf, Door!Shop!SearchPage, Door!Shop!Search, Door!Shop!Part,
        Door!BrandsController, Door!CategoriesController, Door!ProductsController, Door!Of,
        Door!Open
  <1>4. Served(Door!Shop!ProductPage)
    BY Controllers
    DEF Served, CallsOf, Door!Shop!ProductPage, Door!Shop!Search, Door!Shop!Part,
        Door!ProductsController, Door!Of, Door!Open
  <1>5. Served(Door!Shop!LandingPage)
    BY Controllers
    DEF Served, CallsOf, Door!Shop!LandingPage, Door!Shop!View, Door!Shop!Part,
        Door!LandingPagesController, Door!Of, Door!Open
  <1>6. Served(Door!Shop!sitemap)
    BY Controllers
    DEF Served, CallsOf, Door!Shop!sitemap, Door!Shop!View, Door!Shop!Part,
        Door!CategoriesController, Door!ProductsController, Door!Of, Door!Open
  <1>7. Served(Door!Shop!SiteHeader)
    BY Controllers
    DEF Served, CallsOf, Door!Shop!SiteHeader, Door!Shop!View, Door!Shop!Part,
        Door!CartController, Door!CitiesController, Door!SettingsController, Door!Of,
        Door!Open
  <1>8. Served(Door!Shop!useStoreSettings)
    BY Controllers
    DEF Served, CallsOf, Door!Shop!useStoreSettings, Door!Shop!View, Door!Shop!Part,
        Door!CitiesController, Door!SettingsController, Door!Of, Door!Open
  <1>9. Served(Door!Shop!useCart)
    BY Controllers
    DEF Served, CallsOf, Door!Shop!useCart, Door!Shop!View, Door!Shop!Part,
        Door!CartController, Door!Of, Door!Open
  <1>10. Served(Door!Shop!CartPageContent)
    BY Controllers
    DEF Served, CallsOf, Door!Shop!CartPageContent, Door!Shop!Part, Door!Shop!Form,
        Door!Shop!Button, Door!Shop!Write, Door!CartController, Door!Of, Door!Open
  <1>11. Served(Door!Shop!FreeShippingProgress)
    BY Controllers
    DEF Served, CallsOf, Door!Shop!FreeShippingProgress, Door!Shop!Search, Door!Shop!Part,
        Door!ProductsController, Door!Of, Door!Open
  <1>12. Served(Door!Shop!CheckoutPageContent)
    BY Controllers
    DEF Served, CallsOf, Door!Shop!CheckoutPageContent, Door!Shop!Part, Door!Shop!Leaving,
        Door!Shop!Write, Door!CartController, Door!OrdersController, Door!Of, Door!Open
  <1>13. Served(Door!Shop!CheckoutProfile)
    BY Controllers
    DEF Served, CallsOf, Door!Shop!CheckoutProfile, Door!Shop!View, Door!Shop!Part,
        Door!CustomerAuthController, Door!Of, Door!Open
  <1>14. Served(Door!Shop!AddToCartButton)
    BY Controllers
    DEF Served, CallsOf, Door!Shop!AddToCartButton, Door!Shop!Part, Door!Shop!Form,
        Door!Shop!Write, Door!CartController, Door!Of, Door!Open
  <1>15. Served(Door!Shop!BundlesPage)
    BY Controllers
    DEF Served, CallsOf, Door!Shop!BundlesPage, Door!Shop!View, Door!Shop!Part,
        Door!BundlesController, Door!Of, Door!Open
  <1>16. Served(Door!Shop!BundleCard)
    BY Controllers
    DEF Served, CallsOf, Door!Shop!BundleCard, Door!Shop!Part, Door!Shop!Form,
        Door!Shop!Write, Door!CartController, Door!Of, Door!Open
  <1>17. Served(Door!Shop!QuickOrderForm)
    BY Controllers
    DEF Served, CallsOf, Door!Shop!QuickOrderForm, Door!Shop!Part, Door!Shop!Form,
        Door!Shop!Write, Door!CitiesController, Door!LandingPagesController, Door!Of,
        Door!Open
  <1>18. Served(Door!Shop!GiftAdvisorPage)
    BY Controllers
    DEF Served, CallsOf, Door!Shop!GiftAdvisorPage, Door!Shop!Search, Door!Shop!Part,
        Door!ProductsController, Door!Of, Door!Open
  <1>19. Served(Door!Shop!ProductPicker)
    BY Controllers
    DEF Served, CallsOf, Door!Shop!ProductPicker, Door!Shop!Search, Door!Shop!Part,
        Door!ProductsController, Door!Of, Door!Open
  <1>20. Served(Door!Shop!WriteReviewForm)
    BY Controllers
    DEF Served, CallsOf, Door!Shop!WriteReviewForm, Door!Shop!Part, Door!Shop!Form,
        Door!Shop!Write, Door!ReviewsController, Door!Of, Door!Open
  <1>21. Served(Door!Shop!AccountPage)
    BY Controllers
    DEF Served, CallsOf, Door!Shop!AccountPage, Door!Shop!View, Door!Shop!Part,
        Door!CustomerAuthController, Door!Of, Door!Open
  <1>22. Served(Door!Shop!LoyaltyHistorySection)
    BY Controllers
    DEF Served, CallsOf, Door!Shop!LoyaltyHistorySection, Door!Shop!View, Door!Shop!Part,
        Door!CustomerAuthController, Door!Of, Door!Open
  <1>23. Served(Door!Shop!PersonalInfoCard)
    BY Controllers
    DEF Served, CallsOf, Door!Shop!PersonalInfoCard, Door!Shop!Part, Door!Shop!Form,
        Door!Shop!Write, Door!CustomerAuthController, Door!Of, Door!Open
  <1>24. Served(Door!Shop!EmailChangeSection)
    BY Controllers
    DEF Served, CallsOf, Door!Shop!EmailChangeSection, Door!Shop!Part, Door!Shop!Form,
        Door!Shop!Write, Door!CustomerAuthController, Door!Of, Door!Open
  <1>25. Served(Door!Shop!AuthForm)
    BY Controllers
    DEF Served, CallsOf, Door!Shop!AuthForm, Door!Shop!Part, Door!Shop!Write,
        Door!CustomerAuthController, Door!Of, Door!Open
  <1>26. Served(Door!Shop!ForgotPasswordPage)
    BY Controllers
    DEF Served, CallsOf, Door!Shop!ForgotPasswordPage, Door!Shop!Part, Door!Shop!Form,
        Door!Shop!Write, Door!CustomerAuthController, Door!Of, Door!Open
  <1>27. Served(Door!Shop!ResetPasswordForm)
    BY Controllers
    DEF Served, CallsOf, Door!Shop!ResetPasswordForm, Door!Shop!Part, Door!Shop!Form,
        Door!Shop!Write, Door!CustomerAuthController, Door!Of, Door!Open
  <1>28. Served(Door!Shop!ConfirmEmailChangeContent)
    BY Controllers
    DEF Served, CallsOf, Door!Shop!ConfirmEmailChangeContent, Door!Shop!View,
        Door!Shop!Part, Door!CustomerAuthController, Door!Of, Door!Open
  <1>29. Served(Door!Shop!MyOrdersPage)
    BY Controllers
    DEF Served, CallsOf, Door!Shop!MyOrdersPage, Door!Shop!View, Door!Shop!Part,
        Door!OrdersController, Door!Of, Door!Open
  <1>30. Served(Door!Shop!OrderDetailPage)
    BY Controllers
    DEF Served, CallsOf, Door!Shop!OrderDetailPage, Door!Shop!Part, Door!Shop!Form,
        Door!Shop!Write, Door!OrdersController, Door!Of, Door!Open
  <1>31. Served(Door!Shop!TrackedOrder)
    BY Controllers
    DEF Served, CallsOf, Door!Shop!TrackedOrder, Door!Shop!View, Door!Shop!Part,
        Door!OrderTrackingController, Door!Of, Door!Open
  <1>32. Served(Door!Shop!OrderTrackingPageContent)
    BY Controllers
    DEF Served, CallsOf, Door!Shop!OrderTrackingPageContent, Door!Shop!Part,
        Door!Shop!Form, Door!Shop!Button, Door!Shop!Write, Door!OrderTrackingController,
        Door!Of, Door!Open
  <1>33. Served(Door!Shop!WishlistPage)
    BY Controllers
    DEF Served, CallsOf, Door!Shop!WishlistPage, Door!Shop!Part, Door!Shop!Button,
        Door!Shop!Write, Door!WishlistController, Door!Of, Door!Open
  <1>34. Served(Door!Shop!SharedWishlistPage)
    BY Controllers
    DEF Served, CallsOf, Door!Shop!SharedWishlistPage, Door!Shop!View, Door!Shop!Part,
        Door!WishlistController, Door!Of, Door!Open
  <1>35. Served(Door!Shop!BirthdayListPage)
    BY Controllers
    DEF Served, CallsOf, Door!Shop!BirthdayListPage, Door!Shop!View, Door!Shop!Part,
        Door!BirthdayListController, Door!Of, Door!Open
  <1>36. Served(Door!Shop!CreateListCard)
    BY Controllers
    DEF Served, CallsOf, Door!Shop!CreateListCard, Door!Shop!Part, Door!Shop!Form,
        Door!Shop!Write, Door!BirthdayListController, Door!Of, Door!Open
  <1>37. Served(Door!Shop!ListItemsPanel)
    BY Controllers
    DEF Served, CallsOf, Door!Shop!ListItemsPanel, Door!Shop!Part, Door!Shop!Form,
        Door!Shop!Write, Door!BirthdayListController, Door!Of, Door!Open
  <1>38. Served(Door!Shop!SharedBirthdayListPage)
    BY Controllers
    DEF Served, CallsOf, Door!Shop!SharedBirthdayListPage, Door!Shop!Part, Door!Shop!Form,
        Door!Shop!Write, Door!BirthdayListController, Door!Of, Door!Open
  <1> QED
    BY <1>1, <1>2, <1>3, <1>4, <1>5, <1>6, <1>7, <1>8, <1>9, <1>10, <1>11, <1>12, <1>13,
       <1>14, <1>15, <1>16, <1>17, <1>18, <1>19, <1>20, <1>21, <1>22, <1>23, <1>24, <1>25,
       <1>26, <1>27, <1>28, <1>29, <1>30, <1>31, <1>32, <1>33, <1>34, <1>35, <1>36, <1>37,
       <1>38
    DEF Door!Shop!ShopParts

-----------------------------------------------------------------------------
(* Access: every call under way asks what the screen may go by.            *)
GoodFor(r, perms) ==
  <<r, "anyone">> \in Door!Needs \/ \E need \in perms : <<r, need>> \in Door!Needs
Allowed(call) ==
  \/ <<call.route, "anyone">> \in Door!Needs
  \/ <<call.route, visitor>> \in Door!Needs
  \/ visitor = "staff" /\ \E need \in call.held : <<call.route, need>> \in Door!Needs
CallInv(call) == call.route \in Door!Route /\ (call.from \in Door!Overreaching \/ Allowed(call))

DoorInv ==
  /\ Door!TypeOK
  /\ visitor # "staff" => active = TRUE /\ held = Door!NoSession /\ idle = Door!NoSession
  /\ \A call \in calls : CallInv(call)
  /\ Door!RefusedOnlyIfStale

LEMMA PreloadGood == \A perms : \A r \in Door!preloadReferenceData(perms) : GoodFor(r, perms)
  BY Controllers
  DEF GoodFor, Door!preloadReferenceData, Door!SettingsController, Door!CategoriesController,
      Door!BrandsController, Door!CitiesController, Door!CityGroupsController, Door!RolesController,
      Door!Of, Door!Open
LEMMA PrefetchGood == \A perms : \A r \in Door!prefetchSecondaryData(perms) : GoodFor(r, perms)
  BY Controllers
  DEF GoodFor, Door!prefetchSecondaryData, Door!OrdersController, Door!ProductsController,
      Door!CustomersController, Door!PromotionsController, Door!AnalyticsController, Door!Of, Door!Open

LEMMA CallIs ==
  ASSUME NEW from, NEW routes, NEW perms, NEW call \in Door!CallsOf(from, routes, perms)
  PROVE  call.from = from /\ call.route \in routes /\ call.held = perms
  BY DEF Door!CallsOf

LEMMA AllowedIsRoute == ASSUME NEW call, Allowed(call) PROVE call.route \in Door!Route
  BY EntryIsRoute DEF Allowed

(* The routes a page reads, where its section is open.                     *)
LEMMA PageReads ==
  ASSUME NEW p \in Door!Admin!AdminPages, NEW r \in UNION {x.reads : x \in p.parts},
         Door!Admin!Nav(p.section) = Door!Admin!Everyone \/ Door!Admin!Nav(p.section) \in held
  PROVE  r \in Door!Route /\ (p \in Door!Overreaching \/ GoodFor(r, held))
  <1>1. PageAsks(p)
    BY AdminPagesAsk
  <1>2. PICK x \in p.parts : r \in x.reads
    OBVIOUS
  <1>3. CASE MoreThanShown(p) /\ Beyond(x)
    <2>1. p \in Door!Overreaching
      BY <1>3 DEF MoreThanShown, Door!Overreaching
    <2>2. r \in Door!Route
      BY <1>2, <1>3, EntryIsRoute DEF Beyond
    <2> QED
      BY <2>1, <2>2
  <1>4. CASE Asks(x, Door!Admin!Nav(p.section))
    <2>1. GoodFor(r, held)
      BY <1>2, <1>4 DEF Asks, GoodFor
    <2>2. r \in Door!Route
      BY <2>1, EntryIsRoute DEF GoodFor
    <2> QED
      BY <2>1, <2>2
  <1> QED
    BY <1>1, <1>2, <1>3, <1>4 DEF PageAsks

LEMMA DoorInit == ASSUME Door!AccessAssumption, Door!Init PROVE DoorInv
  <1>1. /\ visitor \in {"staff", "anyone", "customer", "order"} /\ granted \in Door!ROLE_PERMISSIONS
        /\ active = TRUE /\ held = Door!NoSession /\ preloaded = FALSE /\ idle = Door!NoSession
        /\ page = Door!NoPage /\ calls = {} /\ refused = {} /\ changes = 0
    BY DEF Door!Init
  <1>2. Door!TypeOK
    <2>1. active \in BOOLEAN /\ preloaded \in BOOLEAN
      BY <1>1, Zenon
    <2>2. changes \in 0 .. MaxChanges
      BY <1>1 DEF Door!AccessAssumption
    <2>3. \A call \in calls : call.route \in Door!Route
      BY <1>1
    <2>4. held \in Door!ROLE_PERMISSIONS \cup {Door!NoSession} /\ idle \in Door!ROLE_PERMISSIONS \cup {Door!NoSession}
      BY <1>1
    <2> QED
      BY <1>1, <2>1, <2>2, <2>3, <2>4, Zenon DEF Door!TypeOK
  <1> QED
    BY <1>1, <1>2 DEF DoorInv, Door!RefusedOnlyIfStale

LEMMA DoorNext ==
  ASSUME Door!AccessAssumption, DoorInv, [Door!Next]_(Door!vars) PROVE DoorInv'
  <1> USE DEF DoorInv, Door!TypeOK, Door!AccessAssumption
  <1>1. ASSUME UNCHANGED visitor, calls' \subseteq calls PROVE \A call \in calls' : CallInv(call)'
    BY <1>1 DEF CallInv, Allowed
  <1>2. ASSUME refused' = {} \/ refused' = refused PROVE Door!RefusedOnlyIfStale'
    BY <1>2 DEF Door!RefusedOnlyIfStale
  <1>3. ASSUME visitor = "staff", visitor' = visitor, NEW from, NEW routes, NEW perms,
               \A r \in routes : r \in Door!Route /\ (from \in Door!Overreaching \/ GoodFor(r, perms)),
               NEW call \in Door!CallsOf(from, routes, perms)
        PROVE  CallInv(call)'
    <2>1. call.from = from /\ call.route \in routes /\ call.held = perms
      BY <1>3, CallIs
    <2> QED
      BY <1>3, <2>1 DEF CallInv, Allowed, GoodFor
  <1>4. CASE Door!SignIn
    BY <1>1, <1>2, <1>4 DEF Door!SignIn, CallInv
  <1>5. CASE Door!Refresh
    BY <1>1, <1>2, <1>5 DEF Door!Refresh, CallInv
  <1>6. CASE Door!ChangeRights
    <2>1. changes' \in 0 .. MaxChanges /\ granted' \in Door!ROLE_PERMISSIONS /\ active' \in BOOLEAN
      <3>1. changes' \in 0 .. MaxChanges
        BY <1>6 DEF Door!ChangeRights
      <3>2. CASE granted' \in Door!ROLE_PERMISSIONS /\ active' = active
        BY <3>1, <3>2
      <3>3. CASE active' = ~active /\ granted' = granted
        BY <3>1, <3>3, Zenon
      <3> QED
        BY <1>6, <3>2, <3>3 DEF Door!ChangeRights
    <2>2. /\ UNCHANGED <<visitor, held, preloaded, idle, page, calls, refused>> /\ visitor = "staff"
      BY <1>6 DEF Door!ChangeRights
    <2> QED
      BY <1>1, <1>2, <2>1, <2>2 DEF CallInv
  <1>7. CASE Door!Shell
    <2>1. /\ visitor = "staff" /\ calls' = Door!CallsOf(Door!Preload, Door!preloadReferenceData(held), held)
          /\ preloaded' = TRUE /\ idle' = held /\ refused' = {}
          /\ UNCHANGED <<visitor, granted, active, held, page, changes>>
      BY <1>7 DEF Door!Shell
    <2>2. \A r \in Door!preloadReferenceData(held) : r \in Door!Route /\ GoodFor(r, held)
      BY PreloadGood, EntryIsRoute DEF GoodFor
    <2>3. \A call \in calls' : CallInv(call)'
      BY <1>3, <2>1, <2>2
    <2> QED
      BY <1>2, <2>1, <2>3 DEF CallInv
  <1>8. CASE Door!OnIdle
    <2>1. /\ visitor = "staff" /\ calls' = Door!CallsOf(Door!Preload, Door!prefetchSecondaryData(idle), idle)
          /\ idle' = Door!NoSession /\ refused' = {}
          /\ UNCHANGED <<visitor, granted, active, held, preloaded, page, changes>>
      BY <1>8 DEF Door!OnIdle
    <2>2. \A r \in Door!prefetchSecondaryData(idle) : r \in Door!Route /\ GoodFor(r, idle)
      BY PrefetchGood, EntryIsRoute DEF GoodFor
    <2>3. \A call \in calls' : CallInv(call)'
      BY <1>3, <2>1, <2>2
    <2> QED
      BY <1>2, <2>1, <2>3 DEF CallInv
  <1>9. ASSUME NEW p \in Door!Admin!AdminPages, Door!OpenPage(p) PROVE DoorInv'
    <2>1. /\ visitor = "staff" /\ page' = p /\ refused' = {}
          /\ calls' = IF Door!Denied(p) THEN {}
                      ELSE Door!CallsOf(p, UNION {x.reads : x \in p.parts}, held)
          /\ UNCHANGED <<visitor, granted, active, held, preloaded, idle, changes>>
      BY <1>9 DEF Door!OpenPage
    <2>2. ASSUME ~Door!Denied(p) PROVE \A call \in calls' : CallInv(call)'
      <3>1. Door!Admin!Nav(p.section) = Door!Admin!Everyone \/ Door!Admin!Nav(p.section) \in held
        BY <2>2 DEF Door!Denied
      <3>2. \A r \in UNION {x.reads : x \in p.parts} :
              r \in Door!Route /\ (p \in Door!Overreaching \/ GoodFor(r, held))
        BY <3>1, PageReads
      <3> QED
        BY <1>3, <2>1, <2>2, <3>2
    <2>3. \A call \in calls' : CallInv(call)'
      BY <2>1, <2>2
    <2> QED
      BY <1>2, <2>1, <2>3 DEF CallInv
  <1>10. ASSUME NEW x \in Door!Shop!ShopParts, Door!OpenPart(x) PROVE DoorInv'
    <2>1. /\ visitor # "staff" /\ x.who \in {"anyone", visitor}
          /\ page' = [section |-> "shop", parts |-> {x}] /\ refused' = {}
          /\ calls' = Door!CallsOf(page', CallsOf(x), held)
          /\ UNCHANGED <<visitor, granted, active, held, preloaded, idle, changes>>
      BY <1>10 DEF Door!OpenPart, CallsOf
    <2>2. ASSUME NEW call \in calls' PROVE CallInv(call)'
      <3>1. call.route \in CallsOf(x)
        BY <2>1, CallIs
      <3>2. <<call.route, "anyone">> \in Door!Needs \/ <<call.route, x.who>> \in Door!Needs
        BY <3>1, ShopIsServed DEF Served
      <3>3. call.route \in Door!Route
        BY <3>2, EntryIsRoute
      <3> QED
        BY <2>1, <3>2, <3>3 DEF CallInv, Allowed
    <2>3. page'.section = "shop"
      BY <2>1
    <2> QED
      BY <1>2, <2>1, <2>2, <2>3 DEF CallInv
  <1>11. ASSUME NEW call \in calls, Door!Answer(call) PROVE DoorInv'
    <2>1. /\ calls' = calls \ {call}
          /\ UNCHANGED <<visitor, granted, active, held, preloaded, idle, page, changes>>
      BY <1>11 DEF Door!Answer
    <2>2. CallInv(call)
      OBVIOUS
    <2>3. Door!RefusedOnlyIfStale'
      <3>1. CASE Door!Permits(call.route)
        BY <1>2, <1>11, <3>1 DEF Door!Answer
      <3>2. CASE ~Door!Permits(call.route)
        <4> DEFINE late == ~active \/ call.held # granted
                   r    == [from |-> call.from, route |-> call.route, stale |-> late]
        <4>1. refused' = {r}
          BY <1>11, <3>2 DEF Door!Answer
        <4>2. late \/ call.from \in Door!Overreaching
          BY <2>2, <3>2 DEF CallInv, Allowed, Door!Permits
        <4> HIDE DEF late
        <4>3. r.stale = late /\ r.from = call.from
          OBVIOUS
        <4> HIDE DEF r
        <4> QED
          BY <4>1, <4>2, <4>3 DEF Door!RefusedOnlyIfStale
      <3> QED
        BY <3>1, <3>2
    <2> QED
      BY <1>1, <2>1, <2>3 DEF CallInv
  <1>12. CASE UNCHANGED Door!vars
    BY <1>1, <1>2, <1>12 DEF Door!vars, CallInv
  <1> QED
    BY <1>4, <1>5, <1>6, <1>7, <1>8, <1>9, <1>10, <1>11, <1>12 DEF Door!Next

-----------------------------------------------------------------------------
(* Listing: the categories, the filter, the order and the pages.           *)
LEMMA ListCards == \A S : List!Cardinality(S) = Cardinality(S)
  BY Zenon DEF List!Cardinality, Cardinality

(* A set of numbers that is not empty has a least one.                     *)
LEMMA Least ==
  ASSUME NEW T, T \subseteq Nat, T # {}
  PROVE  \E x \in T : \A y \in T : ~(y < x)
  <1>1. PICK x \in T : \A y \in T : <<y, x>> \notin OpToRel(<, Nat)
    BY WFMin, NatLessThanWellFounded, Zenon
  <1> QED
    BY <1>1, Zenon DEF OpToRel

(* The children of some categories.                                        *)
Children(S) == {d \in DOMAIN Parent : Parent[d] \in S}

(* The first levels below c, as a sequence.                                *)
Reached(c, n) ==
  {g \in [0 .. n -> SUBSET (DOMAIN Parent \cup {c})] :
     \A k \in 0 .. n : g[k] = IF k = 0 THEN {c} ELSE Children(g[k - 1])}

(* There is one such sequence of any length, and a longer one begins with  *)
(* the shorter.                                                            *)
LEMMA ReachedAgree ==
  ASSUME NEW c, NEW m \in Nat, NEW n \in Nat, NEW g \in Reached(c, m), NEW h \in Reached(c, n)
  PROVE  \A k \in Nat : k <= m /\ k <= n => g[k] = h[k]
  <1> DEFINE T == {k \in Nat : k <= m /\ k <= n /\ g[k] # h[k]}
  <1> SUFFICES ASSUME T # {} PROVE FALSE
    OBVIOUS
  <1>1. PICK x \in T : \A y \in T : ~(y < x)
    BY Least
  <1>2. x \in 0 .. m /\ x \in 0 .. n /\ g[x] # h[x]
    OBVIOUS
  <1>3. g[x] = IF x = 0 THEN {c} ELSE Children(g[x - 1])
    BY <1>2 DEF Reached
  <1>4. h[x] = IF x = 0 THEN {c} ELSE Children(h[x - 1])
    BY <1>2 DEF Reached
  <1>5. x # 0
    BY <1>2, <1>3, <1>4
  <1>6. x - 1 \in Nat /\ x - 1 < x /\ x - 1 <= m /\ x - 1 <= n
    BY <1>2, <1>5
  <1>7. g[x - 1] = h[x - 1]
    BY <1>1, <1>6
  <1> QED
    BY <1>2, <1>3, <1>4, <1>5, <1>7

LEMMA ReachedExists ==
  ASSUME NEW c, NEW n \in Nat PROVE Reached(c, n) # {}
  <1> DEFINE T == {k \in Nat : Reached(c, k) = {}}
  <1> SUFFICES ASSUME T # {} PROVE FALSE
    OBVIOUS
  <1>1. PICK x \in T : \A y \in T : ~(y < x)
    BY Least
  <1>2. x \in Nat /\ Reached(c, x) = {}
    OBVIOUS
  <1>3. x # 0
    <2> DEFINE z == [k \in 0 .. 0 |-> {c}]
    <2>1. z \in Reached(c, 0)
      BY DEF Reached
    <2> QED
      BY <1>2, <2>1
  <1>4. x - 1 \in Nat /\ x - 1 < x
    BY <1>2, <1>3
  <1>5. PICK g : g \in Reached(c, x - 1)
    BY <1>1, <1>4
  <1> DEFINE h == [k \in 0 .. x |-> IF k < x THEN g[k] ELSE Children(g[x - 1])]
  <1>6. h \in [0 .. x -> SUBSET (DOMAIN Parent \cup {c})]
    BY <1>2, <1>5 DEF Reached, Children
  <1>7. ASSUME NEW k \in 0 .. x PROVE h[k] = IF k = 0 THEN {c} ELSE Children(h[k - 1])
    <2>1. CASE k < x
      <3>1. k \in 0 .. x - 1 /\ h[k] = g[k]
        BY <1>2, <2>1
      <3>2. g[k] = IF k = 0 THEN {c} ELSE Children(g[k - 1])
        BY <1>5, <3>1 DEF Reached
      <3>3. k # 0 => k - 1 \in 0 .. x /\ k - 1 < x
        BY <1>2, <2>1
      <3>4. k # 0 => h[k - 1] = g[k - 1]
        BY <3>3
      <3> QED
        BY <3>1, <3>2, <3>4
    <2>2. CASE k = x
      <3>1. h[k] = Children(g[x - 1])
        BY <1>2, <2>2
      <3>2. k - 1 \in 0 .. x /\ k - 1 < x
        BY <1>2, <1>3, <2>2
      <3>3. h[k - 1] = g[x - 1]
        BY <3>2, <2>2
      <3> QED
        BY <1>3, <2>2, <3>1, <3>3
    <2> QED
      BY <1>2, <2>1, <2>2
  <1> HIDE DEF h
  <1> QED
    BY <1>2, <1>6, <1>7 DEF Reached

(* The levels below a category are what their definition says.             *)
LEMMA LevelsAre ==
  ASSUME NEW c
  PROVE  /\ List!Levels(c)[0] = {c}
         /\ \A k \in Nat : List!Levels(c)[k + 1] = Children(List!Levels(c)[k])
  <1> DEFINE some(k) == CHOOSE g : g \in Reached(c, k)
             G == [k \in Nat |-> some(k)[k]]
             Is(g) == g = [k \in Nat |-> IF k = 0 THEN {c} ELSE {d \in DOMAIN Parent : Parent[d] \in g[k - 1]}]
  <1>1. \A k \in Nat : some(k) \in Reached(c, k)
    BY ReachedExists
  <1> HIDE DEF some
  <1>2. ASSUME NEW k \in Nat PROVE G[k] = IF k = 0 THEN {c} ELSE Children(G[k - 1])
    <2>1. some(k)[k] = IF k = 0 THEN {c} ELSE Children(some(k)[k - 1])
      <3> DEFINE g == some(k)
      <3>1. g \in Reached(c, k) /\ k \in 0 .. k
        BY <1>1
      <3> HIDE DEF g
      <3>2. g[k] = IF k = 0 THEN {c} ELSE Children(g[k - 1])
        BY <3>1 DEF Reached
      <3> QED
        BY <3>2 DEF g
    <2>2. k # 0 => k - 1 \in Nat /\ k - 1 <= k
      OBVIOUS
    <2>3. k # 0 => some(k)[k - 1] = some(k - 1)[k - 1]
      BY <1>1, <2>2, ReachedAgree
    <2> QED
      BY <2>1, <2>2, <2>3
  <1>3. Is(G)
    BY <1>2 DEF Children
  <1>4. List!Levels(c) = CHOOSE g : Is(g)
    BY DEF List!Levels
  <1>5. Is(List!Levels(c))
    BY <1>3, <1>4
  <1> DEFINE L == List!Levels(c)
  <1>6. L = [k \in Nat |-> IF k = 0 THEN {c} ELSE {d \in DOMAIN Parent : Parent[d] \in L[k - 1]}]
    BY <1>5
  <1> HIDE DEF L
  <1>7. L[0] = {c} /\ \A k \in Nat : L[k + 1] = Children(L[k])
    BY <1>6 DEF Children
  <1> QED
    BY <1>7 DEF L

(* The categories the loop collects are the category and all below it.     *)
LEMMA CategoriesBelow ==
  ASSUME List!ListingAssumption, NEW d, List!Ends(d), NEW c
  PROVE  c \in List!CategoryIds(d) <=> List!Below(c, d)
  <1> DEFINE L == List!Levels(d)
             N == List!Depth
             A == UNION {L[k] : k \in 0 .. N}
  <1>1. N \in Nat
    BY FS_CardinalityType, Zenon DEF List!ListingAssumption, List!Depth, List!Cardinality, Cardinality,
      List!IsFiniteSet, IsFiniteSet
  <1>2. L[0] = {d} /\ \A k \in Nat : L[k + 1] = Children(L[k])
    BY LevelsAre
  <1>3. L[N] = {}
    BY DEF List!Ends
  <1>4. c \in List!CategoryIds(d) <=> c \in A
    BY DEF List!CategoryIds
  <1> HIDE DEF L, N
  <1>5. A \in SUBSET (DOMAIN Parent \cup {d})
    <2> SUFFICES ASSUME NEW k \in 0 .. N PROVE L[k] \subseteq DOMAIN Parent \cup {d}
      OBVIOUS
    <2>1. CASE k = 0
      BY <1>2, <2>1
    <2>2. CASE k # 0
      <3>1. k - 1 \in Nat /\ (k - 1) + 1 = k
        BY <1>1, <2>2
      <3>2. L[k] = Children(L[k - 1])
        BY <1>2, <3>1
      <3> QED
        BY <3>2 DEF Children
    <2> QED
      BY <2>1, <2>2
  <1>6. d \in A
    BY <1>1, <1>2
  <1>7. ASSUME NEW e \in DOMAIN Parent, Parent[e] \in A PROVE e \in A
    <2>1. PICK k \in 0 .. N : Parent[e] \in L[k]
      BY <1>7
    <2>2. k # N
      BY <1>3, <2>1
    <2>3. k \in Nat /\ k + 1 \in 0 .. N
      BY <1>1, <2>2
    <2>4. e \in L[k + 1]
      BY <1>2, <2>1, <2>3 DEF Children
    <2> QED
      BY <2>3, <2>4
  <1>8. ASSUME NEW U, d \in U, \A e \in DOMAIN Parent : Parent[e] \in U => e \in U
        PROVE  A \subseteq U
    <2> DEFINE T == {k \in Nat : ~(L[k] \subseteq U)}
    <2>1. T = {}
      <3> SUFFICES ASSUME T # {} PROVE FALSE
        OBVIOUS
      <3>1. PICK x \in T : \A y \in T : ~(y < x)
        BY Least
      <3>2. x \in Nat /\ ~(L[x] \subseteq U)
        OBVIOUS
      <3>3. x # 0
        BY <1>2, <1>8, <3>2
      <3>4. x - 1 \in Nat /\ x - 1 < x /\ (x - 1) + 1 = x
        BY <3>2, <3>3
      <3>5. L[x - 1] \subseteq U
        BY <3>1, <3>4
      <3>6. L[x] = Children(L[x - 1])
        BY <1>2, <3>4
      <3> QED
        BY <1>8, <3>2, <3>5, <3>6 DEF Children
    <2> QED
      BY <1>1, <2>1
  <1> HIDE DEF A
  <1>9. c \in A => List!Below(c, d)
    BY <1>8 DEF List!Below
  <1>10. List!Below(c, d) => c \in A
    BY <1>5, <1>6, <1>7 DEF List!Below
  <1> QED
    BY <1>4, <1>9, <1>10

(* Two ranges of ages overlap if neither ends before the other begins.     *)
LEMMA Overlap ==
  ASSUME NEW a \in Int, NEW b \in Int, NEW x \in Int, NEW y \in Int, a <= b, x <= y
  PROVE  (b >= x /\ a <= y) <=> \E n \in x .. y : n \in a .. b
  <1>1. ASSUME b >= x, a <= y PROVE \E n \in x .. y : n \in a .. b
    <2>1. CASE a <= x
      BY <1>1, <2>1
    <2>2. CASE x <= a
      BY <1>1, <2>2
    <2> QED
      BY <2>1, <2>2
  <1> QED
    BY <1>1

(* The loop over the category has ended.                                   *)
Searched == List!Shop /\ query.category # Unset => List!Ends(query.category)

(* The filter finds what the visitor asked for, whoever answers.           *)
LEMMA FilterIsExpected ==
  ASSUME List!ListingAssumption, catalogue \in Catalogues, Searched, ~List!LosesWords, ~List!Reversed
  PROVE  List!Filtered \ List!StaleStock = List!Expected \ List!StaleStock
  <1>1. CASE ~List!Shop
    BY <1>1 DEF List!Filtered, List!Expected, List!Wanted
  <1>2. CASE List!Shop
    <2>1. List!Filtered = List!ShopWhere
      BY <1>2 DEF List!Filtered
    <2>2. List!Ids \cap List!Words \subseteq List!Product
      BY DEF List!Ids, List!Words, List!rankedIds, List!bestsellerIds, List!HasWord
    <2>3. ASSUME NEW p \in List!Product, NEW r, r = catalogue[p]
          PROVE  query.category = Unset \/ r.category \in List!CategoryIds(query.category)
                   <=> query.category = Unset \/ List!Below(r.category, query.category)
      BY <1>2, CategoriesBelow DEF Searched
    <2>4. ASSUME NEW p \in List!Product, NEW r, r = catalogue[p], query.ages # Unset
          PROVE  (r.ages[2] >= query.ages[1] /\ r.ages[1] <= query.ages[2])
                   <=> \E a \in query.ages[1] .. query.ages[2] : a \in r.ages[1] .. r.ages[2]
      <3>1. r.ages \in Int \X Int /\ query.ages \in Int \X Int
        BY <1>2, <2>4 DEF List!ListingAssumption, List!Product, List!Ages, List!Shop
      <3>2. query.ages[1] <= query.ages[2] /\ r.ages[1] <= r.ages[2]
        BY <1>2, <2>4, <3>1 DEF List!Reversed
      <3> QED
        BY <3>1, <3>2, Overlap
    <2>5. ASSUME NEW p \in List!Product, NEW r, r = catalogue[p]
          PROVE  r.on => (p \in List!Ids /\ p \in List!Words
                   <=> (query.q = Unset \/ query.q \in r.words)
                       /\ (query.sort = "bestsellers" /\ List!bestsellerIds # {} => p \in List!bestsellerIds))
      <3> DEFINE best == query.sort = "bestsellers" /\ List!bestsellerIds # {}
      <3>1. CASE best
        BY <1>2, <2>5, <3>1 DEF List!Ids, List!Words, List!HasWord, List!LosesWords
      <3>2. CASE ~best /\ query.q # Unset /\ engine
        <4>1. r.rank \in Nat /\ MaxRanked \in Nat
          BY <2>5 DEF List!ListingAssumption, List!Product
        <4>2. r.on /\ query.q \in r.words => r.rank < MaxRanked
          BY <1>2, <2>5, <3>2, <4>1 DEF List!LosesWords, List!HasWord
        <4>3. p \in List!Ids <=> query.q \in r.words /\ r.on /\ r.rank < MaxRanked
          BY <2>5, <3>2 DEF List!Ids, List!rankedIds, List!HasWord
        <4>4. p \in List!Words
          BY <3>2 DEF List!Words
        <4> QED
          BY <3>2, <4>2, <4>3, <4>4
      <3>3. CASE ~best /\ ~(query.q # Unset /\ engine)
        BY <2>5, <3>3 DEF List!Ids, List!Words, List!HasWord
      <3> QED
        BY <3>1, <3>2, <3>3
    <2>6. ASSUME NEW p \in List!Product, NEW r, r = catalogue[p], p \notin List!StaleStock
          PROVE  query.inStockOnly => (r.stock > 0 <=> r.available > 0)
      BY <1>2, <2>6 DEF List!StaleStock
    <2>7. List!Filtered \subseteq List!Product /\ List!Expected \subseteq List!Product
      BY <1>2, <2>1 DEF List!ShopWhere, List!Where, List!Expected, List!Wanted
    <2>8. ASSUME NEW p \in List!Product, p \notin List!StaleStock
          PROVE  p \in List!Filtered <=> p \in List!Expected
      BY <1>2, <2>1, <2>3, <2>4, <2>5, <2>6, <2>8
      DEF List!ShopWhere, List!Where, List!Expected, List!Wanted
    <2> QED
      BY <2>7, <2>8
  <1> QED
    BY <1>1, <1>2

(* An arrangement holds each product once, and all of them.                *)
LEMMA ArrangementIsOnto ==
  ASSUME NEW S, IsFiniteSet(S), NEW s \in List!Arrangements(S)
  PROVE  /\ Cardinality(S) \in Nat /\ s \in [1 .. Cardinality(S) -> S]
         /\ \A i, j \in 1 .. Cardinality(S) : i < j => s[i] # s[j] /\ ~List!Before(s[j], s[i])
         /\ \A x \in S : \E i \in 1 .. Cardinality(S) : s[i] = x
  <1> DEFINE n == Cardinality(S)
  <1>1. n \in Nat
    BY FS_CardinalityType
  <1>2. s \in [1 .. n -> S] /\ \A i, j \in 1 .. n : i < j => s[i] # s[j] /\ ~List!Before(s[j], s[i])
    BY ListCards DEF List!Arrangements
  <1>3. Cardinality(1 .. n) = n
    <2>1. Cardinality(1 .. n) = IF 1 > n THEN 0 ELSE n - 1 + 1
      BY <1>1, FS_Interval
    <2> QED
      BY <1>1, <2>1
  <1> HIDE DEF n
  <1>4. s \in Injection(1 .. n, S)
    <2>1. \A i, j \in 1 .. n : s[i] = s[j] => i = j
      BY <1>1, <1>2
    <2> QED
      BY <1>2, <2>1 DEF Injection, IsInjective
  <1>5. s \in Surjection(1 .. n, S)
    BY <1>3, <1>4, FS_Injection DEF n
  <1>6. \A x \in S : \E i \in 1 .. n : s[i] = x
    BY <1>5 DEF Surjection
  <1> QED
    BY <1>1, <1>2, <1>6 DEF n

(* Where the order tells every two products apart, there is one only.      *)
LEMMA OneArrangement ==
  ASSUME IsFiniteSet(List!Filtered), ~List!Tied,
         NEW s \in List!Arrangements(List!Filtered), NEW t \in List!Arrangements(List!Filtered)
  PROVE  s = t
  <1> DEFINE F == List!Filtered
             n == Cardinality(F)
             D == {i \in Nat : i \in 1 .. n /\ s[i] # t[i]}
  <1>1. /\ n \in Nat /\ s \in [1 .. n -> F] /\ t \in [1 .. n -> F]
        /\ \A i, j \in 1 .. n : i < j => s[i] # s[j] /\ ~List!Before(s[j], s[i])
        /\ \A i, j \in 1 .. n : i < j => t[i] # t[j] /\ ~List!Before(t[j], t[i])
        /\ \A x \in F : \E i \in 1 .. n : s[i] = x
        /\ \A x \in F : \E i \in 1 .. n : t[i] = x
    BY ArrangementIsOnto
  <1>2. \A p, q \in F : p # q => List!Before(p, q) \/ List!Before(q, p)
    BY DEF List!Tied
  <1> HIDE DEF F, n
  <1> SUFFICES ASSUME s # t PROVE FALSE
    OBVIOUS
  <1>11. PICK x \in 1 .. n : s[x] # t[x]
    BY <1>1
  <1>12. D # {}
    <2>1. x \in Nat
      BY <1>1
    <2>2. x \in D
      BY <1>11, <2>1
    <2> QED
      BY <2>2
  <1>3. PICK i \in D : \A y \in D : ~(y < i)
    BY <1>12, Least
  <1>4. i \in 1 .. n /\ s[i] # t[i] /\ s[i] \in F /\ t[i] \in F
    BY <1>1
  <1>5. \A k \in 1 .. n : k < i => s[k] = t[k]
    BY <1>1, <1>3
  <1>6. PICK j \in 1 .. n : t[j] = s[i]
    BY <1>1, <1>4
  <1>7. PICK k \in 1 .. n : s[k] = t[i]
    BY <1>1, <1>4
  <1>8. i < j
    <2>1. i # j
      BY <1>4, <1>6
    <2>2. ~(j < i)
      <3> SUFFICES ASSUME j < i PROVE FALSE
        OBVIOUS
      <3>1. s[j] = s[i]
        BY <1>5, <1>6
      <3> QED
        BY <1>1, <1>4, <3>1
    <2> QED
      BY <1>1, <1>4, <2>1, <2>2
  <1>9. i < k
    <2>1. i # k
      BY <1>4, <1>7
    <2>2. ~(k < i)
      <3> SUFFICES ASSUME k < i PROVE FALSE
        OBVIOUS
      <3>1. t[k] = t[i]
        BY <1>5, <1>7
      <3> QED
        BY <1>1, <1>4, <3>1
    <2> QED
      BY <1>1, <1>4, <2>1, <2>2
  <1>10. ~List!Before(s[k], s[i]) /\ ~List!Before(t[j], t[i])
    BY <1>1, <1>4, <1>8, <1>9
  <1> QED
    BY <1>2, <1>4, <1>6, <1>7, <1>10

(* A page, by the place where it begins.                                   *)
LEMMA SliceFrom ==
  ASSUME NEW s, NEW k \in Nat, NEW a, NEW b, b = (k + 1) * Limit, a = (k + 1 - 1) * Limit
  PROVE  List!Slice(s, k + 1) = SubSeq(List!Cut(s, b), a + 1, Len(List!Cut(s, b)))
  <1> DEFINE m == k + 1
  <1>1. b = m * Limit /\ k + 1 = m /\ a = (m - 1) * Limit
    OBVIOUS
  <1> HIDE DEF m
  <1>2. List!Slice(s, m) = SubSeq(List!Cut(s, m * Limit), (m - 1) * Limit + 1, Len(List!Cut(s, m * Limit)))
    BY Zenon DEF List!Slice
  <1> QED
    BY <1>1, <1>2, Zenon

(* The first pages.                                                        *)
First(s, k) == SubSeq(s, 1, IF k * Limit < Len(s) THEN k * Limit ELSE Len(s))

(* Each page begins where the last one ended.                              *)
LEMMA PagesJoin ==
  ASSUME List!ListingAssumption, NEW S, NEW s \in Seq(S), NEW k \in Nat
  PROVE  /\ First(s, 0) = <<>>
         /\ First(s, k) \o List!Slice(s, k + 1) = First(s, k + 1)
  <1> DEFINE a == k * Limit
             b == (k + 1) * Limit
             u == IF a < Len(s) THEN a ELSE Len(s)
             v == IF b < Len(s) THEN b ELSE Len(s)
             c == SubSeq(s, 1, v)
  <1>1. Limit \in Nat \ {0} /\ Len(s) \in Nat
    BY DEF List!ListingAssumption
  <1>2. a \in Nat /\ b \in Nat /\ b = a + Limit /\ (k + 1 - 1) * Limit = a /\ 0 * Limit = 0
    BY <1>1
  <1>3. First(s, k) = SubSeq(s, 1, u) /\ First(s, k + 1) = c
    BY DEF First
  <1>4. First(s, 0) = <<>>
    <2>1. First(s, 0) = SubSeq(s, 1, 0)
      BY <1>1, <1>2 DEF First
    <2> QED
      BY <2>1, SubSeqEmpty
  <1>5. List!Slice(s, k + 1) = SubSeq(c, a + 1, Len(c))
    <2>1. List!Cut(s, b) = c
      BY DEF List!Cut
    <2>2. a = (k + 1 - 1) * Limit /\ b = (k + 1) * Limit
      BY <1>2
    <2> HIDE DEF a, b, c
    <2>3. List!Slice(s, k + 1) = SubSeq(List!Cut(s, b), a + 1, Len(List!Cut(s, b)))
      BY <2>2, SliceFrom
    <2> QED
      BY <2>1, <2>3
  <1> HIDE DEF a, b
  <1>6. u \in Nat /\ v \in Nat /\ u <= v /\ v <= Len(s) /\ u <= a /\ (u = v \/ u = a)
    BY <1>1, <1>2
  <1> HIDE DEF u, v
  <1>7. c \in Seq(S) /\ Len(c) = v /\ \A i \in 1 .. v : c[i] = s[i]
    <2>1. \A i \in 1 .. v : s[i] \in S
      BY <1>6
    <2>2. v >= 1 => v - 1 + 1 = v
      BY <1>6
    <2> QED
      BY <1>6, <2>1, SubSeqProperties
  <1>8. CASE u = a
    <2>1. SubSeq(s, u + 1, v) = SubSeq(c, a + 1, Len(c))
      <3>1. SubSeq(c, a + 1, v) = [i \in 1 .. v - a |-> c[i + a]]
        BY <1>2, <1>6
      <3>2. SubSeq(s, a + 1, v) = [i \in 1 .. v - a |-> s[i + a]]
        BY <1>2, <1>6
      <3>3. \A i \in 1 .. v - a : c[i + a] = s[i + a]
        BY <1>2, <1>6, <1>7
      <3> QED
        BY <1>7, <1>8, <3>1, <3>2, <3>3
    <2>2. SubSeq(s, 1, u) \o SubSeq(s, u + 1, v) = SubSeq(s, 1, v)
      BY <1>6, ConcatAdjacentSubSeq
    <2> QED
      BY <1>3, <1>4, <1>5, <2>1, <2>2
  <1>9. CASE u = v
    <2>1. SubSeq(c, a + 1, Len(c)) = <<>>
      <3>1. Len(c) < a + 1
        BY <1>2, <1>6, <1>7, <1>9
      <3> QED
        BY <1>2, <1>7, <3>1, SubSeqEmpty
    <2>2. c \o <<>> = c
      BY <1>7
    <2> QED
      BY <1>3, <1>4, <1>5, <1>9, <2>1, <2>2
  <1> QED
    BY <1>6, <1>8, <1>9

(* A part of a sequence of products is one.                                *)
LEMMA PartOf ==
  ASSUME NEW S, NEW s \in Seq(S), NEW m \in Nat \ {0}, NEW n \in Nat, n <= Len(s)
  PROVE  SubSeq(s, m, n) \in Seq(S)
  <1>1. \A i \in m .. n : s[i] \in S
    OBVIOUS
  <1> QED
    BY <1>1, SubSeqProperties

LEMMA SliceOf ==
  ASSUME List!ListingAssumption, NEW S, NEW s \in Seq(S), NEW k \in Nat \ {0} PROVE List!Slice(s, k) \in Seq(S)
  <1> DEFINE n == k * Limit
             c == List!Cut(s, n)
  <1>1. n \in Nat /\ (k - 1) * Limit + 1 \in Nat \ {0}
    BY DEF List!ListingAssumption
  <1>2. c \in Seq(S)
    <2> DEFINE last == IF n < Len(s) THEN n ELSE Len(s)
    <2>1. last \in Nat /\ last <= Len(s)
      BY <1>1
    <2> HIDE DEF last
    <2>2. SubSeq(s, 1, last) \in Seq(S)
      BY <2>1, PartOf
    <2> QED
      BY <2>2 DEF List!Cut, last
  <1>3. List!Slice(s, k) = SubSeq(c, (k - 1) * Limit + 1, Len(c))
    BY DEF List!Slice
  <1> HIDE DEF c, n
  <1>4. SubSeq(c, (k - 1) * Limit + 1, Len(c)) \in Seq(S)
    BY <1>1, <1>2, PartOf
  <1> QED
    BY <1>3, <1>4

(* Division by a positive number rounds down.                              *)
LEMMA Division ==
  ASSUME NEW a \in Int, NEW b \in Nat \ {0}
  PROVE  a \div b \in Int /\ b * (a \div b) <= a /\ a < b * (a \div b) + b
  OBVIOUS

(* The last page is behind the last product.                               *)
LEMMA LastPage ==
  ASSUME NEW n \in Nat, NEW k \in Nat, Limit \in Nat \ {0}, k >= (n + Limit - 1) \div Limit
  PROVE  k * Limit \in Nat /\ ~(k * Limit < n)
  <1> DEFINE q == (n + Limit - 1) \div Limit
  <1>1. n + Limit - 1 \in Int
    OBVIOUS
  <1>2. q \in Int /\ n + Limit - 1 < Limit * q + Limit
    BY <1>1, Division
  <1> HIDE DEF q
  <1>3. n < Limit * q + 1 /\ Limit * q \in Int
    BY <1>2
  <1>4. n <= Limit * q
    BY <1>3
  <1>5. k >= q
    BY DEF q
  <1>6. Limit * q <= Limit * k
    BY <1>2, <1>5
  <1>7. k * Limit = Limit * k /\ k * Limit \in Nat
    OBVIOUS
  <1> QED
    BY <1>3, <1>4, <1>6, <1>7

(* What a list holds, and in which order, is the same on every page.       *)
LEMMA SameList ==
  ASSUME UNCHANGED <<catalogue, offers, engine, query>>
  PROVE  /\ List!Product' = List!Product /\ List!Filtered' = List!Filtered
         /\ List!Arrangements(List!Filtered)' = List!Arrangements(List!Filtered)
         /\ (List!Tied)' <=> List!Tied
         /\ Searched' <=> Searched
  <1>1. List!Product' = List!Product /\ (List!Shop' <=> List!Shop) /\ List!bestsellerIds' = List!bestsellerIds
        /\ List!rankedIds' = List!rankedIds
    BY DEF List!Product, List!Shop, List!bestsellerIds, List!rankedIds, List!HasWord
  <1>2. List!Filtered' = List!Filtered
    <2>1. List!Ids' = List!Ids /\ List!Words' = List!Words
      BY <1>1 DEF List!Ids, List!Words, List!HasWord
    <2>2. List!ShopWhere' = List!ShopWhere
      BY <1>1, <2>1 DEF List!ShopWhere, List!Where, List!OnPromotion
    <2>3. List!DeskWhere' = List!DeskWhere
      BY <1>1 DEF List!DeskWhere, List!Where
    <2> QED
      BY <1>1, <2>2, <2>3 DEF List!Filtered
  <1>3. \A p, q : List!Before(p, q)' <=> List!Before(p, q)
    BY <1>1 DEF List!Before, List!UsesRelevance
  <1>4. List!Arrangements(List!Filtered)' = List!Arrangements(List!Filtered)
    BY <1>2, <1>3 DEF List!Arrangements
  <1>5. (List!Tied)' <=> List!Tied
    BY <1>1, <1>2, <1>3 DEF List!Tied
  <1>6. Searched' <=> Searched
    BY <1>1 DEF Searched
  <1> QED
    BY <1>1, <1>2, <1>4, <1>5, <1>6

(* The pages seen are the first of one arrangement of what fits.           *)
ListInv ==
  /\ catalogue \in Catalogues /\ List!TypeOK
  /\ leaf = 0 => seen = <<>>
  /\ leaf > 0 => total = Cardinality(List!Filtered) /\ Searched
  /\ leaf > 0 /\ ~List!Tied => \E s \in List!Arrangements(List!Filtered) : seen = First(s, leaf)

(* What fits is a finite set of products.                                  *)
LEMMA FilteredFinite ==
  ASSUME List!ListingAssumption, catalogue \in Catalogues
  PROVE  List!Filtered \subseteq List!Product /\ IsFiniteSet(List!Filtered) /\ Cardinality(List!Filtered) \in Nat
  <1>1. IsFiniteSet(List!Product)
    BY DEF List!ListingAssumption, List!Product, List!IsFiniteSet, IsFiniteSet
  <1>2. List!Filtered \subseteq List!Product
    BY DEF List!Filtered, List!ShopWhere, List!DeskWhere, List!Where
  <1> QED
    BY <1>1, <1>2, FS_Subset, FS_CardinalityType

LEMMA ListInit == ASSUME List!Init PROVE ListInv
  BY DEF List!Init, ListInv, List!TypeOK

LEMMA ListNext == ASSUME List!ListingAssumption, ListInv, [List!Next]_(List!vars) PROVE ListInv'
  <1>1. CASE List!NextPage
    <2>1. PICK s \in List!Arrangements(List!Filtered) : seen' = seen \o List!Slice(s, leaf + 1)
      BY <1>1 DEF List!NextPage
    <2>2. Cardinality(List!Filtered) \in Nat /\ List!Filtered \subseteq List!Product /\ IsFiniteSet(List!Filtered)
      BY FilteredFinite DEF ListInv
    <2>3. s \in [1 .. Cardinality(List!Filtered) -> List!Filtered]
      BY <2>1, ListCards DEF List!Arrangements
    <2>4. s \in Seq(List!Product)
      BY <2>2, <2>3
    <2>5. leaf \in Nat /\ leaf + 1 \in Nat \ {0}
      BY DEF ListInv, List!TypeOK
    <2>6. List!Slice(s, leaf + 1) \in Seq(List!Product)
      BY <2>4, <2>5, SliceOf
    <2>7. seen' \in Seq(List!Product)
      BY <2>1, <2>6 DEF ListInv, List!TypeOK
    <2>8. leaf' = leaf + 1 /\ total' = Cardinality(List!Filtered) /\ Searched
      BY <1>1, ListCards DEF List!NextPage, Searched
    <2>9. UNCHANGED <<catalogue, offers, engine, query>>
      BY <1>1 DEF List!NextPage
    <2>10. ~List!Tied => seen' = First(s, leaf + 1)
      <3> SUFFICES ASSUME ~List!Tied PROVE seen' = First(s, leaf + 1)
        OBVIOUS
      <3>1. seen = First(s, leaf)
        <4>1. CASE leaf = 0
          BY <4>1, <2>4, <2>5, PagesJoin DEF ListInv
        <4>2. CASE leaf > 0
          <5>1. PICK t \in List!Arrangements(List!Filtered) : seen = First(t, leaf)
            BY <4>2 DEF ListInv
          <5>2. s = t
            BY <2>2, OneArrangement
          <5> QED
            BY <5>1, <5>2
        <4> QED
          BY <4>1, <4>2, <2>5
      <3> QED
        BY <2>1, <2>4, <2>5, <3>1, PagesJoin
    <2>11. List!TypeOK' /\ catalogue' \in Catalogues
      <3>1. List!Product' = List!Product
        BY <2>9, SameList
      <3> QED
        BY <2>2, <2>5, <2>7, <2>8, <2>9, <3>1 DEF ListInv, List!TypeOK
    <2>12. leaf' # 0
      BY <2>5, <2>8
    <2>13. total' = Cardinality(List!Filtered)' /\ Searched'
      BY <2>8, <2>9, SameList
    <2>14. ~(List!Tied)' => \E t \in List!Arrangements(List!Filtered)' : seen' = First(t, leaf')
      BY <2>8, <2>9, <2>10, SameList
    <2> QED
      BY <2>11, <2>12, <2>13, <2>14 DEF ListInv
  <1>2. CASE UNCHANGED List!vars
    <2>1. UNCHANGED <<catalogue, offers, engine, query>> /\ UNCHANGED <<leaf, seen, total>>
      BY <1>2 DEF List!vars
    <2>2. List!TypeOK' /\ catalogue' \in Catalogues
      BY <2>1, SameList DEF ListInv, List!TypeOK
    <2>3. leaf' > 0 => total' = Cardinality(List!Filtered)' /\ Searched'
      BY <2>1, SameList DEF ListInv
    <2>4. leaf' > 0 /\ ~(List!Tied)' => \E t \in List!Arrangements(List!Filtered)' : seen' = First(t, leaf')
      BY <2>1, SameList DEF ListInv
    <2> QED
      BY <2>1, <2>2, <2>3, <2>4 DEF ListInv
  <1> QED
    BY <1>1, <1>2 DEF List!Next

(* On the last page, every match was shown once.                           *)
LEMMA ListShows == ASSUME List!ListingAssumption, ListInv PROVE List!EveryMatchOnce
  <1> SUFFICES ASSUME leaf > 0, leaf >= List!totalPages, ~List!Tied, ~List!LosesWords, ~List!Reversed
               PROVE  LET Shown == {seen[i] : i \in DOMAIN seen}
                      IN  /\ Shown \ List!StaleStock = List!Expected \ List!StaleStock
                          /\ Len(seen) = Cardinality(Shown) /\ total = Len(seen)
    BY ListCards DEF List!EveryMatchOnce
  <1> DEFINE n == Cardinality(List!Filtered)
  <1>1. n \in Nat /\ IsFiniteSet(List!Filtered) /\ leaf \in Nat /\ Limit \in Nat \ {0}
    BY FilteredFinite DEF ListInv, List!TypeOK, List!ListingAssumption
  <1>2. List!Filtered \ List!StaleStock = List!Expected \ List!StaleStock
    BY FilterIsExpected DEF ListInv
  <1>3. PICK s \in List!Arrangements(List!Filtered) : seen = First(s, leaf)
    BY DEF ListInv
  <1>4. s \in [1 .. n -> List!Filtered] /\ \A x \in List!Filtered : \E i \in 1 .. n : s[i] = x
    BY <1>1, ArrangementIsOnto
  <1>5. total = n /\ leaf >= (n + Limit - 1) \div Limit
    BY DEF ListInv, List!totalPages
  <1> HIDE DEF n
  <1>6. leaf * Limit \in Nat /\ ~(leaf * Limit < n)
    BY <1>1, <1>5, LastPage
  <1>7. s \in Seq(List!Filtered) /\ Len(s) = n
    BY <1>1, <1>4
  <1>8. seen = SubSeq(s, 1, Len(s))
    BY <1>3, <1>6, <1>7 DEF First
  <1>9. seen = s
    BY <1>7, <1>8, SubSeqFull
  <1>10. {seen[i] : i \in DOMAIN seen} = List!Filtered
    BY <1>4, <1>7, <1>9
  <1> QED
    BY <1>2, <1>5, <1>7, <1>9, <1>10 DEF n

-----------------------------------------------------------------------------
(* The whole: the part a behaviour picked keeps its invariant.             *)
ScreenKeeps == part = "screen" => ScreenInv
DoorKeeps   == part = "door" => DoorInv
ListKeeps   == part = "list" => ListInv
SitesInv == ScreenKeeps /\ DoorKeeps /\ ListKeeps

(* A step of the whole is a step of the part, or none of it.               *)
LEMMA StepOfPart ==
  ASSUME [Next]_vars
  PROVE  /\ part' = part
         /\ part = "screen" => Screen!Next \/ UNCHANGED screenVars
         /\ part = "door" => [Door!Next]_(Door!vars)
         /\ part = "list" => [List!Next]_(List!vars)
  <1>1. CASE UNCHANGED vars
    BY <1>1 DEF vars, screenVars, doorVars, listVars, Door!vars, List!vars
  <1>2. CASE ScreenStep
    BY <1>2 DEF ScreenStep
  <1>3. CASE DoorStep
    BY <1>3 DEF DoorStep
  <1>4. CASE ListStep
    BY <1>4 DEF ListStep
  <1> QED
    BY <1>1, <1>2, <1>3, <1>4 DEF Next

LEMMA SitesInit == Init => SitesInv
  <1> SUFFICES ASSUME Init PROVE SitesInv
    OBVIOUS
  <1>1. ScreenKeeps
    BY SitesAssumption, ScreenInit DEF Init, ScreenKeeps, SitesAssumption
  <1>2. DoorKeeps
    BY SitesAssumption, DoorInit DEF Init, DoorKeeps, SitesAssumption
  <1>3. ListKeeps
    BY ListInit DEF Init, ListKeeps
  <1> QED
    BY <1>1, <1>2, <1>3 DEF SitesInv

LEMMA SitesNext == SitesInv /\ [Next]_vars => SitesInv'
  <1> SUFFICES ASSUME SitesInv, [Next]_vars PROVE SitesInv'
    OBVIOUS
  <1> USE StepOfPart, SitesAssumption DEF SitesInv, SitesAssumption
  <1>1. ScreenKeeps'
    BY ScreenNext, ScreenRest DEF ScreenKeeps
  <1>2. DoorKeeps'
    BY DoorNext DEF DoorKeeps
  <1>3. ListKeeps'
    BY ListNext DEF ListKeeps
  <1> QED
    BY <1>1, <1>2, <1>3

LEMMA SitesInductive == Spec => []SitesInv
  BY SitesInit, SitesNext, PTL DEF Spec

-----------------------------------------------------------------------------
(* What a component holds, what a session may be and what a page of a      *)
(* listing is are of their types, whatever is clicked, lost or overtaken.  *)
THEOREM SitesKeepTheirTypes == Spec => []TypeOK
  <1>1. SitesInv => TypeOK
    BY ScreenTypes DEF SitesInv, ScreenKeeps, DoorKeeps, ListKeeps, DoorInv, ListInv, TypeOK
  <1> QED
    BY <1>1, SitesInductive, PTL

(* Whatever loads and writes of a component overlap, and in whatever order *)
(* their answers come: at rest, when every answer came, it shows the       *)
(* answer to its question with every change it was told of; where answers  *)
(* may overtake each other, only if one did: useSWR, mutate, cancelled     *)
(* flags and request numbers of both sites.                                *)
THEOREM ScreensShowTheTruth == Spec => []ShownIsCurrent
  <1>1. SitesInv => ShownIsCurrent
    BY ScreenShows DEF SitesInv, ScreenKeeps, ShownIsCurrent
  <1> QED
    BY <1>1, SitesInductive, PTL

(* A form that ends with its page makes its call once, and once more for   *)
(* each answer that was lost; and no button stays disabled at rest: the    *)
(* submit handlers of both sites.                                          *)
THEOREM FormsCreateOnce == Spec => []CreatedOnce
  <1>1. SitesInv => CreatedOnce
    BY ScreenCreates DEF SitesInv, ScreenKeeps, CreatedOnce
  <1> QED
    BY <1>1, SitesInductive, PTL

(* Whatever role a member has and however often his rights change: but for *)
(* three pages, only rights that changed after the screen read them make   *)
(* the API refuse it, and no visitor of the shop is refused: AdminShell,   *)
(* preloadReferenceData, PermissionsGuard and the guards of the shop.      *)
THEOREM OnlyStaleRightsAreRefused == Spec => []RefusedOnlyIfStale
  <1>1. SitesInv => RefusedOnlyIfStale
    BY DEF SitesInv, DoorKeeps, DoorInv, RefusedOnlyIfStale
  <1> QED
    BY <1>1, SitesInductive, PTL

(* However many products, categories and filters there are, and whether    *)
(* the engine answers or not: whoever leafs through to the last page has   *)
(* seen every product that fits his filters and no other, once, where the  *)
(* order tells products apart and the engine's filter is not lost: list,   *)
(* listForAdmin. Of "in stock", nothing is said of a product whose         *)
(* Product.stock does not tell whether it can be bought.                   *)
THEOREM EveryMatchIsShownOnce == Spec => []EveryMatchOnce
  <1>1. SitesInv => EveryMatchOnce
    BY SitesAssumption, ListShows DEF SitesAssumption, SitesInv, ListKeeps, EveryMatchOnce
  <1> QED
    BY <1>1, SitesInductive, PTL
=============================================================================

------------------------------ MODULE Pictures ------------------------------
(***************************************************************************)
(* The pictures of a product and of the home page: rows in the database,   *)
(* files in the storage, and no transaction across the two. A picture is   *)
(* named after the request that uploads it.                                *)
(***************************************************************************)
EXTENDS Naturals, FiniteSets, Sequences

CONSTANTS
  Request,
  Wish,        \* what a request is: [op, picture, list]
  Old,         \* pictures there are at first
  MaxFailures, \* bound: calls that fail
  NotShown     \* a picture no row names

VARIABLES
  order,    \* ProductImage.order of each picture that has a row
  banners,  \* the picture of each HeroBanner, named after the request that creates it
  files,    \* the storage: <<picture, "full" or "thumb">>
  pc,
  next,     \* the order an addition computed
  failures,
  spoilt    \* history: pictures a call failed for

vars == <<order, banners, files, pc, next, failures, spoilt>>

Picture == Request \cup Old

PicturesAssumption ==
  /\ Request \cap Old = {}
  /\ NotShown \notin Picture \cup Nat
  /\ MaxFailures \in Nat
  /\ \A r \in Request :
       /\ Wish[r].op \in {"add", "remove", "reorder", "banner", "rebanner", "unbanner"}
       /\ Wish[r].op = "remove" => Wish[r].picture \in Picture
       /\ Wish[r].op \in {"rebanner", "unbanner"} => Wish[r].picture \in Request
       /\ Wish[r].list \in Seq(Picture)

Full(x)  == <<x, "full">>
Thumb(x) == <<x, "thumb">>
Pair(x)  == {Full(x), Thumb(x)}
Rows     == {x \in DOMAIN order : order[x] # NotShown}
Shown    == {x \in Request : \E b \in Request : banners[b] = x}

Goto(r, label) == pc' = [pc EXCEPT ![r] = label]
Over(r)  == pc[r] \in {"done", "failed"}
At(r, label) == pc[r] = label
Target(r) == Wish[r].picture

Init ==
  /\ order = [x \in Picture |-> IF x \in Old THEN 0 ELSE NotShown]
  /\ banners = [x \in Request |-> NotShown]
  /\ files = UNION {Pair(x) : x \in Old}
  /\ pc = [r \in Request |-> "start"]
  /\ next = [r \in Request |-> 0]
  /\ failures = 0 /\ spoilt = {}

Fail(r, x, label) ==
  /\ failures < MaxFailures
  /\ failures' = failures + 1
  /\ spoilt' = spoilt \cup {x}
  /\ Goto(r, label)
  /\ UNCHANGED <<order, banners, files, next>>

Step(r, label) == Goto(r, label) /\ UNCHANGED <<failures, spoilt>>

-----------------------------------------------------------------------------
(* processAndUpload: the picture, then its thumbnail. Nothing takes the    *)
(* first back when the second fails.                                       *)
MayUpload(r) == Wish[r].op \in {"add", "banner"} \/ (Wish[r].op = "rebanner" /\ banners[Target(r)] # NotShown)

UploadFull(r) ==
  /\ At(r, "start") /\ MayUpload(r)
  /\ \/ /\ files' = files \cup {Full(r)}
        /\ Step(r, "thumb")
        /\ UNCHANGED <<order, banners, next>>
     \/ Fail(r, r, "failed")

UploadThumb(r) ==
  /\ At(r, "thumb")
  /\ \/ /\ files' = files \cup {Thumb(r)}
        /\ Step(r, IF Wish[r].op = "add" THEN "max" ELSE "save")
        /\ UNCHANGED <<order, banners, next>>
     \/ Fail(r, r, "failed")

(* addImage: the last place is read, then the row inserted.                *)
MaxOrder(r) ==
  /\ At(r, "max")
  /\ next' = [next EXCEPT ![r] = IF Rows = {} THEN 0
                                 ELSE 1 + CHOOSE n \in {order[x] : x \in Rows} : \A x \in Rows : order[x] <= n]
  /\ Step(r, "insert")
  /\ UNCHANGED <<order, banners, files>>

InsertRow(r) ==
  /\ At(r, "insert")
  /\ \/ /\ order' = [order EXCEPT ![r] = next[r]]
        /\ Step(r, "done")
        /\ UNCHANGED <<banners, files, next>>
     \/ Fail(r, r, "undo")

(* The compensation: the key it has is the one of the full picture.        *)
Undo(r) ==
  /\ At(r, "undo")
  /\ \/ /\ files' = files \ {Full(r)}
        /\ Step(r, "failed")
        /\ UNCHANGED <<order, banners, next>>
     \/ Fail(r, r, "failed")

-----------------------------------------------------------------------------
(* The files go before the row.                                            *)
MutFirstStep == "full"

(* removeImage: the row goes first.                                        *)
FirstStep == "row"

FindImage(r) ==
  /\ At(r, "start") /\ Wish[r].op = "remove"
  /\ Step(r, IF Target(r) \in Rows THEN FirstStep ELSE "failed")
  /\ UNCHANGED <<order, banners, files, next>>

DeleteRow(r) ==
  /\ At(r, "row")
  /\ \/ /\ Target(r) \in Rows
        /\ order' = [order EXCEPT ![Target(r)] = NotShown]
        /\ Step(r, "full")
        /\ UNCHANGED <<banners, files, next>>
     \/ /\ Target(r) \notin Rows
        /\ Step(r, "failed")
        /\ UNCHANGED <<order, banners, files, next>>

(* ... then the two files, a failure being ignored.                        *)
DeleteFull(r) ==
  /\ At(r, "full")
  /\ \/ /\ files' = files \ {Full(Target(r))}
        /\ Step(r, "small")
        /\ UNCHANGED <<order, banners, next>>
     \/ Fail(r, Target(r), "small")

(* The thumbnail is forgotten.                                             *)
MutThumbOf(x) == {}

(* The key of the thumbnail is made from the key of the picture.           *)
ThumbOf(x) == {Thumb(x)}

DeleteThumb(r) ==
  /\ At(r, "small")
  /\ \/ /\ files' = files \ ThumbOf(Target(r))
        /\ Step(r, "done")
        /\ UNCHANGED <<order, banners, next>>
     \/ Fail(r, Target(r), "done")

(* reorderImages, in one transaction: a picture that is gone, or came      *)
(* since the list was read, is left alone.                                 *)
Reorder(r) ==
  LET list == Wish[r].list
  IN  /\ At(r, "start") /\ Wish[r].op = "reorder"
      /\ order' = [x \in DOMAIN order |->
                     IF x \in Rows /\ \E i \in DOMAIN list : list[i] = x
                     THEN (CHOOSE i \in DOMAIN list : list[i] = x) - 1
                     ELSE order[x]]
      /\ Step(r, "done")
      /\ UNCHANGED <<banners, files, next>>

-----------------------------------------------------------------------------
(* HeroBannersService.create and update: an update names the new picture,  *)
(* a removal none; neither deletes the files of the old one.               *)
SaveBanner(r) ==
  LET b == IF Wish[r].op = "banner" THEN r ELSE Target(r)
  IN  /\ At(r, "save")
      /\ \/ /\ b = r \/ banners[b] # NotShown
            /\ banners' = [banners EXCEPT ![b] = r]
            /\ Step(r, "done")
            /\ UNCHANGED <<order, files, next>>
         \/ Fail(r, r, "failed")
         \/ /\ b # r /\ banners[b] = NotShown
            /\ Step(r, "failed")
            /\ UNCHANGED <<order, banners, files, next>>

(* remove, and an update that finds no banner.                             *)
RemoveBanner(r) ==
  /\ At(r, "start") /\ Wish[r].op \in {"rebanner", "unbanner"}
  /\ \/ /\ Wish[r].op = "unbanner" /\ banners[Target(r)] # NotShown
        /\ banners' = [banners EXCEPT ![Target(r)] = NotShown]
        /\ Step(r, "done")
     \/ /\ banners[Target(r)] = NotShown
        /\ Step(r, "failed")
        /\ UNCHANGED banners
  /\ UNCHANGED <<order, files, next>>

Rest == (\A r \in Request : Over(r)) /\ UNCHANGED vars

Next ==
  \/ \E r \in Request :
       \/ UploadFull(r) \/ UploadThumb(r) \/ MaxOrder(r) \/ InsertRow(r) \/ Undo(r)
       \/ FindImage(r) \/ DeleteRow(r) \/ DeleteFull(r) \/ DeleteThumb(r) \/ Reorder(r)
       \/ SaveBanner(r) \/ RemoveBanner(r)
  \/ Rest

Spec == Init /\ [][Next]_vars

-----------------------------------------------------------------------------
TypeOK ==
  /\ order \in [Picture -> Nat \cup {NotShown}]
  /\ banners \in [Request -> Request \cup {NotShown}]
  /\ files \subseteq Picture \X {"full", "thumb"}
  /\ pc \in [Request -> {"start", "thumb", "max", "insert", "undo", "row", "full", "small", "save",
                         "done", "failed"}]
  /\ next \in [Request -> Nat]
  /\ failures \in 0 .. MaxFailures /\ spoilt \subseteq Picture

(* No product page shows a picture whose file is gone, whatever failed and *)
(* whoever removes it meanwhile.                                           *)
RowsHaveFiles == \A x \in Rows \cup Shown : Pair(x) \subseteq files

(* A file nothing names is one a call failed for, one on its way in or     *)
(* out, or the picture of a banner that was replaced or removed, whose     *)
(* files are never deleted.                                                *)
OrphansExplained ==
  \A f \in files :
    \/ f[1] \in Rows \cup Shown \cup spoilt
    \/ f[1] \in Request /\ (~Over(f[1]) \/ Wish[f[1]].op # "add")
    \/ \E r \in Request : Wish[r].op = "remove" /\ Target(r) = f[1] /\ ~Over(r)
=============================================================================

-------------------------- MODULE BackOfficeProofs --------------------------
(***************************************************************************)
(* Proofs about BackOffice, for every value of its constants: the          *)
(* pictures, for any requests that overlap and any calls that fail; the    *)
(* products and their documents, for any requests, refusals and restarts;  *)
(* the price engine and the amounts of a checkout, for any prices.         *)
(***************************************************************************)
EXTENDS BackOffice, Integers, Sequences, TLAPS, NaturalsInduction, WellFoundedInduction

-----------------------------------------------------------------------------
(* Pictures.                                                               *)

Uploading == {"add", "banner", "rebanner"}
Leaver(r) == imagePc[r] \in {"full", "small"}

(* An upload has its files before its row or its banner, and neither       *)
(* before it is done.                                                      *)
UploadInv ==
  \A r \in ImageRequest :
    /\ imagePc[r] # "done" => r \notin Image!Rows \cup Image!Shown
    /\ r \in Image!Rows => Wish[r].op = "add"
    /\ r \in Image!Shown => Wish[r].op \in {"banner", "rebanner"}
    /\ imagePc[r] = "thumb" => Wish[r].op \in Uploading /\ Image!Full(r) \in files
    /\ imagePc[r] \in {"max", "insert"} => Wish[r].op = "add" /\ Image!Pair(r) \subseteq files
    /\ imagePc[r] = "save" => Wish[r].op \in {"banner", "rebanner"} /\ Image!Pair(r) \subseteq files
    /\ imagePc[r] = "undo" => Wish[r].op = "add" /\ r \in spoilt
    /\ imagePc[r] = "failed" /\ Wish[r].op = "add" => r \in spoilt

(* A removal deletes files only of a picture whose row it has deleted, and *)
(* that no request can show again.                                         *)
RemovalInv ==
  \A r \in ImageRequest :
    /\ imagePc[r] \in {"row", "full", "small"} => Wish[r].op = "remove"
    /\ Leaver(r) =>
         LET x == Image!Target(r)
         IN  /\ x \notin Image!Rows
             /\ x \in ImageRequest => Wish[x].op = "add" /\ imagePc[x] = "done"
             /\ imagePc[r] = "small" => x \in spoilt \/ Image!Full(x) \notin files

(* OrphansExplained, with what the removals are about to delete.           *)
OrphanInv ==
  \A f \in files :
    \/ f[1] \in Image!Rows \cup Image!Shown \cup spoilt
    \/ f[1] \in ImageRequest /\ (~Image!Over(f[1]) \/ Wish[f[1]].op # "add")
    \/ \E r \in ImageRequest : Leaver(r) /\ Image!Target(r) = f[1]

(* The places of a list are bounded, so an addition finds the last one.    *)
PlacesInv == \E m \in Nat : \A x \in Image!Rows : order[x] <= m

ImageInv ==
  Image!TypeOK /\ PlacesInv /\ UploadInv /\ RemovalInv /\ OrphanInv /\ Image!RowsHaveFiles

-----------------------------------------------------------------------------
(* What a step of a request does, as far as pictures are concerned.        *)
ImageStepOf(r) ==
  \/ Image!UploadFull(r) \/ Image!UploadThumb(r) \/ Image!MaxOrder(r) \/ Image!InsertRow(r)
  \/ Image!Undo(r) \/ Image!FindImage(r) \/ Image!DeleteRow(r) \/ Image!DeleteFull(r)
  \/ Image!DeleteThumb(r) \/ Image!Reorder(r) \/ Image!SaveBanner(r) \/ Image!RemoveBanner(r)

Goes(r, a, b) == imagePc[r] = a /\ imagePc'[r] = b

(* It looks, or arranges the rows.                                         *)
Looks(r) ==
  /\ Image!Rows' = Image!Rows /\ Image!Shown' = Image!Shown /\ UNCHANGED <<files, spoilt>>
  /\ \/ Goes(r, "max", "insert")
     \/ Wish[r].op = "remove" /\ Goes(r, "start", "row")
     \/ Wish[r].op # "add" /\ (Goes(r, "start", "failed") \/ Goes(r, "start", "done"))
     \/ Goes(r, "row", "failed") \/ Goes(r, "save", "failed")

Uploads(r) ==
  /\ Image!Rows' = Image!Rows /\ Image!Shown' = Image!Shown /\ UNCHANGED spoilt
  /\ \/ /\ Wish[r].op \in Uploading /\ Goes(r, "start", "thumb")
        /\ files' = files \cup {Image!Full(r)}
     \/ /\ Goes(r, "thumb", IF Wish[r].op = "add" THEN "max" ELSE "save")
        /\ files' = files \cup {Image!Thumb(r)}

Inserts(r) ==
  /\ Goes(r, "insert", "done")
  /\ Image!Rows' = Image!Rows \cup {r} /\ Image!Shown' = Image!Shown /\ UNCHANGED <<files, spoilt>>

Undoes(r) ==
  /\ Goes(r, "undo", "failed") /\ files' = files \ {Image!Full(r)}
  /\ Image!Rows' = Image!Rows /\ Image!Shown' = Image!Shown /\ UNCHANGED spoilt

Removes(r) ==
  /\ Goes(r, "row", "full") /\ Image!Target(r) \in Image!Rows
  /\ Image!Rows' = Image!Rows \ {Image!Target(r)} /\ Image!Shown' = Image!Shown
  /\ UNCHANGED <<files, spoilt>>

Deletes(r) ==
  /\ Image!Rows' = Image!Rows /\ Image!Shown' = Image!Shown /\ UNCHANGED spoilt
  /\ \/ Goes(r, "full", "small") /\ files' = files \ {Image!Full(Image!Target(r))}
     \/ Goes(r, "small", "done") /\ files' = files \ {Image!Thumb(Image!Target(r))}

(* A banner takes its picture, or goes.                                    *)
Shows(r) ==
  /\ Image!Rows' = Image!Rows /\ UNCHANGED <<files, spoilt>>
  /\ \/ Goes(r, "save", "done") /\ Image!Shown' \subseteq Image!Shown \cup {r}
     \/ Wish[r].op # "add" /\ Goes(r, "start", "done") /\ Image!Shown' \subseteq Image!Shown

Spoils(r) ==
  /\ Image!Rows' = Image!Rows /\ Image!Shown' = Image!Shown /\ UNCHANGED files
  /\ \/ /\ spoilt' = spoilt \cup {r}
        /\ \/ Goes(r, "start", "failed") \/ Goes(r, "thumb", "failed") \/ Goes(r, "insert", "undo")
           \/ Goes(r, "undo", "failed") \/ Goes(r, "save", "failed")
     \/ /\ spoilt' = spoilt \cup {Image!Target(r)}
        /\ Goes(r, "full", "small") \/ Goes(r, "small", "done")

LEMMA RowsAre ==
  ASSUME Image!TypeOK
  PROVE  Image!Rows = {x \in Image!Picture : order[x] # NotShown}
  BY DEF Image!TypeOK, Image!Rows

LEMMA ImageSteps ==
  ASSUME Image!PicturesAssumption, Image!TypeOK, UploadInv, NEW r \in ImageRequest, ImageStepOf(r)
  PROVE  /\ \A q \in ImageRequest \ {r} : imagePc'[q] = imagePc[q]
         /\ \/ Looks(r) \/ Uploads(r) \/ Inserts(r) \/ Undoes(r)
            \/ Removes(r) \/ Deletes(r) \/ Shows(r) \/ Spoils(r)
  <1> USE DEF Goes
  <1>0. \A q \in ImageRequest \ {r} : imagePc'[q] = imagePc[q]
    BY DEF ImageStepOf, Image!UploadFull, Image!UploadThumb, Image!MaxOrder, Image!InsertRow,
           Image!Undo, Image!FindImage, Image!DeleteRow, Image!DeleteFull, Image!DeleteThumb,
           Image!Reorder, Image!SaveBanner, Image!RemoveBanner, Image!Fail, Image!Step, Image!Goto,
           Image!TypeOK
  <1> SUFFICES \/ Looks(r) \/ Uploads(r) \/ Inserts(r) \/ Undoes(r)
               \/ Removes(r) \/ Deletes(r) \/ Shows(r) \/ Spoils(r)
    BY <1>0
  <1>1. UNCHANGED order => Image!Rows' = Image!Rows
    BY DEF Image!Rows
  <1>2. UNCHANGED banners => Image!Shown' = Image!Shown
    BY DEF Image!Shown
  <1>3. ASSUME NEW x, NEW b, Image!Fail(r, x, b), NEW a, Image!At(r, a)
        PROVE  /\ Goes(r, a, b) /\ spoilt' = spoilt \cup {x} /\ UNCHANGED files
               /\ Image!Rows' = Image!Rows /\ Image!Shown' = Image!Shown
    BY <1>1, <1>2, <1>3 DEF Image!Fail, Image!Goto, Image!At, Image!TypeOK
  <1>4. ASSUME NEW b, Image!Step(r, b), NEW a, Image!At(r, a)
        PROVE  Goes(r, a, b) /\ UNCHANGED spoilt
    BY <1>4 DEF Image!Step, Image!Goto, Image!At, Image!TypeOK
  <1>5. CASE Image!UploadFull(r)
    <2>1. Image!Fail(r, r, "failed") => Spoils(r)
      BY <1>3, <1>5 DEF Image!UploadFull, Spoils
    <2>2. ~Image!Fail(r, r, "failed") => Uploads(r)
      BY <1>1, <1>2, <1>4, <1>5 DEF Image!UploadFull, Image!MayUpload, Uploads, Uploading
    <2> QED
      BY <2>1, <2>2
  <1>6. CASE Image!UploadThumb(r)
    <2>1. Image!Fail(r, r, "failed") => Spoils(r)
      BY <1>3, <1>6 DEF Image!UploadThumb, Spoils
    <2>2. ~Image!Fail(r, r, "failed") => Uploads(r)
      BY <1>1, <1>2, <1>4, <1>6 DEF Image!UploadThumb, Uploads
    <2> QED
      BY <2>1, <2>2
  <1>7. CASE Image!MaxOrder(r)
    BY <1>1, <1>2, <1>4, <1>7 DEF Image!MaxOrder, Looks
  <1>8. CASE Image!InsertRow(r)
    <2>1. Image!Fail(r, r, "undo") => Spoils(r)
      BY <1>3, <1>8 DEF Image!InsertRow, Spoils
    <2>2. ASSUME ~Image!Fail(r, r, "undo") PROVE Inserts(r)
      <3>1. /\ order' = [order EXCEPT ![r] = next[r]] /\ Image!Step(r, "done")
            /\ UNCHANGED <<banners, files, next>> /\ Image!At(r, "insert")
        BY <1>8, <2>2 DEF Image!InsertRow
      <3>2. next[r] # NotShown /\ r \in Image!Picture
        BY DEF Image!TypeOK, Image!PicturesAssumption, Image!Picture
      <3>3. Image!Rows' = Image!Rows \cup {r}
        BY <3>1, <3>2 DEF Image!Rows, Image!TypeOK
      <3> QED
        BY <1>2, <1>4, <3>1, <3>3 DEF Inserts, Image!Step
    <2> QED
      BY <2>1, <2>2
  <1>9. CASE Image!Undo(r)
    <2>1. Image!Fail(r, r, "failed") => Spoils(r)
      BY <1>3, <1>9 DEF Image!Undo, Spoils
    <2>2. ~Image!Fail(r, r, "failed") => Undoes(r)
      BY <1>1, <1>2, <1>4, <1>9 DEF Image!Undo, Undoes
    <2> QED
      BY <2>1, <2>2
  <1>10. CASE Image!FindImage(r)
    BY <1>1, <1>2, <1>4, <1>10 DEF Image!FindImage, Image!FirstStep, Looks
  <1>11. CASE Image!DeleteRow(r)
    <2>1. CASE Image!Target(r) \in Image!Rows
      <3>1. /\ order' = [order EXCEPT ![Image!Target(r)] = NotShown] /\ Image!Step(r, "full")
            /\ UNCHANGED <<banners, files, next>> /\ Image!At(r, "row")
        BY <1>11, <2>1 DEF Image!DeleteRow
      <3>2. Image!Rows' = Image!Rows \ {Image!Target(r)}
        BY <2>1, <3>1 DEF Image!Rows, Image!TypeOK
      <3> QED
        BY <1>2, <1>4, <2>1, <3>1, <3>2 DEF Removes
    <2>2. CASE Image!Target(r) \notin Image!Rows
      BY <1>1, <1>2, <1>4, <1>11, <2>2 DEF Image!DeleteRow, Looks
    <2> QED
      BY <2>1, <2>2
  <1>12. CASE Image!DeleteFull(r)
    <2>1. Image!Fail(r, Image!Target(r), "small") => Spoils(r)
      BY <1>3, <1>12 DEF Image!DeleteFull, Spoils
    <2>2. ~Image!Fail(r, Image!Target(r), "small") => Deletes(r)
      BY <1>1, <1>2, <1>4, <1>12 DEF Image!DeleteFull, Deletes
    <2> QED
      BY <2>1, <2>2
  <1>13. CASE Image!DeleteThumb(r)
    <2>1. Image!Fail(r, Image!Target(r), "done") => Spoils(r)
      BY <1>3, <1>13 DEF Image!DeleteThumb, Spoils
    <2>2. ~Image!Fail(r, Image!Target(r), "done") => Deletes(r)
      BY <1>1, <1>2, <1>4, <1>13 DEF Image!DeleteThumb, Image!ThumbOf, Deletes
    <2> QED
      BY <2>1, <2>2
  <1>14. CASE Image!Reorder(r)
    <2> DEFINE list == Wish[r].list
               listed(x) == \E i \in DOMAIN list : list[i] = x
               place(x)  == CHOOSE i \in DOMAIN list : list[i] = x
    <2>1. ASSUME NEW x, listed(x) PROVE place(x) - 1 \in Nat
      <3>1. list \in Seq(Image!Picture)
        BY DEF Image!PicturesAssumption
      <3>2. place(x) \in 1 .. Len(list)
        BY <2>1, <3>1
      <3> QED
        BY <3>1, <3>2
    <2>2. order' = [x \in DOMAIN order |-> IF x \in Image!Rows /\ listed(x) THEN place(x) - 1 ELSE order[x]]
      BY <1>14 DEF Image!Reorder
    <2> HIDE DEF list, place, listed
    <2>3. Image!Rows' = Image!Rows
      BY <2>1, <2>2 DEF Image!Rows, Image!PicturesAssumption
    <2> QED
      BY <1>2, <1>4, <1>14, <2>3 DEF Image!Reorder, Looks
  <1>15. CASE Image!SaveBanner(r)
    <2> DEFINE b == IF Wish[r].op = "banner" THEN r ELSE Image!Target(r)
    <2>1. CASE Image!Fail(r, r, "failed")
      BY <1>3, <1>15, <2>1 DEF Image!SaveBanner, Spoils
    <2>2. CASE banners' = [banners EXCEPT ![b] = r] /\ Image!Step(r, "done") /\ UNCHANGED <<order, files, next>>
      <3>1. Image!Shown' \subseteq Image!Shown \cup {r}
        BY <2>2 DEF Image!Shown, Image!TypeOK
      <3> QED
        BY <1>1, <1>4, <1>15, <2>2, <3>1 DEF Image!SaveBanner, Shows
    <2>3. CASE /\ Wish[r].op # "banner" /\ Image!Step(r, "failed") /\ UNCHANGED <<order, banners, files, next>>
      BY <1>1, <1>2, <1>4, <1>15, <2>3 DEF Image!SaveBanner, Looks
    <2> QED
      BY <1>15, <2>1, <2>2, <2>3 DEF Image!SaveBanner
  <1>16. CASE Image!RemoveBanner(r)
    <2>1. CASE banners' = [banners EXCEPT ![Image!Target(r)] = NotShown] /\ Image!Step(r, "done")
      <3>1. NotShown \notin ImageRequest
        BY DEF Image!PicturesAssumption, Image!Picture
      <3>2. Image!Shown' \subseteq Image!Shown
        BY <2>1, <3>1 DEF Image!Shown, Image!TypeOK
      <3> QED
        BY <1>1, <1>4, <1>16, <2>1, <3>2 DEF Image!RemoveBanner, Shows
    <2>2. CASE Image!Step(r, "failed") /\ UNCHANGED banners
      BY <1>1, <1>2, <1>4, <1>16, <2>2 DEF Image!RemoveBanner, Looks
    <2> QED
      BY <1>16, <2>1, <2>2 DEF Image!RemoveBanner
  <1> QED
    BY <1>5, <1>6, <1>7, <1>8, <1>9, <1>10, <1>11, <1>12, <1>13, <1>14, <1>15, <1>16
    DEF ImageStepOf

(* The pictures there are, and what an upload has when another request     *)
(* takes a step.                                                           *)
ImageEffect(r) ==
  /\ \A q \in ImageRequest \ {r} : imagePc'[q] = imagePc[q]
  /\ \/ Looks(r) \/ Uploads(r) \/ Inserts(r) \/ Undoes(r)
     \/ Removes(r) \/ Deletes(r) \/ Shows(r) \/ Spoils(r)

LEMMA UploadStep ==
  ASSUME UploadInv, RemovalInv, NEW r \in ImageRequest, ImageEffect(r)
  PROVE  UploadInv'
  <1> DEFINE Kept(q) == 
               /\ imagePc'[q] # "done" => q \notin Image!Rows' \cup Image!Shown'
               /\ q \in Image!Rows' => Wish[q].op = "add"
               /\ q \in Image!Shown' => Wish[q].op \in {"banner", "rebanner"}
             Ready(q) ==
               /\ imagePc'[q] = "thumb" => Wish[q].op \in Uploading /\ Image!Full(q) \in files'
               /\ imagePc'[q] \in {"max", "insert"} => Wish[q].op = "add" /\ Image!Pair(q) \subseteq files'
               /\ imagePc'[q] = "save" => Wish[q].op \in {"banner", "rebanner"} /\ Image!Pair(q) \subseteq files'
             Undone(q) ==
               /\ imagePc'[q] = "undo" => Wish[q].op = "add" /\ q \in spoilt'
               /\ imagePc'[q] = "failed" /\ Wish[q].op = "add" => q \in spoilt'
  <1> USE DEF Goes
  <1>1. ASSUME NEW q \in ImageRequest PROVE Kept(q)
    BY DEF UploadInv, RemovalInv, Leaver, ImageEffect, Looks, Uploads, Inserts, Undoes, Removes,
           Deletes, Shows, Spoils, Uploading
  <1>2. ASSUME NEW q \in ImageRequest PROVE Ready(q)
    <2>1. CASE q = r
      BY <2>1 DEF UploadInv, RemovalInv, ImageEffect, Looks, Uploads, Inserts, Undoes, Removes,
                  Deletes, Shows, Spoils, Uploading, Image!Pair
    <2>2. CASE q # r
      <3>1. ASSUME NEW s \in {"full", "thumb"}, <<q, s>> \in files, imagePc[q] # "done"
            PROVE  <<q, s>> \in files'
        <4>1. Leaver(r) => Image!Target(r) # q
          BY <3>1 DEF RemovalInv
        <4>2. Deletes(r) => Leaver(r)
          BY DEF Deletes, Leaver
        <4> QED
          BY <2>2, <3>1, <4>1, <4>2 DEF ImageEffect, Looks, Uploads, Inserts, Undoes, Removes,
                                        Deletes, Shows, Spoils, Image!Full, Image!Thumb
      <3>2. imagePc'[q] = imagePc[q]
        BY <2>2 DEF ImageEffect
      <3> QED
        BY <3>1, <3>2 DEF UploadInv, Image!Pair, Image!Full, Image!Thumb
    <2> QED
      BY <2>1, <2>2
  <1>3. ASSUME NEW q \in ImageRequest PROVE Undone(q)
    BY DEF UploadInv, RemovalInv, ImageEffect, Looks, Uploads, Inserts, Undoes, Removes,
           Deletes, Shows, Spoils, Uploading
  <1> QED
    BY <1>1, <1>2, <1>3 DEF UploadInv

LEMMA RemovalStep ==
  ASSUME UploadInv, RemovalInv, NEW r \in ImageRequest, ImageEffect(r)
  PROVE  RemovalInv'
  <1> USE DEF Goes, Leaver
  <1>1. ASSUME NEW q \in ImageRequest PROVE imagePc'[q] \in {"row", "full", "small"} => Wish[q].op = "remove"
    BY DEF RemovalInv, ImageEffect, Looks, Uploads, Inserts, Undoes, Removes, Deletes, Shows, Spoils
  <1>2. ASSUME NEW q \in ImageRequest, imagePc'[q] \in {"full", "small"}, NEW x, x = Image!Target(q)
        PROVE  /\ x \notin Image!Rows'
               /\ x \in ImageRequest => Wish[x].op = "add" /\ imagePc'[x] = "done"
               /\ imagePc'[q] = "small" => x \in spoilt' \/ Image!Full(x) \notin files'
    <2>1. CASE q = r
      <3>1. CASE Removes(r)
        BY <1>2, <2>1, <3>1 DEF Removes, UploadInv, ImageEffect
      <3>2. CASE ~Removes(r)
        <4>1. Leaver(r) /\ imagePc'[r] = "small" /\ Image!Rows' = Image!Rows
          BY <1>2, <2>1, <3>2 DEF ImageEffect, Looks, Uploads, Inserts, Undoes, Removes, Deletes,
                                  Shows, Spoils
        <4>2. x \in spoilt' \/ Image!Full(x) \notin files'
          BY <1>2, <2>1, <3>2, <4>1 DEF ImageEffect, Looks, Uploads, Inserts, Undoes, Removes, Deletes,
                                  Shows, Spoils
        <4>3. x \in ImageRequest => Wish[x].op = "add" /\ imagePc[x] = "done" /\ x # r
          BY <1>2, <2>1, <4>1 DEF RemovalInv
        <4>4. x \notin Image!Rows
          BY <1>2, <2>1, <4>1 DEF RemovalInv
        <4> QED
          BY <2>1, <4>1, <4>2, <4>3, <4>4 DEF ImageEffect
      <3> QED
        BY <3>1, <3>2
    <2>2. CASE q # r
      <3>1. /\ Leaver(q) /\ imagePc'[q] = imagePc[q]
            /\ x \notin Image!Rows
            /\ x \in ImageRequest => Wish[x].op = "add" /\ imagePc[x] = "done"
            /\ imagePc[q] = "small" => x \in spoilt \/ Image!Full(x) \notin files
        BY <1>2, <2>2 DEF ImageEffect, RemovalInv
      <3>2. imagePc[r] # "done"
        BY DEF ImageEffect, Looks, Uploads, Inserts, Undoes, Removes, Deletes, Shows, Spoils
      <3>3. x # r
        BY <3>1, <3>2
      <3>4. x \notin Image!Rows'
        BY <3>1, <3>3 DEF ImageEffect, Looks, Uploads, Inserts, Undoes, Removes, Deletes, Shows, Spoils
      <3>5. Image!Full(x) \notin files => Image!Full(x) \notin files'
        BY <3>3 DEF ImageEffect, Looks, Uploads, Inserts, Undoes, Removes, Deletes, Shows, Spoils,
                    Image!Full, Image!Thumb
      <3>6. x \in spoilt => x \in spoilt'
        BY DEF ImageEffect, Looks, Uploads, Inserts, Undoes, Removes, Deletes, Shows, Spoils
      <3> QED
        BY <3>1, <3>3, <3>4, <3>5, <3>6 DEF ImageEffect
    <2> QED
      BY <2>1, <2>2
  <1> QED
    BY <1>1, <1>2 DEF RemovalInv

LEMMA RowsHaveFilesStep ==
  ASSUME UploadInv, RemovalInv, Image!RowsHaveFiles, NEW r \in ImageRequest, ImageEffect(r)
  PROVE  Image!RowsHaveFiles'
  <1> SUFFICES ASSUME NEW x \in Image!Rows' \cup Image!Shown', NEW s \in {"full", "thumb"}
               PROVE  <<x, s>> \in files'
    BY DEF Image!RowsHaveFiles, Image!Pair, Image!Full, Image!Thumb
  <1> USE DEF Goes
  <1>1. CASE x = r
    <2>1. <<x, s>> \in files
      BY <1>1 DEF UploadInv, Image!RowsHaveFiles, ImageEffect, Looks, Uploads, Inserts, Undoes,
                  Removes, Deletes, Shows, Spoils, Image!Pair, Image!Full, Image!Thumb
    <2> QED
      BY <1>1, <2>1 DEF UploadInv, RemovalInv, Leaver, ImageEffect, Looks, Uploads, Inserts, Undoes,
                  Removes, Deletes, Shows, Spoils, Image!Full, Image!Thumb
  <1>2. CASE x # r
    <2>1. x \in Image!Rows \cup Image!Shown
      BY <1>2 DEF ImageEffect, Looks, Uploads, Inserts, Undoes, Removes, Deletes, Shows, Spoils
    <2>2. <<x, s>> \in files
      BY <2>1 DEF Image!RowsHaveFiles, Image!Pair, Image!Full, Image!Thumb
    <2>3. Leaver(r) => x # Image!Target(r)
      BY <2>1 DEF RemovalInv, UploadInv, Image!Shown
    <2> QED
      BY <1>2, <2>2, <2>3 DEF Leaver, ImageEffect, Looks, Uploads, Inserts, Undoes, Removes, Deletes,
                              Shows, Spoils, Image!Full, Image!Thumb
  <1> QED
    BY <1>1, <1>2

LEMMA OrphanStep ==
  ASSUME Image!TypeOK, UploadInv, RemovalInv, OrphanInv, NEW r \in ImageRequest, ImageEffect(r)
  PROVE  OrphanInv'
  <1> USE DEF Goes
  <1> SUFFICES ASSUME NEW f \in files'
               PROVE  \/ f[1] \in Image!Rows' \cup Image!Shown' \cup spoilt'
                      \/ f[1] \in ImageRequest /\ (imagePc'[f[1]] \notin {"done", "failed"} \/ Wish[f[1]].op # "add")
                      \/ \E q \in ImageRequest : imagePc'[q] \in {"full", "small"} /\ Image!Target(q) = f[1]
    BY DEF OrphanInv, Leaver, Image!Over
  <1>1. CASE f \notin files
    <2>1. Uploads(r) /\ f[1] = r
      BY <1>1 DEF ImageEffect, Looks, Uploads, Inserts, Undoes, Removes, Deletes, Shows, Spoils,
                  Image!Full, Image!Thumb
    <2> QED
      BY <2>1 DEF Uploads
  <1>2. CASE f \in files
    <2>1. CASE f[1] \in spoilt
      BY <2>1 DEF ImageEffect, Looks, Uploads, Inserts, Undoes, Removes, Deletes, Shows, Spoils
    <2>2. CASE f[1] \in Image!Rows
      BY <2>2 DEF ImageEffect, Looks, Uploads, Inserts, Undoes, Removes, Deletes, Shows, Spoils
    <2>3. CASE f[1] \in Image!Shown
      BY <2>3 DEF UploadInv, Image!Shown
    <2>4. CASE f[1] \in ImageRequest /\ (~Image!Over(f[1]) \/ Wish[f[1]].op # "add")
      <3>1. CASE f[1] = r /\ Wish[r].op = "add"
        BY <3>1 DEF UploadInv, RemovalInv, ImageEffect, Looks, Uploads, Inserts, Undoes, Removes, Deletes,
                  Shows, Spoils, Uploading
      <3> QED
        BY <2>4, <3>1 DEF ImageEffect, Image!Over
    <2>5. ASSUME NEW q \in ImageRequest, Leaver(q), Image!Target(q) = f[1]
          PROVE  \/ f[1] \in spoilt'
                 \/ \E p \in ImageRequest : imagePc'[p] \in {"full", "small"} /\ Image!Target(p) = f[1]
      <3>1. CASE imagePc'[q] \in {"full", "small"}
        BY <2>5, <3>1
      <3>2. CASE imagePc'[q] \notin {"full", "small"}
        <4>1. q = r /\ Goes(r, "small", "done") /\ (Deletes(r) \/ Spoils(r))
          BY <2>5, <3>2 DEF Leaver, ImageEffect, Looks, Uploads, Inserts, Undoes, Removes, Deletes, Shows, Spoils
        <4>2. f = Image!Full(f[1]) \/ f = Image!Thumb(f[1])
          BY <1>2 DEF Image!TypeOK, Image!Full, Image!Thumb
        <4>3. f[1] \in spoilt \/ Image!Full(f[1]) \notin files
          BY <2>5, <4>1 DEF RemovalInv
        <4> QED
          BY <1>2, <2>5, <4>1, <4>2, <4>3 DEF Deletes, Spoils
      <3> QED
        BY <3>1, <3>2
    <2> QED
      BY <1>2, <2>1, <2>2, <2>3, <2>4, <2>5 DEF OrphanInv
  <1> QED
    BY <1>1, <1>2

-----------------------------------------------------------------------------
(* Types and places.                                                       *)

(* A set of numbers that is not empty has a least element.                 *)
LEMMA LeastOf ==
  ASSUME NEW S \in SUBSET Nat, S # {}
  PROVE  \E n \in S : \A k \in S : n <= k
  <1> DEFINE R == OpToRel(<, Nat)
  <1>1. IsWellFoundedOn(R, Nat)
    BY NatLessThanWellFounded
  <1>2. \A k, n \in Nat : k < n => <<k, n>> \in R
    BY DEF OpToRel
  <1> HIDE DEF R
  <1>3. PICK n \in S : \A k \in S : ~(<<k, n>> \in R)
    BY <1>1, WFMin
  <1>4. \A k \in S : ~(k < n)
    BY <1>2, <1>3
  <1> QED
    BY <1>4

(* A set of numbers that is bounded and not empty has a greatest one.      *)
LEMMA GreatestOf ==
  ASSUME NEW S \in SUBSET Nat, S # {}, NEW m \in Nat, \A s \in S : s <= m
  PROVE  \E n \in S : \A k \in S : k <= n
  <1> DEFINE Bounds == {n \in Nat : \A s \in S : s <= n}
  <1>1. PICK n \in Bounds : \A k \in Bounds : n <= k
    <2>1. Bounds \in SUBSET Nat /\ m \in Bounds
      OBVIOUS
    <2> HIDE DEF Bounds
    <2> QED
      BY <2>1, LeastOf
  <1>2. n \in Nat /\ \A s \in S : s <= n
    OBVIOUS
  <1>3. n \in S
    <2>1. SUFFICES ASSUME n \notin S PROVE FALSE
      OBVIOUS
    <2>2. PICK s0 \in S : TRUE
      OBVIOUS
    <2>3. \A s \in S : s \in Nat /\ s <= n - 1
      BY <1>2, <2>1
    <2>4. n - 1 \in Bounds
      <3>1. n - 1 \in Nat
        BY <1>2, <2>2, <2>3
      <3> QED
        BY <2>3, <3>1
    <2> QED
      BY <1>1, <1>2, <2>4
  <1> QED
    BY <1>2, <1>3

LEMMA PlacesStep ==
  ASSUME Image!PicturesAssumption, Image!TypeOK, PlacesInv, NEW r \in ImageRequest, ImageStepOf(r)
  PROVE  PlacesInv'
  <1>1. PICK m \in Nat : \A x \in Image!Rows : order[x] <= m
    BY DEF PlacesInv
  <1>2. \A x \in Image!Rows : order[x] \in Nat
    BY DEF Image!TypeOK, Image!Rows
  <1>3. CASE UNCHANGED order
    BY <1>1, <1>3 DEF PlacesInv, Image!Rows
  <1>4. CASE order' = [order EXCEPT ![r] = next[r]]
    <2>1. next[r] \in Nat
      BY DEF Image!TypeOK
    <2>2. PICK n \in Nat : m <= n /\ next[r] <= n
      BY <2>1
    <2>3. ASSUME NEW x \in Image!Rows' PROVE order'[x] <= n
      <3>1. x \in DOMAIN order /\ (x # r => x \in Image!Rows /\ order'[x] = order[x])
        BY <1>4, <2>3 DEF Image!Rows, Image!TypeOK
      <3>2. x = r => order'[x] = next[r]
        BY <1>4, <3>1
      <3> QED
        BY <1>1, <1>2, <2>1, <2>2, <3>1, <3>2
    <2> QED
      BY <2>3 DEF PlacesInv
  <1>5. CASE order' = [order EXCEPT ![Image!Target(r)] = NotShown]
    <2>1. \A x \in Image!Rows' : x \in Image!Rows /\ order'[x] = order[x]
      BY <1>5 DEF Image!Rows, Image!TypeOK
    <2> QED
      BY <1>1, <2>1 DEF PlacesInv
  <1>6. CASE Image!Reorder(r)
    <2> DEFINE list == Wish[r].list
               listed(x) == \E i \in DOMAIN list : list[i] = x
               place(x)  == CHOOSE i \in DOMAIN list : list[i] = x
    <2>1. list \in Seq(Image!Picture)
      BY DEF Image!PicturesAssumption
    <2>2. Len(list) \in Nat
      BY <2>1
    <2>3. ASSUME NEW x, listed(x) PROVE place(x) - 1 \in Nat /\ place(x) - 1 <= Len(list)
      <3>1. place(x) \in 1 .. Len(list)
        BY <2>1, <2>3
      <3> QED
        BY <2>2, <3>1
    <2>4. order' = [x \in DOMAIN order |-> IF x \in Image!Rows /\ listed(x) THEN place(x) - 1 ELSE order[x]]
      BY <1>6 DEF Image!Reorder
    <2> HIDE DEF list, place, listed
    <2>5. PICK n \in Nat : m <= n /\ Len(list) <= n
      BY <2>2
    <2>6. ASSUME NEW x \in Image!Rows' PROVE order'[x] <= n
      <3>1. x \in DOMAIN order /\ order'[x] # NotShown
        BY <2>4, <2>6 DEF Image!Rows
      <3>2. x \in Image!Rows
        BY <2>4, <3>1 DEF Image!Rows
      <3>3. CASE listed(x)
        <4>1. order'[x] = place(x) - 1
          BY <2>4, <3>1, <3>2, <3>3
        <4>2. place(x) - 1 \in Nat /\ place(x) - 1 <= Len(list)
          BY <2>3, <3>3
        <4> QED
          BY <2>2, <2>5, <4>1, <4>2
      <3>4. CASE ~listed(x)
        <4>1. order'[x] = order[x]
          BY <2>4, <3>1, <3>4
        <4> QED
          BY <1>1, <1>2, <2>5, <3>2, <4>1
      <3> QED
        BY <3>3, <3>4
    <2> QED
      BY <2>6 DEF PlacesInv
  <1> QED
    BY <1>3, <1>4, <1>5, <1>6
    DEF ImageStepOf, Image!UploadFull, Image!UploadThumb, Image!MaxOrder, Image!InsertRow,
        Image!Undo, Image!FindImage, Image!DeleteRow, Image!DeleteFull, Image!DeleteThumb,
        Image!SaveBanner, Image!RemoveBanner, Image!Fail

LEMMA PicturesTypeStep ==
  ASSUME Image!PicturesAssumption, Image!TypeOK, UploadInv, RemovalInv, PlacesInv,
         NEW r \in ImageRequest, ImageStepOf(r)
  PROVE  Image!TypeOK'
  <1> DEFINE States == {"start", "thumb", "max", "insert", "undo", "row", "full", "small", "save",
                        "done", "failed"}
  <1>1. /\ order \in [Image!Picture -> Nat \cup {NotShown}]
        /\ banners \in [ImageRequest -> ImageRequest \cup {NotShown}]
        /\ files \subseteq Image!Picture \X {"full", "thumb"}
        /\ imagePc \in [ImageRequest -> States]
        /\ next \in [ImageRequest -> Nat]
        /\ losses \in 0 .. MaxLosses /\ spoilt \subseteq Image!Picture
    BY DEF Image!TypeOK
  <1>2. r \in Image!Picture
    BY DEF Image!Picture
  <1>3. ImageEffect(r)
    BY ImageSteps DEF ImageEffect
  <1>4. imagePc' \in [ImageRequest -> States]
    <2>1. \E label \in States : Image!Goto(r, label)
      BY DEF ImageStepOf, Image!UploadFull, Image!UploadThumb, Image!MaxOrder, Image!InsertRow,
             Image!Undo, Image!FindImage, Image!FirstStep, Image!DeleteRow, Image!DeleteFull,
             Image!DeleteThumb, Image!Reorder, Image!SaveBanner, Image!RemoveBanner, Image!Fail,
             Image!Step
    <2> QED
      BY <1>1, <2>1 DEF Image!Goto
  <1>5. Leaver(r) => Image!Target(r) \in Image!Picture
    BY DEF Leaver, RemovalInv, Image!PicturesAssumption, Image!Target
  <1>6. files' \subseteq Image!Picture \X {"full", "thumb"}
    BY <1>1, <1>2, <1>3 DEF ImageEffect, Looks, Uploads, Inserts, Undoes, Removes, Deletes, Shows,
                            Spoils, Image!Full, Image!Thumb
  <1>7. spoilt' \subseteq Image!Picture
    BY <1>1, <1>2, <1>3, <1>5 DEF ImageEffect, Looks, Uploads, Inserts, Undoes, Removes, Deletes,
                                  Shows, Spoils, Leaver, Goes
  <1>8. losses' \in 0 .. MaxLosses
    <2>1. UNCHANGED losses \/ (losses < MaxLosses /\ losses' = losses + 1)
      BY DEF ImageStepOf, Image!UploadFull, Image!UploadThumb, Image!MaxOrder, Image!InsertRow,
             Image!Undo, Image!FindImage, Image!DeleteRow, Image!DeleteFull, Image!DeleteThumb,
             Image!Reorder, Image!SaveBanner, Image!RemoveBanner, Image!Fail, Image!Step
    <2> QED
      BY <1>1, <2>1 DEF Image!PicturesAssumption
  <1>9. next' \in [ImageRequest -> Nat]
    <2>1. CASE Image!MaxOrder(r)
      <3> DEFINE places == {order[x] : x \in Image!Rows}
                 last == CHOOSE n \in places : \A x \in Image!Rows : order[x] <= n
      <3>1. next' = [next EXCEPT ![r] = IF Image!Rows = {} THEN 0 ELSE 1 + last]
        BY <2>1 DEF Image!MaxOrder
      <3>2. ASSUME Image!Rows # {} PROVE last \in Nat
        <4>1. places \in SUBSET Nat /\ places # {}
          BY <1>1, <3>2 DEF Image!Rows
        <4>2. PICK m \in Nat : \A x \in Image!Rows : order[x] <= m
          BY DEF PlacesInv
        <4>3. \A s \in places : s <= m
          BY <4>2
        <4> HIDE DEF places
        <4>4. \E n \in places : \A k \in places : k <= n
          BY <4>1, <4>2, <4>3, GreatestOf
        <4> USE DEF places
        <4>5. \E n \in places : \A x \in Image!Rows : order[x] <= n
          BY <4>4
        <4>6. last \in places
          BY <4>5
        <4> QED
          BY <4>1, <4>6
      <3> HIDE DEF last
      <3> QED
        BY <1>1, <3>1, <3>2
    <2>2. CASE ~Image!MaxOrder(r)
      <3>1. UNCHANGED next
        BY <2>2 DEF ImageStepOf, Image!UploadFull, Image!UploadThumb, Image!InsertRow,
             Image!Undo, Image!FindImage, Image!DeleteRow, Image!DeleteFull, Image!DeleteThumb,
             Image!Reorder, Image!SaveBanner, Image!RemoveBanner, Image!Fail, Image!Step
      <3> QED
        BY <1>1, <3>1
    <2> QED
      BY <2>1, <2>2
  <1>10. banners' \in [ImageRequest -> ImageRequest \cup {NotShown}]
    <2>1. \E b, y \in ImageRequest \cup {NotShown} : 
            UNCHANGED banners \/ banners' = [banners EXCEPT ![b] = y]
      BY DEF ImageStepOf, Image!UploadFull, Image!UploadThumb, Image!MaxOrder, Image!InsertRow,
             Image!Undo, Image!FindImage, Image!DeleteRow, Image!DeleteFull, Image!DeleteThumb,
             Image!Reorder, Image!SaveBanner, Image!RemoveBanner, Image!Fail, Image!Step,
             UploadInv, Image!At, Image!PicturesAssumption, Image!Target
    <2> QED
      BY <1>1, <2>1
  <1>11. order' \in [Image!Picture -> Nat \cup {NotShown}]
    <2>1. CASE Image!Reorder(r)
      <3> DEFINE list == Wish[r].list
                 listed(x) == \E i \in DOMAIN list : list[i] = x
                 place(x)  == CHOOSE i \in DOMAIN list : list[i] = x
      <3>1. ASSUME NEW x, listed(x) PROVE place(x) - 1 \in Nat
        <4>1. list \in Seq(Image!Picture)
          BY DEF Image!PicturesAssumption
        <4>2. place(x) \in 1 .. Len(list)
          BY <3>1, <4>1
        <4> QED
          BY <4>1, <4>2
      <3>2. order' = [x \in DOMAIN order |-> IF x \in Image!Rows /\ listed(x) THEN place(x) - 1 ELSE order[x]]
        BY <2>1 DEF Image!Reorder
      <3> HIDE DEF list, place, listed
      <3> QED
        BY <1>1, <3>1, <3>2
    <2>2. CASE ~Image!Reorder(r)
      <3>1. \/ UNCHANGED order
            \/ order' = [order EXCEPT ![r] = next[r]]
            \/ order' = [order EXCEPT ![Image!Target(r)] = NotShown]
        BY <2>2 DEF ImageStepOf, Image!UploadFull, Image!UploadThumb, Image!MaxOrder, Image!InsertRow,
             Image!Undo, Image!FindImage, Image!DeleteRow, Image!DeleteFull, Image!DeleteThumb,
             Image!SaveBanner, Image!RemoveBanner, Image!Fail, Image!Step
      <3> QED
        BY <1>1, <3>1
    <2> QED
      BY <2>1, <2>2
  <1> QED
    BY <1>4, <1>6, <1>7, <1>8, <1>9, <1>10, <1>11 DEF Image!TypeOK

-----------------------------------------------------------------------------
LEMMA ImageInit == ASSUME Image!PicturesAssumption, Image!Init PROVE ImageInv
  <1> USE DEF Image!Init
  <1>0. Old \subseteq Image!Picture /\ NotShown \notin Image!Picture /\ NotShown \notin Nat
    BY DEF Image!Picture, Image!PicturesAssumption
  <1>1. Image!Rows = Old
    BY <1>0 DEF Image!Rows
  <1>2. Image!Shown = {}
    BY <1>0 DEF Image!Shown, Image!Picture
  <1>3. \A f : f \in files <=> \E x \in Old : f = Image!Full(x) \/ f = Image!Thumb(x)
    BY DEF Image!Pair
  <1>4. Image!TypeOK
    <2>1. files \subseteq Image!Picture \X {"full", "thumb"}
      BY <1>0, <1>3 DEF Image!Full, Image!Thumb
    <2>2. losses \in 0 .. MaxLosses
      BY DEF Image!PicturesAssumption
    <2> QED
      BY <2>1, <2>2 DEF Image!TypeOK
  <1>5. PlacesInv
    BY <1>0, <1>1 DEF PlacesInv
  <1>6. UploadInv
    BY <1>1, <1>2 DEF UploadInv, Image!PicturesAssumption
  <1>7. RemovalInv
    BY DEF RemovalInv, Leaver
  <1>8. OrphanInv
    BY <1>1, <1>3 DEF OrphanInv, Image!Full, Image!Thumb
  <1>9. Image!RowsHaveFiles
    BY <1>1, <1>2, <1>3 DEF Image!RowsHaveFiles, Image!Pair
  <1> QED
    BY <1>4, <1>5, <1>6, <1>7, <1>8, <1>9 DEF ImageInv

LEMMA ImageNext ==
  ASSUME Image!PicturesAssumption, ImageInv, [Image!Next]_(Image!vars)
  PROVE  ImageInv'
  <1> USE DEF ImageInv
  <1>1. CASE UNCHANGED Image!vars
    <2>1. Image!Rows' = Image!Rows /\ Image!Shown' = Image!Shown
      BY <1>1 DEF Image!vars, Image!Rows, Image!Shown
    <2>2. UNCHANGED <<order, banners, files, imagePc, next, losses, spoilt>>
      BY <1>1 DEF Image!vars
    <2>3. Image!TypeOK' /\ PlacesInv'
      BY <2>1, <2>2 DEF Image!TypeOK, PlacesInv
    <2>4. UploadInv' /\ RemovalInv'
      BY <2>1, <2>2 DEF UploadInv, RemovalInv, Leaver
    <2>5. OrphanInv'
      BY <2>1, <2>2 DEF OrphanInv, Leaver, Image!Over
    <2>6. Image!RowsHaveFiles'
      BY <2>1, <2>2 DEF Image!RowsHaveFiles
    <2> QED
      BY <2>3, <2>4, <2>5, <2>6
  <1>2. CASE \E r \in ImageRequest : ImageStepOf(r)
    <2>1. PICK r \in ImageRequest : ImageStepOf(r)
      BY <1>2
    <2>2. ImageEffect(r)
      BY <2>1, ImageSteps DEF ImageEffect
    <2>3. Image!TypeOK' /\ PlacesInv'
      BY <2>1, PicturesTypeStep, PlacesStep
    <2>4. UploadInv' /\ RemovalInv'
      BY <2>2, UploadStep, RemovalStep
    <2>5. OrphanInv' /\ Image!RowsHaveFiles'
      BY <2>2, OrphanStep, RowsHaveFilesStep
    <2> QED
      BY <2>3, <2>4, <2>5
  <1> QED
    BY <1>1, <1>2 DEF Image!Next, Image!Rest, ImageStepOf

(* Whoever is about to delete the files of a picture is still at it.       *)
LEMMA OrphansAre == ASSUME ImageInv PROVE Image!OrphansExplained
  BY DEF ImageInv, OrphanInv, RemovalInv, Leaver, Image!Over, Image!OrphansExplained

-----------------------------------------------------------------------------
(* Products and documents.                                                 *)

(* What the index should hold for a product.                               *)
Current(p) == IF Goods!Listed(products[p]) THEN products[p] ELSE None

Sent(r) == Goods!Line(r).product

GoodsPathInv ==
  \A r \in StockRequest :
    /\ stockPc[r] = "write" => job[r].op \in {"update", "archive"} /\ Goods!Found(r)
    /\ stockPc[r] \in {"sync", "push", "remove"} => job[r].op \in {"create", "update", "archive"}
    /\ stockPc[r] \in {"row", "read all"} => job[r].op = "import"
    /\ job[r].op # "import" => row[r] = 1
    /\ stockPc[r] = "push" => found[r][Sent(r)] # None

(* What a request has open at each of its steps; the rows of an import are *)
(* out of date from the moment they are written.                           *)
GoodsOpenInv ==
  \A r \in StockRequest :
    /\ stockPc[r] \in {"start", "write", "done", "failed"} => open[r] = {}
    /\ stockPc[r] \in {"sync", "push", "remove"} => open[r] = {Sent(r)}
    /\ stockPc[r] = "push all" => open[r] = Product
    /\ stockPc[r] \in {"row", "read all"} => open[r] \subseteq dirty

(* Two requests that have a product open know that they are mixed up.      *)
MixInv ==
  \A r, q \in StockRequest : r # q /\ open[r] \cap open[q] # {} => r \in mixed /\ q \in mixed

(* What a request that nobody disturbed is about to send is up to date.    *)
SendInv ==
  \A r \in StockRequest \ mixed :
    /\ stockPc[r] = "push" => found[r][Sent(r)] = Current(Sent(r))
    /\ stockPc[r] = "remove" => Current(Sent(r)) = None
    /\ stockPc[r] = "push all" => \A p \in Product : found[r][p] = Current(p)

(* A document is right unless its product is marked, or being changed; and *)
(* so is what a reindexing read of it, however many others it meets.       *)
Quiet(p) ==
  /\ p \notin dirty
  /\ \A q \in StockRequest : p \in open[q] => stockPc[q] = "push all"

IndexInv == \A p \in Product : Quiet(p) => index[p] = Current(p)
ReadInv ==
  \A r \in StockRequest, p \in Product :
    stockPc[r] = "push all" /\ Quiet(p) => found[r][p] = Current(p)

GoodsInv ==
  Goods!TypeOK /\ GoodsPathInv /\ GoodsOpenInv /\ MixInv /\ SendInv /\ IndexInv /\ ReadInv

-----------------------------------------------------------------------------
(* What a step of a request does to products and documents.                *)
GoodsStepOf(r) ==
  \/ Goods!Create(r) \/ Goods!FindProduct(r) \/ Goods!Update(r) \/ Goods!Archive(r)
  \/ Goods!Sync(r) \/ Goods!IndexProduct(r) \/ Goods!RemoveProduct(r)
  \/ Goods!ReadSheet(r) \/ Goods!ImportRow(r) \/ Goods!EndSheet(r)
  \/ Goods!ReadAll(r) \/ Goods!IndexProducts(r)

Turns(r, a, b) == stockPc[r] = a /\ stockPc'[r] = b

Looked(r) ==
  /\ UNCHANGED <<products, index, open, mixed, dirty>>
  /\ \/ Turns(r, "start", "failed")
     \/ Turns(r, "start", "write") /\ job[r].op \in {"update", "archive"} /\ Goods!Found(r)
     \/ Turns(r, "start", "row") /\ job[r].op = "import"
     \/ Turns(r, "row", "row") \/ Turns(r, "row", "read all")
     \/ Turns(r, "row", "done") /\ open[r] = {}

Wrote(r, p, e) ==
  /\ products' = [products EXCEPT ![p] = e] /\ Goods!Open(r, {p}) /\ UNCHANGED index
  /\ \/ /\ Turns(r, "start", "sync") \/ Turns(r, "write", "sync")
        /\ job[r].op \in {"create", "update"} /\ p = Sent(r) /\ UNCHANGED dirty
     \/ /\ Turns(r, "write", "remove") /\ e.status = "ARCHIVED"
        /\ p = Sent(r) /\ UNCHANGED dirty
     \/ Turns(r, "row", "row") /\ dirty' = dirty \cup {p}

Synced(r) ==
  /\ UNCHANGED <<products, index, open, mixed, dirty>>
  /\ found'[r][Sent(r)] = products[Sent(r)]
  /\ IF Goods!Listed(products[Sent(r)]) THEN Turns(r, "sync", "push") ELSE Turns(r, "sync", "remove")

SentOne(r) ==
  LET p == Sent(r)
      docs == [index EXCEPT ![p] = IF stockPc[r] = "push" THEN found[r][p] ELSE None]
  IN  /\ Turns(r, "push", "done") \/ Turns(r, "remove", "done")
      /\ UNCHANGED <<products, mixed>> /\ open' = [open EXCEPT ![r] = {}]
      /\ \/ r \notin mixed /\ index' = docs /\ dirty' = dirty \ {p}
         \/ index' \in {docs, index} /\ dirty' = dirty \cup {p}

ReadEvery(r) ==
  /\ Turns(r, "start", "push all") \/ Turns(r, "read all", "push all")
  /\ Goods!Open(r, Product) /\ found'[r] = [p \in Product |-> Current(p)]
  /\ UNCHANGED <<products, index, dirty>>

SentAll(r) ==
  LET docs == [p \in Product |-> IF found[r][p] # None THEN found[r][p] ELSE index[p]]
  IN  /\ Turns(r, "push all", "done")
      /\ UNCHANGED <<products, mixed>> /\ open' = [open EXCEPT ![r] = {}]
      /\ \/ r \notin mixed /\ index' = docs /\ dirty' = dirty \ {p \in Product : found[r][p] # None}
         \/ index' \in {docs, index} /\ UNCHANGED dirty

(* The other requests stay where they are.                                 *)
Apart(r) ==
  /\ UNCHANGED job
  /\ job[r].op # "import" => row'[r] = row[r]
  /\ \A q \in StockRequest \ {r} :
       stockPc'[q] = stockPc[q] /\ found'[q] = found[q] /\ row'[q] = row[q] /\ open'[q] = open[q]

GoodsEffect(r) ==
  \/ Looked(r) \/ Synced(r) \/ SentOne(r) \/ ReadEvery(r) \/ SentAll(r)
  \/ \E p \in Product, e \in Goods!Entry : Wrote(r, p, e)

(* The line a request that is not an import works on.                      *)
LEMMA LineType ==
  ASSUME Goods!CatalogueAssumption, Goods!TypeOK, GoodsPathInv, NEW r \in StockRequest
  PROVE  /\ job[r].rows \in Seq([product: Product, status: Goods!Status, text: Text])
         /\ job[r].op \in {"create", "update", "archive"} =>
              Goods!Line(r) \in [product: Product, status: Goods!Status, text: Text]
         /\ row[r] <= Len(job[r].rows) =>
              Goods!Line(r) \in [product: Product, status: Goods!Status, text: Text]
  <1> DEFINE L == [product: Product, status: Goods!Status, text: Text]
  <1>1. job \in Jobs /\ row[r] \in Nat \ {0}
    BY DEF Goods!TypeOK
  <1>2. job[r].rows \in Seq(L)
    BY <1>1 DEF Goods!CatalogueAssumption
  <1>3. ASSUME row[r] <= Len(job[r].rows) PROVE Goods!Line(r) \in L
    <2> DEFINE rows == job[r].rows
    <2>1. rows \in Seq(L)
      BY <1>2
    <2> HIDE DEF L, rows
    <2>2. Len(rows) \in Nat /\ \A i \in 1 .. Len(rows) : rows[i] \in L
      BY <2>1
    <2> USE DEF rows
    <2>3. row[r] \in 1 .. Len(rows)
      BY <1>1, <1>3, <2>2
    <2> QED
      BY <2>2, <2>3 DEF Goods!Line
  <1>4. ASSUME job[r].op \in {"create", "update", "archive"} PROVE row[r] <= Len(job[r].rows)
    <2>1. row[r] = 1
      BY <1>4 DEF GoodsPathInv
    <2>2. job[r].rows # <<>>
      BY <1>1, <1>4 DEF Goods!CatalogueAssumption
    <2> QED
      BY <1>2, <2>1, <2>2
  <1> QED
    BY <1>2, <1>3, <1>4

LEMMA GoodsApart ==
  ASSUME Goods!TypeOK, GoodsPathInv, NEW r \in StockRequest, GoodsStepOf(r)
  PROVE  Apart(r)
  <1> USE DEF Goods!TypeOK
  <1>1. UNCHANGED job
    BY DEF GoodsStepOf, Goods!Create, Goods!FindProduct, Goods!Update, Goods!Archive, Goods!Sync,
           Goods!IndexProduct, Goods!RemoveProduct, Goods!ReadSheet, Goods!ImportRow, Goods!EndSheet,
           Goods!ReadAll, Goods!IndexProducts, Goods!Stop, Goods!Served, Goods!Send
  <1>2. \A q \in StockRequest \ {r} : stockPc'[q] = stockPc[q]
    BY DEF GoodsStepOf, Goods!Create, Goods!FindProduct, Goods!Update, Goods!Archive, Goods!Sync,
           Goods!IndexProduct, Goods!RemoveProduct, Goods!ReadSheet, Goods!ImportRow, Goods!EndSheet,
           Goods!ReadAll, Goods!IndexProducts, Goods!Stop, Goods!Send, Goods!Goto
  <1>3. \A q \in StockRequest \ {r} : found'[q] = found[q]
    BY DEF GoodsStepOf, Goods!Create, Goods!FindProduct, Goods!Update, Goods!Archive, Goods!Sync,
           Goods!IndexProduct, Goods!RemoveProduct, Goods!ReadSheet, Goods!ImportRow, Goods!EndSheet,
           Goods!ReadAll, Goods!IndexProducts, Goods!Stop, Goods!Send
  <1>4. \A q \in StockRequest \ {r} : row'[q] = row[q]
    BY DEF GoodsStepOf, Goods!Create, Goods!FindProduct, Goods!Update, Goods!Archive, Goods!Sync,
           Goods!IndexProduct, Goods!RemoveProduct, Goods!ReadSheet, Goods!ImportRow, Goods!EndSheet,
           Goods!ReadAll, Goods!IndexProducts, Goods!Stop, Goods!Served, Goods!Send
  <1>5. \A q \in StockRequest \ {r} : open'[q] = open[q]
    BY DEF GoodsStepOf, Goods!Create, Goods!FindProduct, Goods!Update, Goods!Archive, Goods!Sync,
           Goods!IndexProduct, Goods!RemoveProduct, Goods!ReadSheet, Goods!ImportRow, Goods!EndSheet,
           Goods!ReadAll, Goods!IndexProducts, Goods!Stop, Goods!Send, Goods!Open, Goods!ghost
  <1>6. ASSUME job[r].op # "import" PROVE row'[r] = row[r]
    BY <1>6 DEF GoodsPathInv, GoodsStepOf, Goods!Create, Goods!FindProduct, Goods!Update, Goods!Archive,
           Goods!Sync, Goods!IndexProduct, Goods!RemoveProduct, Goods!ReadSheet, Goods!ImportRow,
           Goods!EndSheet, Goods!ReadAll, Goods!IndexProducts, Goods!Stop, Goods!Served, Goods!Send
  <1> QED
    BY <1>1, <1>2, <1>3, <1>4, <1>5, <1>6 DEF Apart

LEMMA GoodsSteps ==
  ASSUME Goods!CatalogueAssumption, Goods!TypeOK, GoodsPathInv, GoodsOpenInv,
         NEW r \in StockRequest, GoodsStepOf(r)
  PROVE  GoodsEffect(r)
  <1> DEFINE l == Goods!Line(r)
             entry == [status |-> l.status, text |-> l.text]
  <1>0. found[r] \in [Product -> Goods!Entry \cup {None}]
    BY DEF Goods!TypeOK
  <1>1. ASSUME NEW a, NEW b, Goods!Goto(r, b), stockPc[r] = a PROVE Turns(r, a, b)
    BY <1>1 DEF Goods!Goto, Turns, Goods!TypeOK
  <1>2. job[r].op \in {"create", "update", "archive"} => l.product \in Product /\ entry \in Goods!Entry
    BY LineType DEF Goods!Entry
  <1>3. CASE Goods!Create(r)
    <2>1. CASE Goods!Stop(r)
      <3>1. Looked(r)
        BY <1>1, <1>3, <2>1 DEF Goods!Create, Goods!Stop, Goods!db, Goods!ghost, Looked
      <3> QED
        BY <3>1 DEF GoodsEffect
    <2>2. CASE ~Goods!Stop(r)
      <3>1. Wrote(r, l.product, entry)
        BY <1>1, <1>3, <2>2 DEF Goods!Create, Goods!Put, Goods!Served, Wrote, Sent
      <3> QED
        BY <1>2, <1>3, <3>1 DEF GoodsEffect, Goods!Create
    <2> QED
      BY <2>1, <2>2
  <1>4. CASE Goods!FindProduct(r)
    <2>1. Looked(r)
      BY <1>1, <1>4 DEF Goods!FindProduct, Goods!db, Goods!ghost, Looked
    <2> QED
      BY <2>1 DEF GoodsEffect
  <1>5. CASE Goods!Update(r)
    <2>1. Wrote(r, l.product, entry)
      BY <1>1, <1>5 DEF Goods!Update, Goods!Put, Goods!Served, Wrote, Sent
    <2> QED
      BY <1>2, <1>5, <2>1 DEF GoodsEffect, Goods!Update
  <1>6. CASE Goods!Archive(r)
    <2> DEFINE e == [products[l.product] EXCEPT !.status = "ARCHIVED"]
    <2>1. l.product \in Product /\ products[l.product] \in Goods!Entry
      BY <1>2, <1>6 DEF Goods!Archive, GoodsPathInv, Goods!Found, Goods!TypeOK
    <2>2. e \in Goods!Entry /\ e.status = "ARCHIVED"
      BY <2>1 DEF Goods!Entry, Goods!Status
    <2>3. products' = [products EXCEPT ![l.product] = e]
      BY <1>6 DEF Goods!Archive
    <2> HIDE DEF e
    <2>4. Wrote(r, l.product, e)
      BY <1>1, <1>6, <2>2, <2>3 DEF Goods!Archive, Goods!Served, Wrote, Sent
    <2> QED
      BY <2>1, <2>2, <2>4 DEF GoodsEffect
  <1>7. CASE Goods!Sync(r)
    <2>1. found'[r][Sent(r)] = products[Sent(r)]
      <3>1. l.product \in Product
        BY <1>2, <1>7 DEF Goods!Sync, GoodsPathInv
      <3>2. found' = [found EXCEPT ![r][l.product] = products[l.product]]
        BY <1>7 DEF Goods!Sync
      <3> QED
        BY <3>1, <3>2 DEF Goods!TypeOK, Sent
    <2>2. Synced(r)
      BY <1>1, <1>7, <2>1 DEF Goods!Sync, Goods!db, Goods!ghost, Synced, Sent
    <2> QED
      BY <2>2 DEF GoodsEffect
  <1>8. ASSUME NEW next_, NEW docs_, Goods!Send(r, next_, docs_)
        PROVE  /\ UNCHANGED <<products, mixed>> /\ open' = [open EXCEPT ![r] = {}]
               /\ index' \in {docs_, index}
               /\ Goods!Ok(r) => r \notin mixed /\ index' = docs_
    <2>1. failures + 1 # failures
      <3>1. MaxFailures \in Nat /\ failures \in 0 .. MaxFailures
        BY DEF Goods!TypeOK, Goods!CatalogueAssumption
      <3> QED
        BY <3>1
    <2> QED
      BY <1>8, <2>1 DEF Goods!Send, Goods!Ok
  <1>9. CASE Goods!IndexProduct(r)
    <2>1. l.product \in Product /\ found[r][l.product] \in Goods!Entry
      <3>1. l.product \in Product /\ found[r][l.product] # None
        BY <1>2, <1>9 DEF Goods!IndexProduct, GoodsPathInv, Sent
      <3> QED
        BY <1>0, <3>1
    <2>2. Goods!ToSearchDoc(found[r][l.product]) = found[r][l.product]
      BY <2>1 DEF Goods!ToSearchDoc, Goods!Entry
    <2>3. SentOne(r)
      BY <1>1, <1>8, <1>9, <2>2 DEF Goods!IndexProduct, Goods!Send, SentOne, Sent
    <2> QED
      BY <2>3 DEF GoodsEffect
  <1>10. CASE Goods!RemoveProduct(r)
    <2>1. SentOne(r)
      BY <1>1, <1>8, <1>10 DEF Goods!RemoveProduct, Goods!Send, SentOne, Sent
    <2> QED
      BY <2>1 DEF GoodsEffect
  <1>11. CASE Goods!ReadSheet(r)
    <2>1. Looked(r)
      BY <1>1, <1>11 DEF Goods!ReadSheet, Goods!db, Goods!ghost, Looked
    <2> QED
      BY <2>1 DEF GoodsEffect
  <1>12. CASE Goods!ImportRow(r)
    <2>1. Turns(r, "row", "row")
      BY <1>12 DEF Goods!ImportRow, Turns
    <2>2. CASE UNCHANGED <<products, found, open, mixed, dirty>>
      <3>1. Looked(r)
        BY <1>12, <2>1, <2>2 DEF Goods!ImportRow, Looked
      <3> QED
        BY <3>1 DEF GoodsEffect
    <2>3. CASE Goods!Put(l) /\ Goods!Open(r, {l.product}) /\ dirty' = dirty \cup {l.product}
      <3>1. l.product \in Product /\ entry \in Goods!Entry
        BY <1>12, LineType DEF Goods!ImportRow, Goods!Entry
      <3>2. Wrote(r, l.product, entry)
        BY <1>12, <2>1, <2>3 DEF Goods!ImportRow, Goods!Put, Wrote
      <3> QED
        BY <3>1, <3>2 DEF GoodsEffect
    <2> QED
      BY <1>12, <2>2, <2>3 DEF Goods!ImportRow
  <1>13. CASE Goods!EndSheet(r)
    <2>1. Looked(r)
      BY <1>1, <1>13 DEF Goods!EndSheet, Goods!db, Goods!ghost, Looked
    <2> QED
      BY <2>1 DEF GoodsEffect
  <1>14. CASE Goods!ReadAll(r)
    <2>1. found'[r] = [p \in Product |-> Current(p)]
      BY <1>14 DEF Goods!ReadAll, Current, Goods!TypeOK
    <2>2. ReadEvery(r)
      BY <1>1, <1>14, <2>1 DEF Goods!ReadAll, Goods!db, ReadEvery
    <2> QED
      BY <2>2 DEF GoodsEffect
  <1>15. CASE Goods!IndexProducts(r)
    <2>1. \A p \in Product : found[r][p] # None => found[r][p] \in Goods!Entry
      BY <1>0
    <2>2. \A p \in Product : found[r][p] # None => Goods!ToSearchDoc(found[r][p]) = found[r][p]
      BY <2>1 DEF Goods!ToSearchDoc, Goods!Entry
    <2>3. Goods!Replaced(r) = [p \in Product |-> IF found[r][p] # None THEN found[r][p] ELSE index[p]]
      BY <2>2 DEF Goods!Replaced
    <2>4. SentAll(r)
      BY <1>1, <1>8, <1>15, <2>3 DEF Goods!IndexProducts, Goods!Send, SentAll
    <2> QED
      BY <2>4 DEF GoodsEffect
  <1> QED
    BY <1>3, <1>4, <1>5, <1>6, <1>7, <1>9, <1>10, <1>11, <1>12, <1>13, <1>14, <1>15 DEF GoodsStepOf

-----------------------------------------------------------------------------
LEMMA OpensAre ==
  ASSUME Goods!TypeOK, NEW r \in StockRequest, NEW P, Goods!Open(r, P)
  PROVE  /\ open'[r] = open[r] \cup P /\ mixed \subseteq mixed'
         /\ \A q \in StockRequest \ {r} : open[q] \cap P # {} => q \in mixed' /\ r \in mixed'
  BY DEF Goods!Open, Goods!TypeOK

LEMMA SentStays ==
  ASSUME NEW r \in StockRequest, Apart(r), NEW q \in StockRequest, job[q].op # "import"
  PROVE  Sent(q)' = Sent(q)
  BY DEF Apart, Sent, Goods!Line

LEMMA GoodsPathStep ==
  ASSUME Goods!CatalogueAssumption, Goods!TypeOK, GoodsPathInv, NEW r \in StockRequest, Apart(r), GoodsEffect(r)
  PROVE  GoodsPathInv'
  <1> USE DEF Turns
  <1>0. job' = job
    BY DEF Apart
  <1>1. \A p \in Product : products[p] # None => products'[p] # None
    BY DEF GoodsEffect, Looked, Wrote, Synced, SentOne, ReadEvery, SentAll, Goods!TypeOK,
           Goods!CatalogueAssumption
  <1>2. ASSUME NEW q \in StockRequest
        PROVE  /\ stockPc'[q] = "write" => job[q].op \in {"update", "archive"} /\ products[Sent(q)] # None
               /\ stockPc'[q] \in {"sync", "push", "remove"} => job[q].op \in {"create", "update", "archive"}
               /\ stockPc'[q] \in {"row", "read all"} => job[q].op = "import"
    BY DEF GoodsPathInv, Apart, GoodsEffect, Looked, Wrote, Synced, SentOne, ReadEvery, SentAll,
           Goods!Found, Sent
  <1>3. ASSUME NEW q \in StockRequest PROVE job[q].op # "import" => row'[q] = 1
    BY DEF GoodsPathInv, Apart
  <1>4. ASSUME NEW q \in StockRequest, stockPc'[q] = "push" PROVE found'[q][Sent(q)] # None
    BY <1>4 DEF GoodsPathInv, Apart, GoodsEffect, Looked, Wrote, Synced, SentOne, ReadEvery, SentAll,
                Goods!Listed
  <1>5. ASSUME NEW q \in StockRequest, stockPc'[q] = "write" PROVE products'[Sent(q)] # None
    <2>1. Sent(q) \in Product /\ products[Sent(q)] # None
      BY <1>2, <1>5, LineType DEF Sent
    <2> QED
      BY <1>1, <2>1
  <1>6. ASSUME NEW q \in StockRequest, job[q].op # "import" PROVE job[q].rows[row'[q]].product = Sent(q)
    BY <1>6 DEF Apart, Sent, Goods!Line
  <1> QED
    BY <1>0, <1>2, <1>3, <1>4, <1>5, <1>6 DEF GoodsPathInv, Goods!Found, Goods!Line, Sent

LEMMA MixStep ==
  ASSUME Goods!TypeOK, MixInv, NEW r \in StockRequest, Apart(r), GoodsEffect(r)
  PROVE  MixInv'
  <1> SUFFICES ASSUME NEW q1 \in StockRequest, NEW q2 \in StockRequest, q1 # q2,
                      NEW p \in open'[q1], p \in open'[q2]
               PROVE  q1 \in mixed' /\ q2 \in mixed'
    BY DEF MixInv
  <1>1. CASE open' = [open EXCEPT ![r] = {}] /\ UNCHANGED mixed
    <2>1. q1 # r /\ q2 # r
      BY <1>1 DEF Goods!TypeOK
    <2> QED
      BY <1>1, <2>1 DEF MixInv, Apart
  <1>2. CASE UNCHANGED <<open, mixed>>
    BY <1>2 DEF MixInv
  <1>3. ASSUME NEW P, Goods!Open(r, P) PROVE q1 \in mixed' /\ q2 \in mixed'
    <2>1. /\ open'[r] = open[r] \cup P /\ mixed \subseteq mixed'
          /\ \A q \in StockRequest \ {r} : open[q] \cap P # {} => q \in mixed' /\ r \in mixed'
      BY <1>3, OpensAre
    <2>2. \A q \in StockRequest \ {r} : open'[q] = open[q]
      BY DEF Apart
    <2>3. CASE q1 # r /\ q2 # r
      BY <2>1, <2>2, <2>3 DEF MixInv
    <2>4. CASE q1 = r
      BY <2>1, <2>2, <2>4 DEF MixInv
    <2>5. CASE q2 = r
      BY <2>1, <2>2, <2>5 DEF MixInv
    <2> QED
      BY <2>3, <2>4, <2>5
  <1> QED
    BY <1>1, <1>2, <1>3 DEF GoodsEffect, Looked, Wrote, Synced, SentOne, ReadEvery, SentAll

LEMMA GoodsOpenStep ==
  ASSUME Goods!CatalogueAssumption, Goods!TypeOK, GoodsPathInv, GoodsOpenInv, MixInv,
         NEW r \in StockRequest, Apart(r), GoodsEffect(r)
  PROVE  GoodsOpenInv'
  <1> USE DEF Turns
  <1>1. ASSUME NEW q \in StockRequest
        PROVE  /\ stockPc'[q] \in {"start", "write", "done", "failed"} => open'[q] = {}
               /\ stockPc'[q] \in {"sync", "push", "remove"} => open'[q] = {Sent(q)}
               /\ stockPc'[q] = "push all" => open'[q] = Product
               /\ stockPc'[q] \in {"row", "read all"} => open'[q] \subseteq dirty'
    <2>1. CASE q = r
      <3>1. CASE \E p \in Product, e \in Goods!Entry : Wrote(r, p, e)
        <4>1. PICK p \in Product, e \in Goods!Entry : Wrote(r, p, e)
          BY <3>1
        <4>2. open'[r] = open[r] \cup {p}
          BY <4>1, OpensAre DEF Wrote
        <4> QED
          BY <2>1, <4>1, <4>2 DEF Wrote, GoodsOpenInv
      <3>2. CASE ReadEvery(r)
        <4>1. open'[r] = open[r] \cup Product /\ open[r] \subseteq Product
          BY <3>2, OpensAre DEF ReadEvery, Goods!TypeOK
        <4> QED
          BY <2>1, <3>2, <4>1 DEF ReadEvery
      <3>3. CASE SentOne(r) \/ SentAll(r)
        <4>1. open'[r] = {} /\ stockPc'[r] = "done"
          BY <3>3 DEF SentOne, SentAll, Goods!TypeOK
        <4> QED
          BY <2>1, <4>1
      <3>4. CASE Looked(r) \/ Synced(r)
        BY <2>1, <3>4 DEF Looked, Synced, GoodsOpenInv
      <3> QED
        BY <3>1, <3>2, <3>3, <3>4 DEF GoodsEffect
    <2>2. CASE q # r
      <3>1. stockPc'[q] = stockPc[q] /\ open'[q] = open[q]
        BY <2>2 DEF Apart
      <3>2. ASSUME open[q] \subseteq dirty PROVE open[q] \subseteq dirty'
        <4>1. CASE SentOne(r)
          <5>1. open[r] = {Sent(r)}
            BY <4>1 DEF SentOne, GoodsOpenInv
          <5>2. r \notin mixed => Sent(r) \notin open[q]
            BY <2>2, <5>1 DEF MixInv
          <5> QED
            BY <3>2, <4>1, <5>2 DEF SentOne
        <4>2. CASE SentAll(r)
          <5>1. open[r] = Product /\ open[q] \subseteq Product
            BY <4>2 DEF SentAll, GoodsOpenInv, Goods!TypeOK
          <5>2. r \notin mixed => open[q] = {}
            BY <2>2, <5>1 DEF MixInv
          <5> QED
            BY <3>2, <4>2, <5>2 DEF SentAll
        <4> QED
          BY <3>2, <4>1, <4>2 DEF GoodsEffect, Looked, Wrote, Synced, ReadEvery
      <3> QED
        BY <3>1, <3>2 DEF GoodsOpenInv
    <2> QED
      BY <2>1, <2>2
  <1>2. ASSUME NEW q \in StockRequest, stockPc'[q] \in {"sync", "push", "remove"} PROVE Sent(q)' = Sent(q)
    <2>1. job[q].op # "import"
      <3>1. GoodsPathInv' /\ job' = job
        BY GoodsPathStep DEF Apart
      <3> QED
        BY <1>2, <3>1 DEF GoodsPathInv
    <2> QED
      BY <2>1, SentStays
  <1> QED
    BY <1>1, <1>2 DEF GoodsOpenInv

LEMMA SendStep ==
  ASSUME Goods!CatalogueAssumption, Goods!TypeOK, GoodsPathInv, GoodsOpenInv, SendInv,
         NEW r \in StockRequest, Apart(r), GoodsEffect(r)
  PROVE  SendInv'
  <1> USE DEF Turns
  <1>1. mixed \subseteq mixed'
    BY OpensAre DEF GoodsEffect, Looked, Wrote, Synced, SentOne, ReadEvery, SentAll
  <1>2. ASSUME NEW q \in StockRequest, q # r, q \notin mixed', NEW p \in open[q]
        PROVE  Current(p)' = Current(p)
    <2>1. products'[p] = products[p]
      <3>1. CASE \E w \in Product, e \in Goods!Entry : Wrote(r, w, e)
        <4>1. PICK w \in Product, e \in Goods!Entry : Wrote(r, w, e)
          BY <3>1
        <4>2. w # p
          BY <1>2, <4>1, OpensAre DEF Wrote
        <4>3. p \in Product
          BY <1>2 DEF Goods!TypeOK
        <4> QED
          BY <4>1, <4>2, <4>3 DEF Wrote, Goods!TypeOK
      <3> QED
        BY <3>1 DEF GoodsEffect, Looked, Synced, SentOne, ReadEvery, SentAll
    <2> QED
      BY <2>1 DEF Current
  <1>3. ASSUME NEW q \in StockRequest, stockPc'[q] \in {"push", "remove"}
        PROVE  Sent(q)' = Sent(q) /\ Sent(q) \in Product
    <2>1. job[q].op \in {"create", "update", "archive"}
      <3>1. GoodsPathInv' /\ job' = job
        BY GoodsPathStep DEF Apart
      <3> QED
        BY <1>3, <3>1 DEF GoodsPathInv
    <2> QED
      BY <2>1, SentStays, LineType DEF Sent
  <1>4. ASSUME NEW q \in StockRequest, q \notin mixed', stockPc'[q] = "push"
        PROVE  found'[q][Sent(q)] = Current(Sent(q))'
    <2>1. CASE q = r
      <3>1. Synced(r) /\ Goods!Listed(products[Sent(r)])
        BY <1>4, <2>1 DEF GoodsEffect, Looked, Wrote, Synced, SentOne, ReadEvery, SentAll
      <3> QED
        BY <2>1, <3>1, <1>3, <1>4 DEF Synced, Current
    <2>2. CASE q # r
      <3>1. stockPc[q] = "push" /\ found'[q] = found[q] /\ q \notin mixed
        BY <1>1, <1>4, <2>2 DEF Apart
      <3>2. Sent(q) \in open[q]
        BY <3>1 DEF GoodsOpenInv
      <3>3. Current(Sent(q))' = Current(Sent(q))
        BY <1>2, <1>3, <1>4, <2>2, <3>2 DEF Current
      <3> QED
        BY <3>1, <3>3 DEF SendInv
    <2> QED
      BY <2>1, <2>2
  <1>5. ASSUME NEW q \in StockRequest, q \notin mixed', stockPc'[q] = "remove"
        PROVE  Current(Sent(q))' = None
    <2>1. CASE q = r
      <3>1. CASE Synced(r)
        BY <1>3, <1>5, <2>1, <3>1 DEF Synced, Current
      <3>2. CASE \E p \in Product, e \in Goods!Entry : Wrote(r, p, e)
        <4>1. PICK p \in Product, e \in Goods!Entry : Wrote(r, p, e)
          BY <3>2
        <4>2. p = Sent(r) /\ e.status = "ARCHIVED" /\ products'[Sent(r)] = e
          BY <1>5, <2>1, <4>1 DEF Wrote, Goods!TypeOK
        <4> QED
          BY <1>3, <1>5, <2>1, <4>2 DEF Current, Goods!Listed
      <3> QED
        BY <1>5, <2>1, <3>1, <3>2 DEF GoodsEffect, Looked, SentOne, ReadEvery, SentAll
    <2>2. CASE q # r
      <3>1. stockPc[q] = "remove" /\ q \notin mixed
        BY <1>1, <1>5, <2>2 DEF Apart
      <3>2. Sent(q) \in open[q]
        BY <3>1 DEF GoodsOpenInv
      <3>3. Current(Sent(q))' = Current(Sent(q))
        BY <1>2, <1>3, <1>5, <2>2, <3>2 DEF Current
      <3> QED
        BY <3>1, <3>3 DEF SendInv
    <2> QED
      BY <2>1, <2>2
  <1>6. ASSUME NEW q \in StockRequest, q \notin mixed', stockPc'[q] = "push all", NEW p \in Product
        PROVE  found'[q][p] = Current(p)'
    <2>1. CASE q = r
      <3>1. ReadEvery(r)
        BY <1>6, <2>1 DEF GoodsEffect, Looked, Wrote, Synced, SentOne, SentAll
      <3> QED
        BY <2>1, <3>1 DEF ReadEvery, Current
    <2>2. CASE q # r
      <3>1. stockPc[q] = "push all" /\ found'[q] = found[q] /\ q \notin mixed
        BY <1>1, <1>6, <2>2 DEF Apart
      <3>2. p \in open[q]
        BY <3>1 DEF GoodsOpenInv
      <3> QED
        BY <1>2, <1>6, <2>2, <3>1, <3>2 DEF SendInv
    <2> QED
      BY <2>1, <2>2
  <1> QED
    BY <1>3, <1>4, <1>5, <1>6 DEF SendInv, Current, Goods!Listed

(* A product that is quiet after a step was quiet before it, or has its    *)
(* document from a request that nobody disturbed.                          *)
LEMMA QuietStep ==
  ASSUME Goods!TypeOK, GoodsOpenInv,
         NEW r \in StockRequest, Apart(r), GoodsEffect(r), NEW p \in Product, Quiet(p)'
  PROVE  \/ /\ Quiet(p) /\ products'[p] = products[p]
            /\ \/ index'[p] = index[p]
               \/ SentAll(r) /\ found[r][p] # None /\ index'[p] = found[r][p]
         \/ /\ r \notin mixed /\ SentOne(r) /\ p = Sent(r) /\ products'[p] = products[p]
            /\ index'[p] = IF stockPc[r] = "push" THEN found[r][p] ELSE None
         \/ /\ r \notin mixed /\ SentAll(r) /\ products'[p] = products[p]
            /\ index'[p] = found[r][p]
  <1> USE DEF Turns
  <1>1. p \notin dirty' /\ \A q \in StockRequest : p \in open'[q] => stockPc'[q] = "push all"
    BY DEF Quiet
  <1>2. ASSUME p \notin dirty, p \in open[r] => stockPc[r] = "push all" PROVE Quiet(p)
    BY <1>1, <1>2 DEF Quiet, Apart
  <1>3. CASE Looked(r) \/ Synced(r)
    BY <1>1, <1>2, <1>3 DEF Looked, Synced
  <1>4. CASE \E w \in Product, e \in Goods!Entry : Wrote(r, w, e)
    <2>1. PICK w \in Product, e \in Goods!Entry : Wrote(r, w, e)
      BY <1>4
    <2>2. p # w /\ p \notin open[r]
      <3>1. open'[r] = open[r] \cup {w}
        BY <2>1, OpensAre DEF Wrote
      <3>2. stockPc'[r] # "push all"
        BY <2>1 DEF Wrote
      <3> QED
        BY <1>1, <3>1, <3>2
    <2>3. products'[p] = products[p] /\ index' = index /\ p \notin dirty
      BY <1>1, <2>1, <2>2 DEF Wrote, Goods!TypeOK
    <2> QED
      BY <1>2, <2>2, <2>3
  <1>5. CASE SentOne(r)
    <2>1. open[r] = {Sent(r)} /\ products' = products
      BY <1>5 DEF SentOne, GoodsOpenInv
    <2>2. CASE p = Sent(r)
      BY <1>1, <1>5, <2>1, <2>2 DEF SentOne, Goods!TypeOK
    <2>3. CASE p # Sent(r)
      <3>1. p \notin dirty /\ index'[p] = index[p]
        BY <1>1, <1>5, <2>3 DEF SentOne, Goods!TypeOK
      <3> QED
        BY <1>2, <2>1, <2>3, <3>1
    <2> QED
      BY <2>2, <2>3
  <1>6. CASE ReadEvery(r)
    <2>1. p \notin dirty /\ products' = products /\ index' = index
      BY <1>1, <1>6 DEF ReadEvery
    <2>2. p \notin open[r]
      BY <1>6, <2>1 DEF ReadEvery, GoodsOpenInv
    <2> QED
      BY <1>2, <2>1, <2>2
  <1>7. CASE SentAll(r)
    <2>1. stockPc[r] = "push all" /\ products' = products
      BY <1>7 DEF SentAll
    <2>2. index' = index \/ index'[p] = IF found[r][p] # None THEN found[r][p] ELSE index[p]
      BY <1>7 DEF SentAll
    <2>3. CASE p \in dirty
      <3>1. r \notin mixed /\ found[r][p] # None /\ index'[p] = found[r][p]
        BY <1>1, <1>7, <2>3 DEF SentAll
      <3> QED
        BY <1>7, <2>1, <3>1
    <2>4. CASE p \notin dirty
      BY <1>2, <1>7, <2>1, <2>2, <2>4
    <2> QED
      BY <2>3, <2>4
  <1> QED
    BY <1>3, <1>4, <1>5, <1>6, <1>7 DEF GoodsEffect

LEMMA IndexStep ==
  ASSUME Goods!TypeOK, GoodsOpenInv, SendInv, IndexInv, ReadInv,
         NEW r \in StockRequest, Apart(r), GoodsEffect(r)
  PROVE  IndexInv'
  <1> SUFFICES ASSUME NEW p \in Product, Quiet(p)' PROVE index'[p] = Current(p)'
    BY DEF IndexInv
  <1>1. products'[p] = products[p] => Current(p)' = Current(p)
    BY DEF Current
  <1>2. CASE Quiet(p) /\ products'[p] = products[p] /\ index'[p] = index[p]
    BY <1>1, <1>2 DEF IndexInv
  <1>3. CASE Quiet(p) /\ products'[p] = products[p] /\ SentAll(r) /\ index'[p] = found[r][p]
    BY <1>1, <1>3 DEF ReadInv, SentAll, Turns
  <1>4. CASE /\ r \notin mixed /\ SentOne(r) /\ p = Sent(r) /\ products'[p] = products[p]
             /\ index'[p] = IF stockPc[r] = "push" THEN found[r][p] ELSE None
    BY <1>1, <1>4 DEF SendInv, SentOne, Turns
  <1>5. CASE r \notin mixed /\ SentAll(r) /\ products'[p] = products[p] /\ index'[p] = found[r][p]
    BY <1>1, <1>5 DEF SendInv, SentAll, Turns
  <1> QED
    BY <1>2, <1>3, <1>4, <1>5, QuietStep

LEMMA ReadStep ==
  ASSUME Goods!TypeOK, GoodsOpenInv, MixInv, ReadInv, NEW r \in StockRequest, Apart(r), GoodsEffect(r)
  PROVE  ReadInv'
  <1> USE DEF Turns
  <1> SUFFICES ASSUME NEW q \in StockRequest, NEW p \in Product, stockPc'[q] = "push all", Quiet(p)'
               PROVE  found'[q][p] = Current(p)'
    BY DEF ReadInv
  <1>1. CASE q = r
    <2>1. ReadEvery(r)
      BY <1>1 DEF GoodsEffect, Looked, Wrote, Synced, SentOne, SentAll
    <2> QED
      BY <1>1, <2>1 DEF ReadEvery, Current
  <1>2. CASE q # r
    <2>1. stockPc[q] = "push all" /\ found'[q] = found[q] /\ p \in open[q]
      BY <1>2 DEF Apart, GoodsOpenInv
    <2>2. r \notin mixed => p \notin open[r]
      BY <1>2, <2>1 DEF MixInv
    <2>3. (SentOne(r) /\ p = Sent(r)) \/ SentAll(r) => p \in open[r]
      BY DEF SentOne, SentAll, GoodsOpenInv
    <2>4. Quiet(p) /\ products'[p] = products[p]
      BY <2>2, <2>3, QuietStep
    <2>5. Current(p)' = Current(p)
      BY <2>4 DEF Current
    <2> QED
      BY <2>1, <2>4, <2>5 DEF ReadInv
  <1> QED
    BY <1>1, <1>2

LEMMA GoodsTypeStep ==
  ASSUME Goods!CatalogueAssumption, Goods!TypeOK, GoodsPathInv, GoodsOpenInv,
         NEW r \in StockRequest, GoodsStepOf(r)
  PROVE  Goods!TypeOK'
  <1> DEFINE Slot == Goods!Entry \cup {None}
             States == {"start", "write", "sync", "push", "remove", "row", "read all", "push all",
                        "done", "failed"}
             l == Goods!Line(r)
  <1>1. /\ job \in Jobs /\ products \in [Product -> Slot] /\ index \in [Product -> Slot]
        /\ available \in BOOLEAN /\ stockPc \in [StockRequest -> States]
        /\ found \in [StockRequest -> [Product -> Slot]] /\ row \in [StockRequest -> Nat \ {0}]
        /\ failures \in 0 .. MaxFailures /\ restarts \in 0 .. MaxRestarts
        /\ open \in [StockRequest -> SUBSET Product] /\ dirty \subseteq Product /\ mixed \subseteq StockRequest
    BY DEF Goods!TypeOK
  <1>2. Apart(r) /\ GoodsEffect(r)
    BY GoodsApart, GoodsSteps
  <1>3. /\ job[r].op \in {"create", "update", "archive"} => l.product \in Product
        /\ row[r] <= Len(job[r].rows) => l.product \in Product
    BY LineType
  <1>4. stockPc[r] \in {"push", "remove"} => Sent(r) \in Product
    BY <1>3 DEF GoodsPathInv, Sent
  <1>5. job' \in Jobs
    BY <1>1, <1>2 DEF Apart
  <1>6. products' \in [Product -> Slot]
    BY <1>1, <1>2 DEF GoodsEffect, Looked, Wrote, Synced, SentOne, ReadEvery, SentAll
  <1>7. index' \in [Product -> Slot]
    <2>1. found[r] \in [Product -> Slot]
      BY <1>1
    <2>2. CASE SentOne(r)
      BY <1>1, <1>4, <2>1, <2>2 DEF SentOne, Turns
    <2>3. CASE SentAll(r)
      BY <1>1, <2>1, <2>3 DEF SentAll
    <2> QED
      BY <1>1, <1>2, <2>2, <2>3 DEF GoodsEffect, Looked, Wrote, Synced, ReadEvery
  <1>8. available' = available /\ restarts' = restarts
    BY DEF GoodsStepOf, Goods!Create, Goods!FindProduct, Goods!Update, Goods!Archive, Goods!Sync,
           Goods!IndexProduct, Goods!RemoveProduct, Goods!ReadSheet, Goods!ImportRow, Goods!EndSheet,
           Goods!ReadAll, Goods!IndexProducts, Goods!Stop, Goods!Served, Goods!Send, Goods!db
  <1>9. failures' \in 0 .. MaxFailures
    <2>1. UNCHANGED failures \/ (failures < MaxFailures /\ failures' = failures + 1)
      BY DEF GoodsStepOf, Goods!Create, Goods!FindProduct, Goods!Update, Goods!Archive, Goods!Sync,
             Goods!IndexProduct, Goods!RemoveProduct, Goods!ReadSheet, Goods!ImportRow, Goods!EndSheet,
             Goods!ReadAll, Goods!IndexProducts, Goods!Stop, Goods!Served, Goods!Send
    <2> QED
      <3>1. MaxFailures \in Nat
        BY DEF Goods!CatalogueAssumption
      <3>2. failures \in 0 .. MaxFailures
        BY <1>1
      <3> QED
        BY <2>1, <3>1, <3>2
  <1>10. stockPc' \in [StockRequest -> States]
    <2>1. UNCHANGED stockPc \/ \E label \in States : Goods!Goto(r, label)
      BY DEF GoodsStepOf, Goods!Create, Goods!FindProduct, Goods!Update, Goods!Archive, Goods!Sync,
             Goods!IndexProduct, Goods!RemoveProduct, Goods!ReadSheet, Goods!ImportRow, Goods!EndSheet,
             Goods!ReadAll, Goods!IndexProducts, Goods!Stop, Goods!Send
    <2> QED
      BY <1>1, <2>1 DEF Goods!Goto
  <1>11. found' \in [StockRequest -> [Product -> Slot]]
    <2>1. CASE UNCHANGED found
      BY <1>1, <2>1
    <2>2. ASSUME NEW f \in [Product -> Slot], found' = [found EXCEPT ![r] = f]
          PROVE  found' \in [StockRequest -> [Product -> Slot]]
      BY <1>1, <2>2
    <2>3. ASSUME NEW p, NEW y \in Slot, found' = [found EXCEPT ![r][p] = y]
          PROVE  found' \in [StockRequest -> [Product -> Slot]]
      <3>1. [found[r] EXCEPT ![p] = y] \in [Product -> Slot]
        BY <1>1
      <3>2. found' = [found EXCEPT ![r] = [found[r] EXCEPT ![p] = y]]
        BY <2>3
      <3> QED
        BY <1>1, <3>1, <3>2
    <2>4. CASE Goods!Sync(r)
      <3>1. job[r].op \in {"create", "update", "archive"}
        BY <2>4 DEF Goods!Sync, GoodsPathInv
      <3>2. products[l.product] \in Slot
        BY <1>1, <1>3, <3>1
      <3> QED
        BY <2>3, <2>4, <3>2 DEF Goods!Sync
    <2>5. CASE Goods!ReadSheet(r)
      BY <1>1, <2>2, <2>5 DEF Goods!ReadSheet
    <2>6. CASE Goods!ImportRow(r)
      <3>1. products'[l.product] \in Slot
        BY <1>3, <1>6, <2>6 DEF Goods!ImportRow
      <3> QED
        BY <2>1, <2>3, <2>6, <3>1 DEF Goods!ImportRow
    <2>7. CASE Goods!ReadAll(r)
      <3> DEFINE f == [p \in Product |-> IF Goods!Listed(products[p]) THEN products[p] ELSE None]
      <3>1. f \in [Product -> Slot]
        BY <1>1
      <3>2. found' = [found EXCEPT ![r] = f]
        BY <2>7 DEF Goods!ReadAll
      <3> QED
        BY <2>2, <3>1, <3>2
    <2> QED
      BY <2>1, <2>4, <2>5, <2>6, <2>7
      DEF GoodsStepOf, Goods!Create, Goods!FindProduct, Goods!Update, Goods!Archive,
          Goods!IndexProduct, Goods!RemoveProduct, Goods!EndSheet, Goods!IndexProducts, Goods!Stop,
          Goods!Send
  <1>12. row' \in [StockRequest -> Nat \ {0}]
    <2>1. UNCHANGED row \/ row' = [row EXCEPT ![r] = row[r] + 1]
      BY DEF GoodsStepOf, Goods!Create, Goods!FindProduct, Goods!Update, Goods!Archive, Goods!Sync,
             Goods!IndexProduct, Goods!RemoveProduct, Goods!ReadSheet, Goods!ImportRow, Goods!EndSheet,
             Goods!ReadAll, Goods!IndexProducts, Goods!Stop, Goods!Served, Goods!Send
    <2>2. row[r] + 1 \in Nat \ {0}
      <3>1. row[r] \in Nat
        BY <1>1
      <3> QED
        BY <3>1
    <2> QED
      BY <1>1, <2>1, <2>2
  <1>13. open' \in [StockRequest -> SUBSET Product] /\ mixed' \subseteq StockRequest
    <2>1. ASSUME NEW P \in SUBSET Product, Goods!Open(r, P)
          PROVE  open' \in [StockRequest -> SUBSET Product] /\ mixed' \subseteq StockRequest
      BY <1>1, <2>1 DEF Goods!Open
    <2>2. CASE open' = [open EXCEPT ![r] = {}] /\ UNCHANGED mixed
      BY <1>1, <2>2
    <2>3. CASE UNCHANGED <<open, mixed>>
      BY <1>1, <2>3
    <2> QED
      BY <1>2, <2>1, <2>2, <2>3 DEF GoodsEffect, Looked, Wrote, Synced, SentOne, ReadEvery, SentAll
  <1>14. dirty' \subseteq Product
    BY <1>1, <1>2, <1>4 DEF GoodsEffect, Looked, Wrote, Synced, SentOne, ReadEvery, SentAll, Turns
  <1> QED
    BY <1>1, <1>5, <1>6, <1>7, <1>8, <1>9, <1>10, <1>11, <1>12, <1>13, <1>14 DEF Goods!TypeOK

LEMMA RestartStep ==
  ASSUME Goods!CatalogueAssumption, GoodsInv, Goods!Restart
  PROVE  GoodsInv'
  <1> USE DEF GoodsInv, Goods!Restart
  <1>0. \A r \in StockRequest : stockPc'[r] \in {"start", "done", "failed"} /\ open'[r] = {}
    BY DEF Goods!Busy, Goods!TypeOK
  <1>1. Goods!TypeOK'
    <2>1. stockPc' \in [StockRequest -> {"start", "done", "failed"}]
      BY DEF Goods!Busy, Goods!TypeOK
    <2>2. restarts' \in 0 .. MaxRestarts
      <3>1. MaxRestarts \in Nat
        BY DEF Goods!CatalogueAssumption
      <3>2. restarts \in 0 .. MaxRestarts /\ restarts < MaxRestarts /\ restarts' = restarts + 1
        BY DEF Goods!TypeOK
      <3> QED
        BY <3>1, <3>2
    <2>3. UNION {open[r] : r \in StockRequest} \subseteq Product
      <3>1. \A r \in StockRequest : open[r] \subseteq Product
        BY DEF Goods!TypeOK
      <3> QED
        BY <3>1
    <2> QED
      BY <2>1, <2>2, <2>3 DEF Goods!TypeOK
  <1>2. GoodsPathInv'
    BY <1>0 DEF GoodsPathInv
  <1>3. GoodsOpenInv'
    BY <1>0 DEF GoodsOpenInv
  <1>4. MixInv'
    BY <1>0 DEF MixInv
  <1>5. SendInv' /\ ReadInv'
    BY <1>0 DEF SendInv, ReadInv
  <1>6. IndexInv'
    <2>1. ASSUME NEW p \in Product, Quiet(p)' PROVE index'[p] = Current(p)'
      <3>1. Quiet(p)
        BY <2>1 DEF Quiet
      <3> QED
        BY <3>1 DEF IndexInv, Current
    <2> QED
      BY <2>1 DEF IndexInv
  <1> QED
    BY <1>1, <1>2, <1>3, <1>4, <1>5, <1>6

-----------------------------------------------------------------------------
LEMMA GoodsInit == ASSUME Goods!CatalogueAssumption, Goods!Init PROVE GoodsInv
  <1> USE DEF Goods!Init
  <1>1. Goods!TypeOK
    <2>1. failures \in 0 .. MaxFailures /\ restarts \in 0 .. MaxRestarts
      BY DEF Goods!CatalogueAssumption
    <2> QED
      BY <2>1 DEF Goods!TypeOK, Goods!CatalogueAssumption
  <1>2. GoodsPathInv /\ GoodsOpenInv /\ MixInv
    BY DEF GoodsPathInv, GoodsOpenInv, MixInv
  <1>3. SendInv /\ ReadInv
    BY DEF SendInv, ReadInv
  <1>4. IndexInv
    BY DEF IndexInv, Quiet, Current, Goods!Listed
  <1> QED
    BY <1>1, <1>2, <1>3, <1>4 DEF GoodsInv

LEMMA GoodsNext ==
  ASSUME Goods!CatalogueAssumption, GoodsInv, [Goods!Next]_(Goods!vars)
  PROVE  GoodsInv'
  <1>1. CASE UNCHANGED Goods!vars
    <2>1. /\ UNCHANGED <<job, products, index, available, stockPc, found, row>>
          /\ UNCHANGED <<failures, restarts, open, mixed, dirty>>
      BY <1>1 DEF Goods!vars, Goods!db, Goods!ghost
    <2>2. Goods!TypeOK' /\ GoodsOpenInv' /\ MixInv'
      <3>1. Goods!TypeOK' /\ MixInv'
        BY <2>1 DEF GoodsInv, Goods!TypeOK, MixInv
      <3>2. GoodsOpenInv'
        BY <2>1 DEF GoodsInv, GoodsOpenInv, Sent, Goods!Line
      <3> QED
        BY <3>1, <3>2
    <2>3. GoodsPathInv'
      BY <2>1 DEF GoodsInv, GoodsPathInv, Goods!Found, Goods!Line, Sent
    <2>4. SendInv'
      BY <2>1 DEF GoodsInv, SendInv, Current, Goods!Listed, Sent, Goods!Line
    <2>5. IndexInv' /\ ReadInv'
      BY <2>1 DEF GoodsInv, IndexInv, ReadInv, Quiet, Current
    <2> QED
      BY <2>2, <2>3, <2>4, <2>5 DEF GoodsInv
  <1>2. CASE \E r \in StockRequest : GoodsStepOf(r)
    <2>1. PICK r \in StockRequest : GoodsStepOf(r)
      BY <1>2
    <2> USE DEF GoodsInv
    <2>2. Apart(r) /\ GoodsEffect(r)
      BY <2>1, GoodsApart, GoodsSteps
    <2>3. Goods!TypeOK' /\ GoodsPathInv' /\ GoodsOpenInv' /\ MixInv'
      BY <2>1, <2>2, GoodsTypeStep, GoodsPathStep, GoodsOpenStep, MixStep
    <2>4. SendInv' /\ IndexInv' /\ ReadInv'
      BY <2>2, SendStep, IndexStep, ReadStep
    <2> QED
      BY <2>3, <2>4
  <1>3. CASE Goods!Restart
    BY <1>3, RestartStep
  <1> QED
    BY <1>1, <1>2, <1>3 DEF Goods!Next, Goods!Rest, GoodsStepOf

(* A product that nobody has open is quiet, or marked.                     *)
LEMMA IndexIs == ASSUME GoodsInv PROVE Goods!IndexCatchesUp
  BY DEF GoodsInv, IndexInv, Quiet, Current, Goods!Listed, Goods!IndexCatchesUp

-----------------------------------------------------------------------------
(* Prices and amounts.                                                     *)

LEMMA Division ==
  ASSUME NEW a \in Int, NEW b \in Nat \ {0}
  PROVE  a \div b \in Int /\ b * (a \div b) <= a /\ a < b * (a \div b) + b
  OBVIOUS

(* Math.round is the nearest dirham, to half a dirham.                     *)
Nearest(x, n, d) ==
  /\ x \in Int
  /\ \E q \in Int : x = 100 * q /\ 2 * d * q <= 2 * n + d /\ 2 * n < 2 * d * q + d
  /\ n >= 0 => x >= 0

LEMMA Rounding ==
  ASSUME NEW n \in Int, NEW d \in Nat \ {0}, NEW x, x = Amount!RoundToDirham(n, d)
  PROVE  Nearest(x, n, d)
  <1> DEFINE q == (2 * n + d) \div (2 * d)
  <1>1. 2 * n + d \in Int /\ 2 * d \in Nat \ {0}
    OBVIOUS
  <1>2. q \in Int /\ (2 * d) * q <= 2 * n + d /\ 2 * n + d < (2 * d) * q + 2 * d
    BY <1>1, Division
  <1>3. x = 100 * q
    BY DEF Amount!RoundToDirham
  <1> HIDE DEF q
  <1>4. (2 * d) * q = 2 * d * q
    BY <1>2
  <1>5. ASSUME n >= 0 PROVE q >= 0
    <2>1. SUFFICES ASSUME q <= -1 PROVE FALSE
      BY <1>2
    <2>2. 2 * d * q <= -(2 * d)
      BY <1>2, <2>1
    <2> QED
      BY <1>2, <1>4, <1>5, <2>2
  <1> QED
    BY <1>2, <1>3, <1>4, <1>5 DEF Nearest

LEMMA FirstCheapestIs ==
  ASSUME NEW n \in Nat \ {0}, NEW cands, DOMAIN cands = 1 .. n, \A i \in 1 .. n : cands[i].price \in Nat
  PROVE  /\ Amount!FirstCheapest(cands) \in 1 .. n
         /\ \A j \in 1 .. n :
              LET i == Amount!FirstCheapest(cands)
              IN  /\ cands[i].price <= cands[j].price
                  /\ cands[i].price = cands[j].price => i <= j
  <1> DEFINE Prices == {cands[i].price : i \in 1 .. n}
  <1>1. Prices \in SUBSET Nat /\ cands[1].price \in Prices
    OBVIOUS
  <1>2. PICK m \in Prices : \A k \in Prices : m <= k
    <2> HIDE DEF Prices
    <2> QED
      BY <1>1, LeastOf
  <1> DEFINE Cheapest == {i \in 1 .. n : cands[i].price = m}
  <1>3. Cheapest \in SUBSET Nat /\ Cheapest # {}
    OBVIOUS
  <1>4. PICK i \in Cheapest : \A k \in Cheapest : i <= k
    <2> HIDE DEF Cheapest
    <2> QED
      BY <1>3, LeastOf
  <1>5. \A j \in 1 .. n : /\ cands[i].price <= cands[j].price
                          /\ cands[i].price = cands[j].price => i <= j
    BY <1>2, <1>4
  <1>6. i \in DOMAIN cands
    BY <1>4
  <1> QED
    BY <1>5, <1>6 DEF Amount!FirstCheapest

-----------------------------------------------------------------------------
(* The offers of a product, and what a sequence of them says.              *)
Source == {"BASE", "PRODUCT_PROMO", "CATEGORY_PROMOTION", "BRAND_PROMOTION", "STORE_PROMOTION"}
Offer  == [price: Nat, source: Source]

PricesIn(s) == {s[i].price : i \in DOMAIN s}

(* Sources come in the order of their priority, from a to b.               *)
Ranked(s, a, b) ==
  /\ \A i \in DOMAIN s : Amount!Priority(s[i].source) \in a .. b
  /\ \A i, j \in DOMAIN s : i <= j => Amount!Priority(s[i].source) <= Amount!Priority(s[j].source)

LEMMA RankType == \A source \in Source : Amount!Priority(source) \in 1 .. 5
  BY DEF Source, Amount!Priority

LEMMA OffersConcatenate ==
  ASSUME NEW s \in Seq(Offer), NEW t \in Seq(Offer), NEW a \in Nat, NEW b \in Nat, NEW c \in Nat,
         a <= b, b < c, Ranked(s, a, b), Ranked(t, c, c)
  PROVE  /\ s \o t \in Seq(Offer) /\ Len(s \o t) = Len(s) + Len(t)
         /\ \A i \in DOMAIN s : (s \o t)[i] = s[i]
         /\ PricesIn(s \o t) = PricesIn(s) \cup PricesIn(t)
         /\ Ranked(s \o t, a, c)
  <1> DEFINE u == s \o t
             m == Len(s)
             k == Len(t)
  <1>1. /\ u \in Seq(Offer) /\ Len(u) = m + k /\ m \in Nat /\ k \in Nat
        /\ DOMAIN s = 1 .. m /\ DOMAIN t = 1 .. k /\ DOMAIN u = 1 .. m + k
    OBVIOUS
  <1>2. \A i \in 1 .. m + k : u[i] = IF i <= m THEN s[i] ELSE t[i - m]
    OBVIOUS
  <1> HIDE DEF u, m, k
  <1>3. \A i \in DOMAIN s : i \in DOMAIN u /\ u[i] = s[i]
    BY <1>1, <1>2
  <1>4. ASSUME NEW i \in DOMAIN t PROVE m + i \in DOMAIN u /\ u[m + i] = t[i]
    BY <1>1, <1>2
  <1>5. ASSUME NEW i \in DOMAIN u PROVE i \in DOMAIN s \/ (i - m \in DOMAIN t /\ u[i] = t[i - m] /\ i > m)
    BY <1>1, <1>2
  <1>6. PricesIn(u) = PricesIn(s) \cup PricesIn(t)
    <2>1. ASSUME NEW i \in DOMAIN u PROVE u[i].price \in PricesIn(s) \cup PricesIn(t)
      BY <1>3, <1>5 DEF PricesIn
    <2>2. ASSUME NEW i \in DOMAIN s PROVE s[i].price \in PricesIn(u)
      BY <1>3 DEF PricesIn
    <2>3. ASSUME NEW i \in DOMAIN t PROVE t[i].price \in PricesIn(u)
      BY <1>4 DEF PricesIn
    <2> QED
      BY <2>1, <2>2, <2>3 DEF PricesIn
  <1>7. Ranked(u, a, c)
    <2> DEFINE rank(x) == Amount!Priority(x.source)
    <2>1. \A i \in DOMAIN s : rank(s[i]) \in a .. b
      BY DEF Ranked
    <2>2. \A i \in DOMAIN t : rank(t[i]) = c
      BY DEF Ranked
    <2>3. \A i, j \in DOMAIN s : i <= j => rank(s[i]) <= rank(s[j])
      BY DEF Ranked
    <2> HIDE DEF rank
    <2>4. \A i \in DOMAIN u : rank(u[i]) \in a .. c
      BY <1>3, <1>5, <2>1, <2>2
    <2>5. ASSUME NEW i \in DOMAIN u, NEW j \in DOMAIN u, i <= j PROVE rank(u[i]) <= rank(u[j])
      <3>1. CASE j \in DOMAIN s
        <4>1. i \in DOMAIN s
          BY <1>1, <2>5, <3>1
        <4> QED
          BY <1>3, <2>3, <2>5, <3>1, <4>1
      <3>2. CASE j \notin DOMAIN s
        <4>1. rank(u[j]) = c
          BY <1>5, <2>2, <3>2
        <4> QED
          BY <2>4, <4>1
      <3> QED
        BY <3>1, <3>2
    <2> QED
      BY <2>4, <2>5 DEF Ranked, rank
  <1> QED
    BY <1>1, <1>3, <1>6, <1>7 DEF u, m, k

(* The price of each offer of a source, and those of all.                  *)
RulePrices(base, rules) == {Amount!applyRule(base, rules[i]) : i \in DOMAIN rules}
OwnPrices(promo) == {Amount!RoundToDirham(promo[i], 100) : i \in DOMAIN promo}
OfferPrices(b, promo, category, brand, store) ==
  LET base == Amount!RoundToDirham(b, 100)
  IN  {base} \cup OwnPrices(promo) \cup RulePrices(base, category) \cup RulePrices(base, brand)
      \cup RulePrices(base, store)

SamePrices(s, S) == PricesIn(s) = S

(* The least of a set of prices.                                           *)
Least(p, S) == p \in Nat /\ p \in S /\ \A x \in S : x \in Nat /\ p <= x

(* The result is the first of the cheapest.                                *)
Wins(best, s) ==
  \E i \in DOMAIN s :
    /\ best.price = s[i].price /\ best.source = s[i].source
    /\ \A j \in DOMAIN s : /\ s[i].price <= s[j].price
                           /\ s[i].price = s[j].price => i <= j

LEMMA RoundType == ASSUME NEW n \in Nat PROVE Amount!RoundToDirham(n, 100) \in Nat
  BY Rounding DEF Nearest

LEMMA RuleType ==
  ASSUME NEW base \in Nat, NEW rule \in Amount!Rule
  PROVE  Amount!applyRule(base, rule) \in Nat
  <1>1. rule.value \in Nat
    BY DEF Amount!Rule
  <1> DEFINE v == rule.value
  <1>2. 100 * base - base * v \in Int /\ base - v \in Int
    BY <1>1
  <1>3. Amount!RoundToDirham(100 * base - base * v, 10000) \in Int
    BY <1>2, Rounding DEF Nearest
  <1>4. Amount!RoundToDirham(base - v, 100) \in Int
    <2>1. 100 \in Nat \ {0} /\ base - v \in Int
      BY <1>2
    <2> HIDE DEF v
    <2> QED
      BY <2>1, Rounding DEF Nearest
  <1> QED
    BY <1>3, <1>4 DEF Amount!applyRule, Amount!Larger

LEMMA RuleOffers ==
  ASSUME NEW base \in Nat, NEW rules \in Seq(Amount!Rule), NEW source \in Source, NEW s,
         s = [i \in DOMAIN rules |-> Amount!Candidate(Amount!applyRule(base, rules[i]), source)]
  PROVE  /\ s \in Seq(Offer) /\ PricesIn(s) = RulePrices(base, rules)
         /\ Ranked(s, Amount!Priority(source), Amount!Priority(source))
  <1>1. \A i \in DOMAIN rules : rules[i] \in Amount!Rule
    OBVIOUS
  <1>2. \A i \in DOMAIN rules : Amount!applyRule(base, rules[i]) \in Nat
    BY <1>1, RuleType
  <1>3. \A i \in DOMAIN rules : s[i] \in Offer /\ s[i].source = source
                                /\ s[i].price = Amount!applyRule(base, rules[i])
    BY <1>2 DEF Amount!Candidate, Offer
  <1>4. DOMAIN rules = 1 .. Len(rules) /\ Len(rules) \in Nat /\ DOMAIN s = DOMAIN rules
    OBVIOUS
  <1>5. s \in [1 .. Len(rules) -> Offer]
    BY <1>3, <1>4
  <1>6. s \in Seq(Offer)
    BY <1>4, <1>5
  <1>7. PricesIn(s) = RulePrices(base, rules)
    BY <1>3, <1>4 DEF PricesIn, RulePrices
  <1>8. Ranked(s, Amount!Priority(source), Amount!Priority(source))
    <2>1. Amount!Priority(source) \in 1 .. 5
      BY RankType
    <2> QED
      BY <1>3, <1>4, <2>1 DEF Ranked
  <1> QED
    BY <1>6, <1>7, <1>8

LEMMA OwnOffers ==
  ASSUME NEW promo \in Seq(Nat), NEW s,
         s = [i \in DOMAIN promo |-> Amount!Candidate(Amount!RoundToDirham(promo[i], 100), "PRODUCT_PROMO")]
  PROVE  s \in Seq(Offer) /\ PricesIn(s) = OwnPrices(promo) /\ Ranked(s, 2, 2)
  <1>1. \A i \in DOMAIN promo : promo[i] \in Nat
    OBVIOUS
  <1>2. \A i \in DOMAIN promo : Amount!RoundToDirham(promo[i], 100) \in Nat
    BY <1>1, RoundType
  <1>3. \A i \in DOMAIN promo : s[i] \in Offer /\ s[i].source = "PRODUCT_PROMO"
                                /\ s[i].price = Amount!RoundToDirham(promo[i], 100)
    BY <1>2 DEF Amount!Candidate, Offer, Source
  <1>4. DOMAIN promo = 1 .. Len(promo) /\ Len(promo) \in Nat /\ DOMAIN s = DOMAIN promo
    OBVIOUS
  <1>5. s \in [1 .. Len(promo) -> Offer]
    BY <1>3, <1>4
  <1>6. s \in Seq(Offer)
    BY <1>4, <1>5
  <1>7. PricesIn(s) = OwnPrices(promo)
    BY <1>3, <1>4 DEF PricesIn, OwnPrices
  <1>8. Amount!Priority("PRODUCT_PROMO") = 2
    BY DEF Amount!Priority
  <1>9. Ranked(s, 2, 2)
    BY <1>3, <1>4, <1>8 DEF Ranked
  <1> QED
    BY <1>6, <1>7, <1>9

(* The list so far: it starts with the base price, and its last offers     *)
(* come from one source.                                                   *)
Rank(source) == Amount!Priority(source)
Begins(s, base, last) ==
  s \in Seq(Offer) /\ Len(s) \in Nat \ {0} /\ s[1].price = base /\ Ranked(s, 1, Rank(last))
Follows(t, source) == t \in Seq(Offer) /\ Ranked(t, Rank(source), Rank(source))
Adjacent(a, c) == Rank(a) \in 1 .. 4 /\ Rank(c) = Rank(a) + 1
Joined(u, s, t) == u = s \o t
Offers(u, s, t) == PricesIn(u) = PricesIn(s) \cup PricesIn(t)

LEMMA OffersJoin ==
  ASSUME NEW s, NEW base, NEW a, NEW t, NEW c, NEW u, Begins(s, base, a), Follows(t, c),
         Adjacent(a, c), Joined(u, s, t)
  PROVE  Begins(u, base, c) /\ Offers(u, s, t)
  <1>1. /\ s \in Seq(Offer) /\ Len(s) \in Nat \ {0} /\ s[1].price = base /\ Ranked(s, 1, Rank(a))
        /\ t \in Seq(Offer) /\ Ranked(t, Rank(c), Rank(c)) /\ u = s \o t
        /\ Rank(a) \in Nat /\ Rank(c) \in Nat /\ 1 <= Rank(a) /\ Rank(a) < Rank(c)
    BY DEF Begins, Follows, Adjacent, Joined
  <1>2. 1 \in DOMAIN s /\ Len(t) \in Nat
    BY <1>1
  <1>3. 1 \in Nat
    OBVIOUS
  <1>4. /\ u \in Seq(Offer) /\ Len(u) = Len(s) + Len(t)
        /\ \A i \in DOMAIN s : u[i] = s[i]
        /\ PricesIn(u) = PricesIn(s) \cup PricesIn(t)
        /\ Ranked(u, 1, Rank(c))
    BY <1>1, <1>3, OffersConcatenate
  <1> QED
    BY <1>1, <1>2, <1>4 DEF Begins, Offers

LEMMA CandidatesAre ==
  ASSUME NEW b \in Nat, NEW promo \in Seq(Nat), NEW category \in Seq(Amount!Rule),
         NEW brand \in Seq(Amount!Rule), NEW store \in Seq(Amount!Rule),
         NEW cands, cands = Amount!Candidates(b, promo, category, brand, store)
  PROVE  /\ cands \in Seq(Offer) /\ Len(cands) \in Nat \ {0}
         /\ cands[1].price = Amount!RoundToDirham(b, 100)
         /\ SamePrices(cands, OfferPrices(b, promo, category, brand, store))
         /\ Ranked(cands, 1, 5)
  <1> DEFINE base == Amount!RoundToDirham(b, 100)
             S(rules, source) == [i \in DOMAIN rules |-> Amount!Candidate(Amount!applyRule(base, rules[i]), source)]
             s1 == <<Amount!Candidate(base, "BASE")>>
             s2 == [i \in DOMAIN promo |-> Amount!Candidate(Amount!RoundToDirham(promo[i], 100), "PRODUCT_PROMO")]
             s3 == S(category, "CATEGORY_PROMOTION")
             s4 == S(brand, "BRAND_PROMOTION")
             s5 == S(store, "STORE_PROMOTION")
  <1>1. cands = s1 \o s2 \o s3 \o s4 \o s5
    BY DEF Amount!Candidates
  <1>2. base \in Nat
    BY RoundType
  <1>3. /\ Amount!Priority("BASE") = 1 /\ Amount!Priority("PRODUCT_PROMO") = 2
        /\ Amount!Priority("CATEGORY_PROMOTION") = 3
        /\ Amount!Priority("BRAND_PROMOTION") = 4 /\ Amount!Priority("STORE_PROMOTION") = 5
    BY DEF Amount!Priority
  <1>4. /\ s1 \in Seq(Offer) /\ Len(s1) = 1 /\ DOMAIN s1 = {1} /\ s1[1].price = base
        /\ PricesIn(s1) = {base} /\ Ranked(s1, 1, 1)
    <2> HIDE DEF base
    <2>1. Amount!Candidate(base, "BASE") \in Offer
      BY <1>2 DEF Amount!Candidate, Offer, Source
    <2>2. s1 \in Seq(Offer) /\ Len(s1) = 1 /\ DOMAIN s1 = {1} /\ s1[1] = Amount!Candidate(base, "BASE")
      BY <2>1
    <2>3. s1[1].price = base /\ s1[1].source = "BASE"
      BY <2>2 DEF Amount!Candidate
    <2> QED
      BY <1>3, <2>2, <2>3 DEF PricesIn, Ranked
  <1>5. s2 \in Seq(Offer) /\ PricesIn(s2) = OwnPrices(promo) /\ Ranked(s2, 2, 2)
    BY OwnOffers
  <1>6. s3 \in Seq(Offer) /\ PricesIn(s3) = RulePrices(base, category) /\ Ranked(s3, 3, 3)
    BY <1>2, <1>3, RuleOffers DEF Source
  <1>7. s4 \in Seq(Offer) /\ PricesIn(s4) = RulePrices(base, brand) /\ Ranked(s4, 4, 4)
    BY <1>2, <1>3, RuleOffers DEF Source
  <1>8. s5 \in Seq(Offer) /\ PricesIn(s5) = RulePrices(base, store) /\ Ranked(s5, 5, 5)
    BY <1>2, <1>3, RuleOffers DEF Source
  <1> HIDE DEF s1, s2, s3, s4, s5, base, S
  <1> DEFINE t2 == s1 \o s2
             t3 == t2 \o s3
             t4 == t3 \o s4
             t5 == t4 \o s5
  <1>9. Joined(t2, s1, s2) /\ Joined(t3, t2, s3) /\ Joined(t4, t3, s4) /\ Joined(t5, t4, s5)
    BY DEF Joined
  <1>12. cands = t5
    BY <1>1
  <1>10. /\ Adjacent("BASE", "PRODUCT_PROMO") /\ Adjacent("PRODUCT_PROMO", "CATEGORY_PROMOTION")
         /\ Adjacent("CATEGORY_PROMOTION", "BRAND_PROMOTION")
         /\ Adjacent("BRAND_PROMOTION", "STORE_PROMOTION")
    BY <1>3 DEF Adjacent, Rank
  <1> HIDE DEF t2, t3, t4, t5
  <1>13. /\ Begins(s1, base, "BASE") /\ Follows(s2, "PRODUCT_PROMO")
         /\ Follows(s3, "CATEGORY_PROMOTION") /\ Follows(s4, "BRAND_PROMOTION")
         /\ Follows(s5, "STORE_PROMOTION")
    <2>1. Len(s1) \in Nat \ {0}
      BY <1>4
    <2> QED
      BY <1>3, <1>4, <1>5, <1>6, <1>7, <1>8, <2>1 DEF Begins, Follows, Rank
  <1>14. Begins(t2, base, "PRODUCT_PROMO") /\ Offers(t2, s1, s2)
    BY <1>9, <1>10, <1>13, OffersJoin
  <1>15. Begins(t3, base, "CATEGORY_PROMOTION") /\ Offers(t3, t2, s3)
    BY <1>9, <1>10, <1>13, <1>14, OffersJoin
  <1>16. Begins(t4, base, "BRAND_PROMOTION") /\ Offers(t4, t3, s4)
    BY <1>9, <1>10, <1>13, <1>15, OffersJoin
  <1>18. Begins(t5, base, "STORE_PROMOTION") /\ Offers(t5, t4, s5)
    BY <1>9, <1>10, <1>13, <1>16, OffersJoin
  <1>17. PricesIn(t5) = {base} \cup OwnPrices(promo) \cup RulePrices(base, category)
                           \cup RulePrices(base, brand) \cup RulePrices(base, store)
    BY <1>4, <1>5, <1>6, <1>7, <1>8, <1>14, <1>15, <1>16, <1>18 DEF Offers
  <1> QED
    BY <1>3, <1>12, <1>17, <1>18 DEF OfferPrices, SamePrices, Begins, Rank, base

-----------------------------------------------------------------------------
(* The offer that wins.                                                    *)
LEMMA BestIs ==
  ASSUME NEW b \in Nat, NEW promo \in Seq(Nat), NEW category \in Seq(Amount!Rule),
         NEW brand \in Seq(Amount!Rule), NEW store \in Seq(Amount!Rule),
         NEW cands, cands = Amount!Candidates(b, promo, category, brand, store),
         NEW best, best = Amount!resolveEffectivePrice(b, promo, category, brand, store)
  PROVE  /\ cands \in Seq(Offer)
         /\ Wins(best, cands)
         /\ best.compareAtPrice # <<>> => best.compareAtPrice[1] > best.price
  <1>1. cands \in Seq(Offer) /\ Len(cands) \in Nat \ {0}
    BY CandidatesAre
  <1> DEFINE n == Len(cands)
             i == Amount!FirstCheapest(cands)
  <1>2. n \in Nat \ {0} /\ DOMAIN cands = 1 .. n
    BY <1>1
  <1>3. \A j \in 1 .. n : cands[j].price \in Nat
    <2>1. \A j \in DOMAIN cands : cands[j] \in Offer
      BY <1>1
    <2> QED
      BY <1>2, <2>1 DEF Offer
  <1>4. /\ i \in 1 .. n
        /\ \A j \in 1 .. n : /\ cands[i].price <= cands[j].price
                             /\ cands[i].price = cands[j].price => i <= j
    <2> HIDE DEF n
    <2> QED
      BY <1>2, <1>3, FirstCheapestIs
  <1>5. best = [price |-> cands[i].price,
                compareAtPrice |-> IF cands[i].price < cands[1].price THEN <<cands[1].price>> ELSE <<>>,
                source |-> cands[i].source]
    BY DEF Amount!resolveEffectivePrice
  <1> HIDE DEF n, i
  <1>6. best.price = cands[i].price /\ best.source = cands[i].source
    BY <1>5
  <1>7. best.compareAtPrice # <<>> => best.compareAtPrice[1] > best.price
    <2>1. best.compareAtPrice = IF cands[i].price < cands[1].price THEN <<cands[1].price>> ELSE <<>>
      BY <1>5
    <2>2. 1 \in 1 .. n
      BY <1>2
    <2>3. cands[i].price \in Nat /\ cands[1].price \in Nat
      BY <1>3, <1>4, <2>2
    <2> QED
      BY <1>6, <2>1, <2>3
  <1> QED
    BY <1>1, <1>2, <1>4, <1>6, <1>7 DEF Wins

LEMMA PriceIs ==
  ASSUME NEW b \in Nat, NEW promo \in Seq(Nat), NEW category \in Seq(Amount!Rule),
         NEW brand \in Seq(Amount!Rule), NEW store \in Seq(Amount!Rule),
         NEW p, p = Amount!Price(b, promo, category, brand, store)
  PROVE  Least(p, OfferPrices(b, promo, category, brand, store))
  <1>1. PICK cands : cands = Amount!Candidates(b, promo, category, brand, store)
    OBVIOUS
  <1>2. PICK best : best = Amount!resolveEffectivePrice(b, promo, category, brand, store)
    OBVIOUS
  <1>3. cands \in Seq(Offer) /\ SamePrices(cands, OfferPrices(b, promo, category, brand, store))
    BY <1>1, CandidatesAre
  <1>9. Wins(best, cands)
    BY <1>1, <1>2, BestIs
  <1>4. PICK i \in DOMAIN cands : /\ best.price = cands[i].price
                                  /\ \A j \in DOMAIN cands : cands[i].price <= cands[j].price
    BY <1>9 DEF Wins
  <1>5. p = best.price
    BY <1>2 DEF Amount!Price
  <1>6. \A j \in DOMAIN cands : cands[j].price \in Nat
    <2>1. \A j \in DOMAIN cands : cands[j] \in Offer
      BY <1>3
    <2> QED
      BY <2>1 DEF Offer
  <1>7. p \in PricesIn(cands) /\ \A x \in PricesIn(cands) : x \in Nat /\ p <= x
    BY <1>4, <1>5, <1>6 DEF PricesIn
  <1>8. p \in Nat
    BY <1>7
  <1> QED
    BY <1>3, <1>7, <1>8 DEF SamePrices, Least

(* The price with all offers is the least of the prices with one of them.  *)
BestAlone(p, b, promo, category, brand, store) ==
  LET alone == {Amount!Price(b, <<>>, <<>>, <<>>, <<>>), Amount!Price(b, promo, <<>>, <<>>, <<>>)}
               \cup {Amount!Price(b, <<>>, <<category[i]>>, <<>>, <<>>) : i \in DOMAIN category}
               \cup {Amount!Price(b, <<>>, <<>>, <<brand[i]>>, <<>>) : i \in DOMAIN brand}
               \cup {Amount!Price(b, <<>>, <<>>, <<>>, <<store[i]>>) : i \in DOMAIN store}
  IN  p \in alone /\ \A x \in alone : p <= x

LEMMA NothingCumulates ==
  ASSUME NEW b \in Nat, NEW promo \in Seq(Nat), NEW category \in Seq(Amount!Rule),
         NEW brand \in Seq(Amount!Rule), NEW store \in Seq(Amount!Rule), NEW p,
         p = Amount!Price(b, promo, category, brand, store)
  PROVE  BestAlone(p, b, promo, category, brand, store)
  <1> DEFINE All == OfferPrices(b, promo, category, brand, store)
             base == Amount!RoundToDirham(b, 100)
             none == Amount!Price(b, <<>>, <<>>, <<>>, <<>>)
             own == Amount!Price(b, promo, <<>>, <<>>, <<>>)
             c(i) == Amount!Price(b, <<>>, <<category[i]>>, <<>>, <<>>)
             d(i) == Amount!Price(b, <<>>, <<>>, <<brand[i]>>, <<>>)
             e(i) == Amount!Price(b, <<>>, <<>>, <<>>, <<store[i]>>)
  <1>1. p \in Nat /\ p \in All /\ \A x \in All : x \in Nat /\ p <= x
    <2>1. Least(p, All)
      BY PriceIs
    <2> QED
      BY <2>1 DEF Least
  <1>2. <<>> \in Seq(Nat) /\ <<>> \in Seq(Amount!Rule) /\ OwnPrices(<<>>) = {} /\ RulePrices(base, <<>>) = {}
    BY DEF OwnPrices, RulePrices
  <1>3. All = {base} \cup OwnPrices(promo) \cup RulePrices(base, category) \cup RulePrices(base, brand)
              \cup RulePrices(base, store)
    BY DEF OfferPrices
  <1>4. none = base
    <2>1. Least(none, OfferPrices(b, <<>>, <<>>, <<>>, <<>>))
      BY <1>2, PriceIs
    <2> QED
      BY <1>2, <2>1 DEF OfferPrices, Least
  <1>5. own \in All /\ \A x \in OwnPrices(promo) : own <= x
    <2> HIDE DEF own
    <2>1. Least(own, OfferPrices(b, promo, <<>>, <<>>, <<>>))
      BY <1>2, PriceIs DEF own
    <2>2. OfferPrices(b, promo, <<>>, <<>>, <<>>) = {base} \cup OwnPrices(promo)
      BY <1>2 DEF OfferPrices
    <2> QED
      BY <1>3, <2>1, <2>2 DEF Least
  <1>6. ASSUME NEW rules \in Seq(Amount!Rule), NEW i \in DOMAIN rules
        PROVE  <<rules[i]>> \in Seq(Amount!Rule) /\ RulePrices(base, <<rules[i]>>) = {Amount!applyRule(base, rules[i])}
    <2>1. rules[i] \in Amount!Rule
      BY <1>6
    <2>2. DOMAIN <<rules[i]>> = {1} /\ <<rules[i]>>[1] = rules[i]
      OBVIOUS
    <2> QED
      BY <2>1, <2>2 DEF RulePrices
  <1>7. ASSUME NEW i \in DOMAIN category PROVE c(i) \in All /\ c(i) <= Amount!applyRule(base, category[i])
    <2> DEFINE one == OfferPrices(b, <<>>, <<category[i]>>, <<>>, <<>>)
               x == Amount!applyRule(base, category[i])
    <2>1. one = {base, x}
      BY <1>2, <1>6 DEF OfferPrices
    <2>2. Least(c(i), one)
      BY <1>2, <1>6, PriceIs
    <2>3. x \in RulePrices(base, category)
      BY DEF RulePrices
    <2> HIDE DEF one, x, c
    <2> QED
      BY <1>3, <2>1, <2>2, <2>3 DEF x, Least
  <1>8. ASSUME NEW i \in DOMAIN brand PROVE d(i) \in All /\ d(i) <= Amount!applyRule(base, brand[i])
    <2> DEFINE one == OfferPrices(b, <<>>, <<>>, <<brand[i]>>, <<>>)
               x == Amount!applyRule(base, brand[i])
    <2>1. one = {base, x}
      BY <1>2, <1>6 DEF OfferPrices
    <2>2. Least(d(i), one)
      BY <1>2, <1>6, PriceIs
    <2>3. x \in RulePrices(base, brand)
      BY DEF RulePrices
    <2> HIDE DEF one, x, d
    <2> QED
      BY <1>3, <2>1, <2>2, <2>3 DEF x, Least
  <1>9. ASSUME NEW i \in DOMAIN store PROVE e(i) \in All /\ e(i) <= Amount!applyRule(base, store[i])
    <2> DEFINE one == OfferPrices(b, <<>>, <<>>, <<>>, <<store[i]>>)
               x == Amount!applyRule(base, store[i])
    <2>1. one = {base, x}
      BY <1>2, <1>6 DEF OfferPrices
    <2>2. Least(e(i), one)
      BY <1>2, <1>6, PriceIs
    <2>3. x \in RulePrices(base, store)
      BY DEF RulePrices
    <2> HIDE DEF one, x, e
    <2> QED
      BY <1>3, <2>1, <2>2, <2>3 DEF x, Least
  <1> DEFINE alone == {none, own} \cup {c(i) : i \in DOMAIN category} \cup {d(i) : i \in DOMAIN brand}
                      \cup {e(i) : i \in DOMAIN store}
  <1> HIDE DEF All, none, own, c, d, e, base
  <1>10. \A x \in alone : x \in All
    BY <1>3, <1>4, <1>5, <1>7, <1>8, <1>9
  <1>11. p \in alone
    <2>1. CASE p = base
      BY <1>4, <2>1
    <2>2. CASE p \in OwnPrices(promo)
      <3>1. own <= p /\ p <= own /\ own \in Nat
        BY <1>1, <1>5, <2>2
      <3>2. own = p
        BY <1>1, <3>1
      <3> QED
        BY <3>2
    <2>3. CASE p \in RulePrices(base, category)
      <3>1. PICK i \in DOMAIN category : p = Amount!applyRule(base, category[i])
        BY <2>3 DEF RulePrices
      <3>2. c(i) <= p /\ p <= c(i) /\ c(i) \in Nat
        BY <1>1, <1>7, <3>1
      <3>3. c(i) = p
        BY <1>1, <3>2
      <3> QED
        BY <3>3
    <2>4. CASE p \in RulePrices(base, brand)
      <3>1. PICK i \in DOMAIN brand : p = Amount!applyRule(base, brand[i])
        BY <2>4 DEF RulePrices
      <3>2. d(i) <= p /\ p <= d(i) /\ d(i) \in Nat
        BY <1>1, <1>8, <3>1
      <3>3. d(i) = p
        BY <1>1, <3>2
      <3> QED
        BY <3>3
    <2>5. CASE p \in RulePrices(base, store)
      <3>1. PICK i \in DOMAIN store : p = Amount!applyRule(base, store[i])
        BY <2>5 DEF RulePrices
      <3>2. e(i) <= p /\ p <= e(i) /\ e(i) \in Nat
        BY <1>1, <1>9, <3>1
      <3>3. e(i) = p
        BY <1>1, <3>2
      <3> QED
        BY <3>3
    <2> QED
      BY <1>1, <1>3, <2>1, <2>2, <2>3, <2>4, <2>5
  <1>12. \A x \in alone : p <= x
    BY <1>1, <1>10
  <1> QED
    BY <1>11, <1>12 DEF BestAlone, none, own, c, d, e

LEMMA OffersAreRight == ASSUME Amount!QuotesAssumption, in \in PriceCases PROVE Amount!BestOfferWins
  <1> DEFINE b == in.basePrice
             promo == in.promoPrice
             category == in.category
             brand == in.brand
             store == in.store
  <1>1. /\ b \in Nat /\ promo \in Seq(Nat) /\ category \in Seq(Amount!Rule)
        /\ brand \in Seq(Amount!Rule) /\ store \in Seq(Amount!Rule)
    <2>1. in \in Amount!PriceInput
      BY DEF Amount!QuotesAssumption
    <2> QED
      BY <2>1 DEF Amount!PriceInput
  <1> DEFINE cands == Amount!Candidates(b, promo, category, brand, store)
             best == Amount!resolveEffectivePrice(b, promo, category, brand, store)
             p == Amount!Price(b, promo, category, brand, store)
  <1>2. p = best.price
    BY DEF Amount!Price
  <1> HIDE DEF b, promo, category, brand, store
  <1>3. /\ cands \in Seq(Offer) /\ Wins(best, cands)
        /\ best.compareAtPrice # <<>> => best.compareAtPrice[1] > best.price
    BY <1>1, BestIs
  <1>4. cands \in Seq(Offer) /\ Ranked(cands, 1, 5)
    BY <1>1, CandidatesAre
  <1>5. BestAlone(p, b, promo, category, brand, store)
    BY <1>1, NothingCumulates
  <1>6. Amount!CheapestAndFirst
    <2> HIDE DEF cands, best
    <2>1. PICK i \in DOMAIN cands :
            /\ best.price = cands[i].price /\ best.source = cands[i].source
            /\ \A j \in DOMAIN cands : /\ cands[i].price <= cands[j].price
                                       /\ cands[i].price = cands[j].price => i <= j
      BY <1>3 DEF Wins
    <2>2. ASSUME NEW j \in DOMAIN cands
          PROVE  /\ best.price <= cands[j].price
                 /\ cands[j].price = best.price =>
                      Amount!Priority(best.source) <= Amount!Priority(cands[j].source)
      BY <1>4, <2>1 DEF Ranked
    <2> QED
      BY <2>2 DEF Amount!CheapestAndFirst, cands, best, b, promo, category, brand, store
  <1>7. Amount!OffersNeverCumulate
    BY <1>2, <1>3, <1>5 DEF Amount!OffersNeverCumulate, BestAlone, b, promo, category, brand, store
  <1> QED
    BY <1>6, <1>7 DEF Amount!BestOfferWins

-----------------------------------------------------------------------------
(* What a coupon takes off whole dirhams is at most what they cost; off    *)
(* centimes, at most half a dirham more.                                   *)
Whole(s) == \E m \in Nat : s = 100 * m

OffAtMost(x, s) == x \in Nat /\ x <= s + 50 /\ (Whole(s) => x <= s)

LEMMA PercentageOff ==
  ASSUME NEW s \in Nat, NEW v \in Nat, v <= 100, NEW x, x = Amount!RoundToDirham(s * v, 10000)
  PROVE  OffAtMost(x, s)
  <1>1. s * v \in Nat /\ s * v <= s * 100
    OBVIOUS
  <1>2. Nearest(x, s * v, 10000)
    <2>1. 10000 \in Nat \ {0} /\ s * v \in Int
      BY <1>1
    <2> QED
      BY <2>1, Rounding
  <1>3. /\ x \in Int /\ x >= 0
        /\ \E q \in Int : x = 100 * q /\ 20000 * q <= 2 * (s * v) + 10000
    BY <1>1, <1>2 DEF Nearest
  <1> DEFINE y == s * v
  <1>4. y \in Nat /\ y <= s * 100
    BY <1>1
  <1>5. PICK q \in Int : x = 100 * q /\ 20000 * q <= 2 * y + 10000
    BY <1>3
  <1> HIDE DEF y
  <1>6. x <= s + 50
    BY <1>4, <1>5
  <1>7. ASSUME NEW m \in Nat, s = 100 * m PROVE x <= s
    BY <1>4, <1>5, <1>7
  <1> QED
    BY <1>3, <1>6, <1>7 DEF OffAtMost, Whole

LEMMA DiscountIs ==
  ASSUME Amount!QuotesAssumption, NEW q \in AmountCases, NEW d,
         d = Amount!calculateCouponDiscount(q.subtotal, q.coupon)
  PROVE  /\ OffAtMost(d, q.subtotal)
         /\ q.coupon.type # "PERCENTAGE" => d <= q.subtotal
  <1> DEFINE s == q.subtotal
             v == q.coupon.value
             percent == q.coupon.type = "PERCENTAGE"
  <1>1. s \in Nat /\ v \in Nat /\ (percent => v <= 100)
    BY DEF Amount!QuotesAssumption, Amount!AmountInput
  <1>2. /\ percent => d = Amount!RoundToDirham(s * v, 10000)
        /\ ~percent => d \in {Amount!Smaller(v, s), 0}
    BY DEF Amount!calculateCouponDiscount
  <1> HIDE DEF s, v, percent
  <1>3. CASE percent
    BY <1>1, <1>2, <1>3, PercentageOff DEF s, percent
  <1>4. CASE ~percent
    <2>1. d \in 0 .. s
      BY <1>1, <1>2, <1>4 DEF Amount!Smaller
    <2> QED
      BY <1>1, <1>4, <2>1 DEF OffAtMost, s, percent
  <1> QED
    BY <1>3, <1>4

Redeems(r, s, d, balance, rate) ==
  /\ r.loyaltyDiscount \in Nat
  /\ r.loyaltyDiscount = 0 \/ d + r.loyaltyDiscount <= s
  /\ r.pointsToRedeem = r.loyaltyDiscount * rate
  /\ r.pointsToRedeem <= 100 * balance

LEMMA RedemptionIs ==
  ASSUME NEW s \in Nat, NEW d \in Nat, NEW balance \in Nat, NEW rate \in Nat, NEW r,
         r = Amount!calculateLoyaltyRedemption(s, d, balance, rate)
  PROVE  Redeems(r, s, d, balance, rate)
  <1> USE DEF Redeems
  <1>1. CASE rate = 0
    BY <1>1 DEF Amount!calculateLoyaltyRedemption
  <1>2. CASE rate # 0
    <2> DEFINE k == balance \div rate
               x == Amount!Smaller(100 * k, Amount!Larger(0, s - d))
    <2>1. r = [loyaltyDiscount |-> x, pointsToRedeem |-> x * rate]
      BY <1>2 DEF Amount!calculateLoyaltyRedemption
    <2>2. k \in Int /\ rate * k <= balance /\ balance < rate * k + rate
      BY <1>2, Division
    <2> HIDE DEF k
    <2>3. k >= 0
      <3>1. SUFFICES ASSUME k <= -1 PROVE FALSE
        BY <2>2
      <3>2. rate * k <= -rate
        BY <1>2, <2>2, <3>1
      <3> QED
        BY <2>2, <3>2
    <2>4. x \in Nat /\ (x = 0 \/ d + x <= s) /\ x <= 100 * k
      BY <2>2, <2>3 DEF Amount!Smaller, Amount!Larger
    <2> HIDE DEF x
    <2>5. x * rate <= 100 * balance
      <3>1. x * rate <= (100 * k) * rate
        BY <2>2, <2>4
      <3>2. (100 * k) * rate = 100 * (rate * k)
        BY <2>2
      <3> QED
        BY <2>2, <2>4, <3>1, <3>2
    <2> QED
      BY <2>1, <2>4, <2>5
  <1> QED
    BY <1>1, <1>2

NearTax(x, total, rate) ==
  /\ x \in Int
  /\ x * (1000 + rate) - total * rate <= 50 * (1000 + rate)
  /\ -(x * (1000 + rate) - total * rate) <= 50 * (1000 + rate)

LEMMA VatIs ==
  ASSUME NEW total \in Nat, NEW rate \in Nat, NEW x, x = Amount!calculateVat(total, rate)
  PROVE  NearTax(x, total, rate)
  <1> DEFINE d == 100 * (1000 + rate)
             y == total * rate
  <1>1. d \in Nat \ {0} /\ y \in Int
    OBVIOUS
  <1>2. x = Amount!RoundToDirham(y, d)
    BY DEF Amount!calculateVat
  <1>3. PICK q \in Int : x = 100 * q /\ 2 * d * q <= 2 * y + d /\ 2 * y < 2 * d * q + d
    <2> HIDE DEF d, y
    <2>1. Nearest(x, y, d)
      BY <1>1, <1>2, Rounding
    <2> QED
      BY <2>1 DEF Nearest
  <1>4. x * (1000 + rate) = d * q
    BY <1>3
  <1>5. 2 * d * q = 2 * (d * q) /\ d * q \in Int
    BY <1>1, <1>3
  <1>6. x \in Int
    BY <1>3
  <1> DEFINE z == d * q
  <1>7. z \in Int /\ 2 * z <= 2 * y + d /\ 2 * y < 2 * z + d
    BY <1>3, <1>5
  <1> HIDE DEF z, d, y
  <1>8. 2 * (z - y) <= d /\ 2 * (y - z) <= d
    BY <1>1, <1>7
  <1>9. x * (1000 + rate) = z /\ total * rate = y /\ d = 2 * (50 * (1000 + rate)) /\ 50 * (1000 + rate) \in Int
    BY <1>4 DEF z, d, y
  <1>10. z - y <= 50 * (1000 + rate) /\ -(z - y) <= 50 * (1000 + rate)
    BY <1>1, <1>7, <1>8, <1>9
  <1> QED
    BY <1>6, <1>9, <1>10 DEF NearTax

LEMMA TotalsAreRight == ASSUME Amount!QuotesAssumption, in \in AmountCases PROVE Amount!TotalAddsUp
  <1> DEFINE s == in.subtotal
             rate == in.redeemRate
             balance == in.balance
             d == Amount!calculateCouponDiscount(s, in.coupon)
             f == Amount!shippingFee(in.fee, in.threshold, s, in.coupon)
             nothing == [loyaltyDiscount |-> 0, pointsToRedeem |-> 0]
             r == IF in.usePoints /\ balance > 0
                  THEN Amount!calculateLoyaltyRedemption(s, d, balance, rate) ELSE nothing
             l == r.loyaltyDiscount
             total == Amount!Larger(0, s - d - l + f)
             vat == Amount!calculateVat(total, in.vatRate)
             paid == Amount!Paid
  <1>1. s \in Nat /\ rate \in Nat /\ balance \in Nat /\ in.vatRate \in Nat /\ in.fee \in Nat
    BY DEF Amount!QuotesAssumption, Amount!AmountInput
  <1>2. d \in Nat /\ d <= s + Amount!Excess
    <2> HIDE DEF d
    <2>1. OffAtMost(d, s) /\ (in.coupon.type # "PERCENTAGE" => d <= s)
      BY DiscountIs DEF d
    <2>2. s % 100 = 0 => Whole(s)
      <3>1. s = 100 * (s \div 100) + (s % 100) /\ s \div 100 \in Nat
        BY <1>1
      <3> QED
        BY <3>1 DEF Whole
    <2> QED
      BY <1>1, <2>1, <2>2 DEF OffAtMost, Amount!Excess, Amount!Centimes
  <1>3. f \in Nat
    BY <1>1 DEF Amount!shippingFee
  <1>4. /\ paid.discount = d /\ paid.fee = f /\ paid.total = total /\ paid.loyaltyDiscount = l
        /\ paid.pointsToRedeem = r.pointsToRedeem /\ paid.vatAmount = vat
    BY DEF Amount!Paid, Amount!checkoutAmounts
  <1> HIDE DEF s, rate, balance, d, f, paid
  <1>5. /\ l \in Nat /\ (l = 0 \/ d + l <= s)
        /\ r.pointsToRedeem = l * rate /\ r.pointsToRedeem <= 100 * balance
    <2>1. CASE in.usePoints /\ balance > 0
      <3>1. r = Amount!calculateLoyaltyRedemption(s, d, balance, rate)
        BY <2>1
      <3>2. l = r.loyaltyDiscount
        OBVIOUS
      <3> HIDE DEF l, r
      <3>3. Redeems(r, s, d, balance, rate)
        BY <1>1, <1>2, <3>1, RedemptionIs
      <3> QED
        BY <3>2, <3>3 DEF Redeems
    <2>2. CASE ~(in.usePoints /\ balance > 0)
      <3>1. r = nothing
        BY <2>2
      <3>2. l = 0 /\ r.pointsToRedeem = 0
        BY <3>1
      <3> HIDE DEF l, r
      <3> QED
        BY <1>1, <1>2, <3>2
    <2> QED
      BY <2>1, <2>2
  <1> HIDE DEF l, r
  <1>6. total \in Nat /\ s - d - l + f <= total /\ total <= s - d - l + f + Amount!Excess
    <2>1. Amount!Excess \in Nat
      BY DEF Amount!Excess
    <2> QED
      BY <1>1, <1>2, <1>3, <1>5, <2>1 DEF Amount!Larger
  <1> HIDE DEF total
  <1>7. /\ vat \in Int
        /\ vat * (1000 + in.vatRate) - total * in.vatRate <= 50 * (1000 + in.vatRate)
        /\ -(vat * (1000 + in.vatRate) - total * in.vatRate) <= 50 * (1000 + in.vatRate)
    <2> DEFINE v == in.vatRate
    <2>1. vat = Amount!calculateVat(total, v) /\ v \in Nat
      BY <1>1
    <2> HIDE DEF vat
    <2>2. NearTax(vat, total, v)
      <3> HIDE DEF v
      <3> QED
        BY <1>6, <2>1, VatIs
    <2> QED
      BY <2>2 DEF NearTax
  <1> HIDE DEF vat
  <1>8. Amount!PointsPayProductsOnly
    BY <1>2, <1>4, <1>5 DEF Amount!PointsPayProductsOnly, paid, s, rate, balance
  <1>9. Amount!SumAndTax
    BY <1>4, <1>6, <1>7 DEF Amount!SumAndTax, paid, s
  <1> QED
    BY <1>8, <1>9 DEF Amount!TotalAddsUp

-----------------------------------------------------------------------------
(* The whole: the part a behaviour picked keeps its invariant.             *)
GoodsKeeps  == part = "goods" => GoodsInv
ImageKeeps  == part = "image" => ImageInv
AmountKeeps == part = "amount" => in \in PriceCases \cup AmountCases
BackOfficeInv == GoodsKeeps /\ ImageKeeps /\ AmountKeeps

(* A step of the whole is a step of the part, or none of it.               *)
LEMMA StepOfPart ==
  ASSUME [Next]_vars
  PROVE  /\ part' = part
         /\ part = "goods" => [Goods!Next]_(Goods!vars)
         /\ part = "image" => [Image!Next]_(Image!vars)
         /\ part = "amount" => in' = in
  <1>1. CASE UNCHANGED vars
    BY <1>1 DEF vars, goodsVars, imageVars, Goods!vars, Goods!db, Goods!ghost, Image!vars
  <1>2. CASE GoodsStep
    BY <1>2 DEF GoodsStep
  <1>3. CASE ImageStep
    BY <1>3 DEF ImageStep
  <1>4. CASE AmountStep
    BY <1>4 DEF AmountStep, Amount!Next
  <1> QED
    BY <1>1, <1>2, <1>3, <1>4 DEF Next

LEMMA BackOfficeInit == Init => BackOfficeInv
  <1> SUFFICES ASSUME Init PROVE BackOfficeInv
    OBVIOUS
  <1>1. GoodsKeeps
    BY BackOfficeAssumption, GoodsInit DEF Init, GoodsKeeps, BackOfficeAssumption
  <1>2. ImageKeeps
    BY BackOfficeAssumption, ImageInit DEF Init, ImageKeeps, BackOfficeAssumption
  <1>3. AmountKeeps
    BY DEF Init, AmountKeeps, Amount!Init
  <1> QED
    BY <1>1, <1>2, <1>3 DEF BackOfficeInv

LEMMA BackOfficeNext == BackOfficeInv /\ [Next]_vars => BackOfficeInv'
  <1> SUFFICES ASSUME BackOfficeInv, [Next]_vars PROVE BackOfficeInv'
    OBVIOUS
  <1> USE StepOfPart, BackOfficeAssumption DEF BackOfficeInv, BackOfficeAssumption
  <1>1. GoodsKeeps'
    BY GoodsNext DEF GoodsKeeps
  <1>2. ImageKeeps'
    BY ImageNext DEF ImageKeeps
  <1>3. AmountKeeps'
    BY DEF AmountKeeps
  <1> QED
    BY <1>1, <1>2, <1>3

LEMMA BackOfficeInductive == Spec => []BackOfficeInv
  BY BackOfficeInit, BackOfficeNext, PTL DEF Spec

-----------------------------------------------------------------------------
(* Products, index, pictures and storage hold what their columns allow,    *)
(* whatever requests overlap, calls fail or restarts come between:         *)
(* ProductsService, SearchService, StorageService, HeroBannersService.     *)
THEOREM BackOfficeKeepsItsTypes == Spec => []TypeOK
  <1>1. BackOfficeInv => TypeOK
    BY DEF BackOfficeInv, GoodsKeeps, ImageKeeps, GoodsInv, ImageInv, TypeOK
  <1> QED
    BY <1>1, BackOfficeInductive, PTL

(* Whenever nobody has a product open, the engine holds the document of    *)
(* its row, or none if it is not on sale; except where a call was refused, *)
(* a restart came between, two requests were mixed up or an import changed *)
(* it: ProductsService.syncToSearch, importFromExcel, reindexSearch.       *)
THEOREM EngineFollowsTheProducts == Spec => []IndexCatchesUp
  <1>1. BackOfficeInv => IndexCatchesUp
    BY IndexIs DEF BackOfficeInv, GoodsKeeps, IndexCatchesUp
  <1> QED
    BY <1>1, BackOfficeInductive, PTL

(* A picture that a product page or the home page shows has its two files, *)
(* whatever call failed and whoever removes it meanwhile: addImage uploads *)
(* before it inserts, removeImage deletes the row before the files.        *)
THEOREM ShownPicturesHaveFiles == Spec => []RowsHaveFiles
  <1>1. BackOfficeInv => RowsHaveFiles
    BY DEF BackOfficeInv, ImageKeeps, ImageInv, RowsHaveFiles
  <1> QED
    BY <1>1, BackOfficeInductive, PTL

(* A file that no row names is one a call failed for, one on its way in or *)
(* out, or the picture of a banner that was replaced or removed:           *)
(* addImage, removeImage, HeroBannersService.update and remove.            *)
THEOREM FilesHaveAReason == Spec => []OrphansExplained
  <1>1. BackOfficeInv => OrphansExplained
    BY OrphansAre DEF BackOfficeInv, ImageKeeps, OrphansExplained
  <1> QED
    BY <1>1, BackOfficeInductive, PTL

(* Whatever the price of a product and however many promotions of its      *)
(* category, brand and the store run at once, the price is that of the best*)
(* one alone, and the source shown is the first of the cheapest:           *)
(* resolveEffectivePrice.                                                  *)
THEOREM BestOfferAlwaysWins == Spec => []BestOfferWins
  <1>1. BackOfficeInv => BestOfferWins
    BY BackOfficeAssumption, OffersAreRight
    DEF BackOfficeAssumption, BackOfficeInv, AmountKeeps, BestOfferWins, Amount!BestOfferWins
  <1> QED
    BY <1>1, BackOfficeInductive, PTL

(* Whatever a basket costs, its coupon, the points and the rates: the      *)
(* amounts written in the order add up, points pay for products only and   *)
(* never exceed the balance, and the VAT is right to half a dirham:        *)
(* calculateCouponDiscount, calculateLoyaltyRedemption, calculateVat and   *)
(* OrdersService.checkout.                                                 *)
THEOREM AmountsAlwaysAddUp == Spec => []TotalAddsUp
  <1>1. BackOfficeInv => TotalAddsUp
    BY BackOfficeAssumption, TotalsAreRight
    DEF BackOfficeAssumption, BackOfficeInv, AmountKeeps, TotalAddsUp, Amount!TotalAddsUp
  <1> QED
    BY <1>1, BackOfficeInductive, PTL
=============================================================================

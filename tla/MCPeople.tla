------------------------------ MODULE MCPeople ------------------------------
(***************************************************************************)
(* A small instance of People for TLC.                                     *)
(***************************************************************************)
EXTENDS People

CONSTANTS s1, r1, r2, r3, r4, r5, r6, e1, e2, p1, p2, t1, t2, home, ann, bob,
          carl, dina, clerk, temp, twin, read, write, q1, q2, q3, q4, q5, q6, q7, q8, q9, h3

(* A first visit: a double click on "add" (r1, r2), a removal (r3), a      *)
(* guest's add (r4) through the link that r5 hands out, and a quantity     *)
(* typed in (r6).                                                          *)
MCCartOp == [r \in CartRequest |->
  CASE r = r3 -> "remove" [] r = r4 -> "follow" [] r = r5 -> "share" [] r = r6 -> "set" [] OTHER -> "add"]
MCSkuOf  == [r \in CartRequest |-> s1]
MCQty    == [r \in CartRequest |-> IF r \in {r1, r4} THEN 1 ELSE 2]
Plenty   == [s \in {s1} |-> 5]

(* Two guests (r1, r2) with one email and one phone number between them,   *)
(* one of them registering (r3), a family member on the same phone (r5),   *)
(* a customer who moves to the address they use (r4), and one of them on   *)
(* the cart that customer shares (r6).                                     *)
MCOrderOp == [r \in OrderRequest |-> CASE r = r3 -> "register" [] r = r4 -> "change" [] OTHER -> "guest"]
MCEmailOf == [r \in OrderRequest |-> IF r = r5 THEN None ELSE e1]
MCPhoneOf == [r \in OrderRequest |-> CASE r = r3 -> p2 [] r = r4 -> None [] OTHER -> p1]
MCSelf    == [r \in OrderRequest |-> 1]
MCBound   == [r \in OrderRequest |-> IF r = r6 THEN 1 ELSE None]
MCKnown   == <<[email |-> e2, phone |-> None, password |-> TRUE, by |-> None]>>

(* Two tabs of one browser; two hearts in one tab and one in another.      *)
OneBrowser == [t \in Tab |-> home]
MCTabOf    == [h \in Heart |-> IF h = h3 THEN t2 ELSE t1]

(* An administrator and the clerk she promotes (q8) deactivate each other  *)
(* (q1, q2); the clerk's role is saved twice at once (q3, q4); a temporary *)
(* role, its first member, its removal (q5, q6, q7), another of its code   *)
(* (q9).                                                                   *)
Job(op, by, m, z, act, c) == [op |-> op, by |-> by, member |-> m, role |-> z, active |-> act, codes |-> c]
MCTeamOrder == [r \in TeamRequest |->
  CASE r = q1 -> Job("update", ann, carl, None, FALSE, {})
    [] r = q2 -> Job("update", carl, ann, None, FALSE, {})
    [] r = q3 -> Job("save", ann, None, clerk, None, {read})
    [] r = q4 -> Job("save", carl, None, clerk, None, {write})
    [] r = q5 -> Job("create", ann, None, temp, None, {write})
    [] r = q6 -> Job("hire", carl, dina, temp, None, {})
    [] r = q7 -> Job("remove", ann, None, temp, None, {})
    [] r = q8 -> Job("update", ann, carl, Super, None, {})
    [] r = q9 -> Job("create", ann, None, twin, None, {read})]
MCStaff == [m \in Member |->
  CASE m = ann  -> [role |-> Super, active |-> TRUE]
    [] m = carl -> [role |-> clerk, active |-> TRUE]
    [] OTHER    -> None]
MCRoles  == [z \in Role |-> CASE z = Super -> {} [] z = clerk -> {read, UserManage} [] OTHER -> None]
MCNameOf == [z \in Role |-> IF z = twin THEN temp ELSE z]
=============================================================================

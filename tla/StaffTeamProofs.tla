-------------------------- MODULE StaffTeamProofs --------------------------
(***************************************************************************)
(* Proofs about StaffTeam, for any accounts, roles and requests: its type  *)
(* invariant, that administrators who go one by one leave one, and that a  *)
(* role is what it was last saved with.                                    *)
(***************************************************************************)
EXTENDS StaffTeam, TLAPS, FiniteSetTheorems

(* The labels a request goes through, by what it is.                       *)
Stages(op) ==
  CASE op = "update" -> {"update", "count", "role", "write"}
    [] op = "hire"   -> {"hire", "insert"}
    [] op = "create" -> {"create"}
    [] op = "save"   -> {"save", "insert codes"}
    [] op = "remove" -> {"remove", "delete"}

Ends == {"start", "done", "refused"}

(* A request stays on its own path; one that writes an account has found   *)
(* it, and no account is ever deleted.                                     *)
StageInv ==
  \A r \in Request :
    /\ pc[r] \in Ends \cup Stages(Order[r].op)
    /\ pc[r] \in {"count", "role", "write"} => team[Order[r].member] # None

(* As long as no two of them crossed, an administrator is left, and one    *)
(* more for every request that goes by a count.                            *)
TwoAdmins == \E a, b \in ActiveAdmins : a # b
Excused   == raced \/ \E r \in Request : Demoted(r)
AdminInv ==
  \/ Excused
  \/ ActiveAdmins # {} /\ ((\E q \in Request : Counted(q)) => TwoAdmins)

(* A role that is still to be created does not exist, and nobody saves it. *)
FreshInv ==
  \A r \in Request :
    Order[r].op = "create" /\ pc[r] \in {"start", "create"} =>
      /\ roles[Order[r].role] = None
      /\ \A q \in Request : ~Wiping(q, Order[r].role)

(* A save that nobody crossed knows the permissions it replaces.           *)
SaveInv ==
  /\ RoleIsLastSave
  /\ \A q \in Request : \A x \in Role \ crossed :
       Wiping(q, x) /\ roles[x] # None => seen[q] = roles[x]
  /\ \A p, q \in Request : \A x \in Role \ crossed :
       Wiping(p, x) /\ Wiping(q, x) => p = q

IInv == TypeOK /\ StageInv /\ AdminInv /\ FreshInv /\ SaveInv

-----------------------------------------------------------------------------
(* What a request is.                                                      *)
LEMMA OrderFacts ==
  ASSUME StaffTeamAssumption, NEW r \in Request
  PROVE  /\ Order[r] \in Save
         /\ Order[r].op \in {"update", "hire", "create", "save", "remove"}
         /\ Order[r].codes \in SUBSET Code /\ Order[r].codes # None
         /\ Order[r].role \in Role \cup {None}
         /\ Order[r].active \in BOOLEAN \cup {None}
         /\ Order[r].op \in {"update", "hire"} => Order[r].member \in Member
         /\ Order[r].op # "update" => Order[r].role \in Role
  BY DEF StaffTeamAssumption, Save

LEMMA StageFacts ==
  ASSUME StaffTeamAssumption, StageInv, NEW r \in Request
  PROVE  /\ pc[r] \in {"update", "count", "role", "write"} => Order[r].op = "update"
         /\ pc[r] \in {"hire", "insert"} => Order[r].op = "hire"
         /\ pc[r] = "create" => Order[r].op = "create"
         /\ pc[r] \in {"save", "insert codes"} => Order[r].op = "save"
         /\ pc[r] \in {"remove", "delete"} => Order[r].op = "remove"
  BY OrderFacts DEF StageInv, Ends, Stages

LEMMA RefuseTypes ==
  ASSUME TypeOK, NEW r \in Request, Refuse(r)
  PROVE  TypeOK'
  BY DEF Refuse, Goto, TypeOK, Label

LEMMA TypeStep ==
  ASSUME StaffTeamAssumption, TypeOK, StageInv, [Next]_vars
  PROVE  TypeOK'
  <1>1. ASSUME NEW r \in Request, Admit(r) PROVE TypeOK'
    BY <1>1, OrderFacts DEF Admit, Goto, TypeOK, Label
  <1>2. ASSUME NEW r \in Request, ReadMember(r) PROVE TypeOK'
    <2>1. Order[r].member \in Member
      BY <1>2, StageFacts, OrderFacts DEF ReadMember
    <2>2. CASE Refuse(r)
      BY <2>2, RefuseTypes
    <2>3. CASE ~Refuse(r)
      <3>1. /\ team[Order[r].member] # None
            /\ seen' = [seen EXCEPT ![r] = team[Order[r].member].role]
            /\ pc' = [pc EXCEPT ![r] = IF Order[r].active = FALSE /\ team[Order[r].member].role = Super
                                       THEN "count" ELSE "role"]
            /\ UNCHANGED <<team, roles, saved, crossed, raced>>
        BY <1>2, <2>3 DEF ReadMember, Goto
      <3>2. team[Order[r].member].role \in Role
        BY <2>1, <3>1 DEF TypeOK, Account
      <3> QED
        BY <3>1, <3>2 DEF TypeOK, Label
    <2> QED
      BY <2>2, <2>3
  <1>3. ASSUME NEW r \in Request, CountAdmins(r) \/ ReadRole(r) PROVE TypeOK'
    BY <1>3 DEF CountAdmins, ReadRole, Goto, TypeOK, Label
  <1>4. ASSUME NEW r \in Request, WriteMember(r) PROVE TypeOK'
    <2>1. CASE Refuse(r)
      BY <2>1, RefuseTypes
    <2>2. CASE ~Refuse(r)
      <3> DEFINE o == Order[r]
                 m == Order[r].member
      <3>1. /\ RoleFound(r) /\ team' = Updated(m, o)
            /\ raced' = (raced \/ (m \in ActiveAdmins \ ActiveAdmins' /\ Races(r)))
            /\ pc' = [pc EXCEPT ![r] = "done"] /\ UNCHANGED <<roles, seen, saved, crossed>>
            /\ pc[r] = "write"
        BY <1>4, <2>2 DEF WriteMember, Goto
      <3>2. m \in Member /\ team[m] # None /\ team[m] \in Account
        BY <3>1, StageFacts, OrderFacts DEF StageInv, TypeOK
      <3>3. /\ team' = [team EXCEPT ![m] = team'[m]]
            /\ team'[m] = [role   |-> IF o.role = None THEN team[m].role ELSE o.role,
                           active |-> IF o.active = None THEN team[m].active ELSE o.active]
        BY <3>1, <3>2 DEF Updated, TypeOK
      <3>4. team'[m] \in Account /\ roles[team'[m].role] # None
        <4>1. o.role # None => o.role \in Role /\ roles[o.role] # None
          BY <3>1, OrderFacts DEF RoleFound
        <4>2. roles[team[m].role] # None
          BY <3>2 DEF TypeOK
        <4> QED
          BY <3>2, <3>3, <4>1, <4>2, OrderFacts DEF Account
      <3>5. raced' \in BOOLEAN
        BY <3>1 DEF TypeOK
      <3> HIDE DEF m, o
      <3> QED
        BY <3>1, <3>2, <3>3, <3>4, <3>5 DEF TypeOK, Label
    <2> QED
      BY <2>1, <2>2
  <1>5. ASSUME NEW r \in Request, HireMember(r) PROVE TypeOK'
    BY <1>5, RefuseTypes DEF HireMember, Goto, TypeOK, Label
  <1>6. ASSUME NEW r \in Request, InsertMember(r) PROVE TypeOK'
    <2>1. CASE Refuse(r)
      BY <2>1, RefuseTypes
    <2>2. CASE ~Refuse(r)
      <3>1. Order[r].member \in Member /\ Order[r].role \in Role
        BY <1>6, StageFacts, OrderFacts DEF InsertMember
      <3>2. /\ team' = [team EXCEPT ![Order[r].member] = [role |-> Order[r].role, active |-> TRUE]]
            /\ RoleFound(r) /\ pc' = [pc EXCEPT ![r] = "done"]
            /\ UNCHANGED <<roles, seen, saved, crossed, raced>>
        BY <1>6, <2>2 DEF InsertMember, Goto
      <3>3. roles[Order[r].role] # None
        BY <3>1, <3>2 DEF RoleFound, StaffTeamAssumption
      <3>4. [role |-> Order[r].role, active |-> TRUE] \in Account
        BY <3>1 DEF Account
      <3> QED
        BY <3>1, <3>2, <3>3, <3>4 DEF TypeOK, Label
    <2> QED
      BY <2>1, <2>2
  <1>7. ASSUME NEW r \in Request, CreateRole(r) PROVE TypeOK'
    <2>1. Order[r].role \in Role /\ Order[r].codes \in SUBSET Code /\ Order[r].codes # None
      BY <1>7, StageFacts, OrderFacts DEF CreateRole
    <2>2. CASE Refuse(r)
      BY <2>2, RefuseTypes
    <2>3. CASE ~Refuse(r)
      <3>1. /\ roles' = [roles EXCEPT ![Order[r].role] = Order[r].codes]
            /\ saved' = [saved EXCEPT ![Order[r].role] = Order[r].codes]
            /\ pc' = [pc EXCEPT ![r] = "done"] /\ UNCHANGED <<team, seen, crossed, raced>>
        BY <1>7, <2>3 DEF CreateRole, Goto
      <3>2. \A m \in Member : team[m] # None => roles'[team[m].role] # None
        BY <2>1, <3>1 DEF TypeOK, Account
      <3> QED
        BY <2>1, <3>1, <3>2 DEF TypeOK, Label
    <2> QED
      BY <2>2, <2>3
  <1>8. ASSUME NEW r \in Request, WipeCodes(r) PROVE TypeOK'
    <2>1. Order[r].role \in Role
      BY <1>8, StageFacts, OrderFacts DEF WipeCodes
    <2>2. roles[Order[r].role] \in (SUBSET Code) \cup {None}
      BY <2>1 DEF TypeOK
    <2>3. CASE Refuse(r)
      BY <2>3, RefuseTypes
    <2>4. CASE ~Refuse(r)
      <3>1. /\ seen' = [seen EXCEPT ![r] = roles[Order[r].role]]
            /\ crossed' \in {crossed, crossed \cup {Order[r].role}}
            /\ pc' = [pc EXCEPT ![r] = "insert codes"] /\ UNCHANGED <<team, roles, saved, raced>>
        BY <1>8, <2>4 DEF WipeCodes, Goto
      <3>2. seen' \in [Request -> Role \cup (SUBSET Code) \cup {None}]
        BY <2>2, <3>1 DEF TypeOK
      <3> QED
        BY <2>1, <3>1, <3>2 DEF TypeOK, Label
    <2> QED
      BY <2>3, <2>4
  <1>9. ASSUME NEW r \in Request, InsertCodes(r) PROVE TypeOK'
    <2>1. Order[r].role \in Role /\ Order[r].codes \in SUBSET Code
      BY <1>9, StageFacts, OrderFacts DEF InsertCodes
    <2>2. CASE Refuse(r)
      BY <2>2, RefuseTypes
    <2>3. CASE ~Refuse(r)
      <3>1. /\ roles[Order[r].role] # None
            /\ roles' = [roles EXCEPT ![Order[r].role] = AfterSave(r)]
            /\ saved' = [saved EXCEPT ![Order[r].role] = Order[r].codes]
            /\ pc' = [pc EXCEPT ![r] = "done"] /\ UNCHANGED <<team, crossed, raced>>
            /\ seen' = [q \in Request |-> IF q # r /\ Wiping(q, Order[r].role) THEN {} ELSE seen[q]]
        BY <1>9, <2>3 DEF InsertCodes, Goto
      <3>2. roles[Order[r].role] \in SUBSET Code
        BY <2>1, <3>1 DEF TypeOK
      <3>3. AfterSave(r) \in SUBSET Code /\ AfterSave(r) # None
        BY <2>1, <3>2 DEF AfterSave, StaffTeamAssumption
      <3> QED
        BY <2>1, <3>1, <3>3 DEF TypeOK, Label, Account
    <2> QED
      BY <2>2, <2>3
  <1>10. ASSUME NEW r \in Request, CheckRemoval(r) PROVE TypeOK'
    BY <1>10 DEF CheckRemoval, Goto, TypeOK, Label
  <1>11. ASSUME NEW r \in Request, DeleteRole(r) PROVE TypeOK'
    <2>1. Order[r].role \in Role
      BY <1>11, StageFacts, OrderFacts DEF DeleteRole
    <2>2. CASE Refuse(r)
      BY <2>2, RefuseTypes
    <2>3. CASE ~Refuse(r)
      <3>1. /\ roles' = [roles EXCEPT ![Order[r].role] = None] /\ Holders(Order[r].role) = {}
            /\ pc' = [pc EXCEPT ![r] = "done"] /\ UNCHANGED <<team, seen, saved, crossed, raced>>
        BY <1>11, <2>3 DEF DeleteRole, Goto
      <3>2. \A m \in Member : team[m] # None => roles'[team[m].role] # None
        BY <2>1, <3>1 DEF TypeOK, Account, Holders
      <3> QED
        BY <2>1, <3>1, <3>2 DEF TypeOK, Label
    <2> QED
      BY <2>2, <2>3
  <1>12. CASE Rest \/ UNCHANGED vars
    BY <1>12 DEF Rest, vars, TypeOK
  <1> QED
    BY <1>1, <1>2, <1>3, <1>4, <1>5, <1>6, <1>7, <1>8, <1>9, <1>10, <1>11, <1>12 DEF Next

-----------------------------------------------------------------------------
RequestStep(r) ==
  \/ Admit(r)
  \/ ReadMember(r) \/ CountAdmins(r) \/ ReadRole(r) \/ WriteMember(r)
  \/ HireMember(r) \/ InsertMember(r)
  \/ CreateRole(r) \/ WipeCodes(r) \/ InsertCodes(r) \/ CheckRemoval(r) \/ DeleteRole(r)

LEMMA NextCases == [Next]_vars => UNCHANGED vars \/ \E r \in Request : RequestStep(r)
  BY DEF Next, Rest, RequestStep

(* A request moves alone, and none leaves its end; only a save that another*)
(* crossed is told that the rows it saw are gone.                          *)
LEMMA OthersWait ==
  ASSUME TypeOK, NEW r \in Request, RequestStep(r)
  PROVE  /\ \A q \in Request \ {r} :
              /\ pc'[q] = pc[q]
              /\ \/ seen'[q] = seen[q]
                 \/ Wiping(r, Order[r].role) /\ Wiping(q, Order[r].role)
         /\ pc[r] \notin {"done", "refused"}
  BY DEF RequestStep, Admit, ReadMember, CountAdmins, ReadRole, WriteMember, HireMember,
         InsertMember, CreateRole, WipeCodes, InsertCodes, CheckRemoval, DeleteRole,
         Refuse, Goto, TypeOK, Wiping

(* What an update that goes through does to the account.                   *)
LEMMA WriteFacts ==
  ASSUME StaffTeamAssumption, TypeOK, StageInv, NEW r \in Request, WriteMember(r), ~Refuse(r)
  PROVE  LET o == Order[r]
             m == Order[r].member
         IN  /\ pc[r] = "write" /\ o.op = "update" /\ pc'[r] = "done"
             /\ UNCHANGED <<roles, seen, saved, crossed>>
             /\ raced' = (raced \/ (m \in ActiveAdmins \ ActiveAdmins' /\ Races(r)))
             /\ m \in Member /\ team[m] \in Account /\ team[m] # None
             /\ \A n \in Member \ {m} : team'[n] = team[n]
             /\ team'[m] = [role   |-> IF o.role = None THEN team[m].role ELSE o.role,
                            active |-> IF o.active = None THEN team[m].active ELSE o.active]
  <1>1. /\ pc[r] = "write" /\ Order[r].op = "update"
        /\ team' = Updated(Order[r].member, Order[r])
        /\ pc' = [pc EXCEPT ![r] = "done"]
        /\ UNCHANGED <<roles, seen, saved, crossed>>
        /\ raced' = (raced \/ (Order[r].member \in ActiveAdmins \ ActiveAdmins' /\ Races(r)))
    BY DEF WriteMember, Goto
  <1>2. Order[r].member \in Member /\ team[Order[r].member] # None
    BY <1>1, OrderFacts DEF StageInv
  <1> QED
    BY <1>1, <1>2 DEF Updated, TypeOK

LEMMA NoAccountIsNone ==
  ASSUME StaffTeamAssumption PROVE \A a \in Account : a # None
  BY DEF StaffTeamAssumption

LEMMA MembersStay ==
  ASSUME StaffTeamAssumption, TypeOK, StageInv, NEW r \in Request, RequestStep(r)
  PROVE  \A m \in Member : team[m] # None => team'[m] # None
  <1>1. CASE UNCHANGED team
    BY <1>1
  <1>2. CASE WriteMember(r) /\ ~Refuse(r)
    <2> DEFINE m == Order[r].member
    <2>1. m \in Member /\ \A n \in Member \ {m} : team'[n] = team[n]
      BY <1>2, WriteFacts
    <2>2. team'[m] # None
      <3>1. team[m].role \in Role /\ team[m].active \in BOOLEAN
        BY <1>2, WriteFacts DEF Account
      <3>2. team'[m] \in Account
        <4>1. team'[m] = [role   |-> IF Order[r].role = None THEN team[m].role ELSE Order[r].role,
                          active |-> IF Order[r].active = None THEN team[m].active ELSE Order[r].active]
          BY <1>2, WriteFacts
        <4>2. /\ Order[r].role \in Role \cup {None}
              /\ Order[r].active \in BOOLEAN \cup {None}
          BY OrderFacts
        <4> HIDE DEF m
        <4> QED
          BY <3>1, <4>1, <4>2 DEF Account
      <3> QED
        BY <3>2, NoAccountIsNone
    <2> QED
      BY <2>1, <2>2
  <1>3. CASE InsertMember(r) /\ ~Refuse(r)
    <2>1. /\ Order[r].member \in Member /\ Order[r].role \in Role
      BY <1>3, StageFacts, OrderFacts DEF InsertMember
    <2>2. team' = [team EXCEPT ![Order[r].member] = [role |-> Order[r].role, active |-> TRUE]]
      BY <1>3 DEF InsertMember
    <2>3. [role |-> Order[r].role, active |-> TRUE] # None
      <3>1. [role |-> Order[r].role, active |-> TRUE] \in Account
        BY <2>1 DEF Account
      <3> QED
        BY <3>1, NoAccountIsNone
    <2> QED
      BY <2>1, <2>2, <2>3 DEF TypeOK
  <1> QED
    BY <1>1, <1>2, <1>3
    DEF RequestStep, Admit, ReadMember, CountAdmins, ReadRole, WriteMember, HireMember,
        InsertMember, CreateRole, WipeCodes, InsertCodes, CheckRemoval, DeleteRole, Refuse

LEMMA StageStep ==
  ASSUME StaffTeamAssumption, TypeOK, StageInv, NEW r \in Request, RequestStep(r)
  PROVE  StageInv'
  <1>1. \A q \in Request \ {r} : pc'[q] = pc[q]
    BY OthersWait
  <1>2. \A m \in Member : team[m] # None => team'[m] # None
    BY MembersStay
  <1>3. \A q \in Request : pc[q] \in {"count", "role", "write"} => Order[q].member \in Member
    BY StageFacts, OrderFacts
  <1>4. pc'[r] \in Ends \cup Stages(Order[r].op)
    <2>1. CASE Admit(r)
      BY <2>1, OrderFacts DEF Admit, Goto, TypeOK, Ends, Stages
    <2>2. CASE ~Admit(r)
      BY <2>2, StageFacts
      DEF RequestStep, ReadMember, CountAdmins, ReadRole, WriteMember, HireMember,
          InsertMember, CreateRole, WipeCodes, InsertCodes, CheckRemoval, DeleteRole, Refuse,
          Goto, TypeOK, Ends, Stages
    <2> QED
      BY <2>1, <2>2
  <1>5. pc'[r] \in {"count", "role", "write"} => team[Order[r].member] # None
                                                /\ Order[r].member \in Member
    <2>1. CASE Admit(r)
      BY <2>1, OrderFacts DEF Admit, Goto, TypeOK
    <2>2. CASE ReadMember(r)
      BY <2>2, StageFacts, OrderFacts DEF ReadMember, Refuse, Goto, TypeOK
    <2>3. CASE CountAdmins(r) \/ ReadRole(r)
      BY <1>3, <2>3 DEF CountAdmins, ReadRole, StageInv
    <2>4. CASE ~(Admit(r) \/ ReadMember(r) \/ CountAdmins(r) \/ ReadRole(r))
      BY <2>4
      DEF RequestStep, WriteMember, HireMember, InsertMember, CreateRole, WipeCodes,
          InsertCodes, CheckRemoval, DeleteRole, Refuse, Goto, TypeOK
    <2> QED
      BY <2>1, <2>2, <2>3, <2>4
  <1> QED
    BY <1>1, <1>2, <1>3, <1>4, <1>5 DEF StageInv

-----------------------------------------------------------------------------
(* More than one is two.                                                   *)
LEMMA NotTheLast ==
  ASSUME StaffTeamAssumption, ~LastAdmin
  PROVE  TwoAdmins
  <1>1. IsFiniteSet(ActiveAdmins)
    BY FS_Subset DEF StaffTeamAssumption, ActiveAdmins, Admins
  <1>2. Cardinality(ActiveAdmins) \in Nat
    BY <1>1, FS_CardinalityType
  <1>3. ActiveAdmins # {}
    BY <1>2, FS_EmptySet DEF LastAdmin
  <1>4. PICK a : a \in ActiveAdmins
    BY <1>3
  <1>5. ActiveAdmins # {a}
    <2>1. Cardinality({a}) = 1
      BY FS_Singleton
    <2>2. Cardinality(ActiveAdmins) # 1
      BY <1>2 DEF LastAdmin
    <2> QED
      BY <2>1, <2>2
  <1> QED
    BY <1>4, <1>5 DEF TwoAdmins

LEMMA ExcusedStays ==
  ASSUME TypeOK, NEW r \in Request, RequestStep(r), Excused
  PROVE  Excused'
  <1>1. raced => raced'
    BY DEF RequestStep, Admit, ReadMember, CountAdmins, ReadRole, WriteMember, HireMember,
           InsertMember, CreateRole, WipeCodes, InsertCodes, CheckRemoval, DeleteRole, Refuse
  <1>2. ASSUME NEW q \in Request, Demoted(q) PROVE Demoted(q)'
    BY <1>2, OthersWait DEF Demoted
  <1> QED
    BY <1>1, <1>2 DEF Excused

(* A request is newly counted only by the count.                           *)
LEMMA CountedSteps ==
  ASSUME StaffTeamAssumption, TypeOK, StageInv, NEW r \in Request, RequestStep(r)
  PROVE  /\ \A q \in Request \ {r} : Counted(q)' => Counted(q)
         /\ Counted(r)' => Counted(r) \/ (CountAdmins(r) /\ ~LastAdmin)
  <1>1. \A q \in Request \ {r} : Counted(q)' => Counted(q)
    BY OthersWait DEF Counted, Wiping
  <1>2. CASE Admit(r)
    BY <1>2, OrderFacts DEF Admit, Goto, TypeOK, Counted
  <1>3. CASE ReadMember(r)
    BY <1>3 DEF ReadMember, Refuse, Goto, TypeOK, Counted
  <1>4. CASE CountAdmins(r)
    BY <1>4 DEF CountAdmins, Goto, TypeOK, Counted
  <1>5. CASE ReadRole(r)
    BY <1>5 DEF ReadRole, Goto, TypeOK, Counted
  <1>7. CASE InsertCodes(r)
    <2>1. pc'[r] \in {"done", "refused"}
      BY <1>7 DEF InsertCodes, Refuse, Goto, TypeOK
    <2> QED
      BY <1>1, <2>1 DEF Counted
  <1>6. CASE ~(Admit(r) \/ ReadMember(r) \/ CountAdmins(r) \/ ReadRole(r) \/ InsertCodes(r))
    BY <1>6
    DEF RequestStep, WriteMember, HireMember, InsertMember, CreateRole, WipeCodes,
        CheckRemoval, DeleteRole, Refuse, Goto, TypeOK, Counted
  <1> QED
    BY <1>1, <1>2, <1>3, <1>4, <1>5, <1>6, <1>7

LEMMA AdminStep ==
  ASSUME StaffTeamAssumption, TypeOK, StageInv, AdminInv, NEW r \in Request, RequestStep(r)
  PROVE  AdminInv'
  <1> SUFFICES ASSUME ~Excused'
               PROVE  /\ ActiveAdmins' # {}
                      /\ \A q \in Request : Counted(q)' => TwoAdmins'
    BY DEF AdminInv
  <1>1. /\ ActiveAdmins # {}
        /\ \A q \in Request : Counted(q) => TwoAdmins
    BY ExcusedStays DEF AdminInv
  <1>2. CASE UNCHANGED team
    <2>1. ActiveAdmins' = ActiveAdmins /\ (TwoAdmins => TwoAdmins')
      BY <1>2 DEF ActiveAdmins, Admins, TwoAdmins
    <2> QED
      BY <1>1, <2>1, CountedSteps, NotTheLast
  <1>3. CASE WriteMember(r) /\ ~Refuse(r)
    <2> DEFINE o == Order[r]
               m == Order[r].member
    <2>1. /\ o.op = "update" /\ pc[r] = "write" /\ pc'[r] = "done"
          /\ m \in Member /\ team[m] \in Account /\ team[m] # None
          /\ \A n \in Member \ {m} : team'[n] = team[n]
          /\ team'[m] = [role   |-> IF o.role = None THEN team[m].role ELSE o.role,
                         active |-> IF o.active = None THEN team[m].active ELSE o.active]
      BY <1>3, WriteFacts
    <2>2. raced' = (raced \/ (m \in ActiveAdmins \ ActiveAdmins' /\ Races(r)))
      BY <1>3, WriteFacts
    <2>3. o.role \in {None, Super}
      BY <2>1 DEF Excused, Demoted
    <2>4. \A n \in Member \ {m} : n \in ActiveAdmins' <=> n \in ActiveAdmins
      BY <2>1 DEF ActiveAdmins, Admins
    <2>5. \A q \in Request : Counted(q)' => q # r /\ Counted(q)
      BY <2>1, CountedSteps DEF Counted
    <2>6. ActiveAdmins \subseteq Member
      BY DEF ActiveAdmins, Admins
    <2>7. CASE m \in ActiveAdmins \ ActiveAdmins'
      <3>1. ~Races(r)
        BY <2>2, <2>7 DEF Excused
      <3>2. team[m].role = Super /\ team[m].active
        BY <2>7 DEF ActiveAdmins, Admins
      <3>3. team'[m] # None
        BY <1>3, <2>1, MembersStay DEF RequestStep
      <3>4. ~(team'[m].role = Super /\ team'[m].active)
        BY <2>1, <2>7, <3>3 DEF ActiveAdmins, Admins
      <3>5. team'[m].role = Super
        BY <2>1, <2>3, <3>2
      <3>6. o.active = FALSE
        BY <2>1, <3>2, <3>4, <3>5, OrderFacts
      <3>7. Counted(r)
        BY <2>1, <3>1, <3>6 DEF Counted, Races
      <3>8. PICK a, b \in ActiveAdmins : a # b
        BY <1>1, <3>7 DEF TwoAdmins
      <3>9. ActiveAdmins' # {}
        BY <2>4, <2>6, <3>8
      <3>10. \A q \in Request : ~Counted(q)'
        BY <2>5, <3>1 DEF Races
      <3> QED
        BY <3>9, <3>10
    <2>8. CASE m \notin ActiveAdmins \ ActiveAdmins'
      <3>1. ActiveAdmins \subseteq ActiveAdmins'
        BY <2>4, <2>6, <2>8
      <3> QED
        BY <1>1, <2>5, <3>1 DEF TwoAdmins
    <2> QED
      BY <2>7, <2>8
  <1>4. CASE InsertMember(r) /\ ~Refuse(r)
    <2>1. Order[r].member \in Member /\ Order[r].role \in Role
      BY <1>4, StageFacts, OrderFacts DEF InsertMember
    <2>2. /\ team[Order[r].member] = None /\ pc'[r] = "done"
          /\ team' = [team EXCEPT ![Order[r].member] = [role |-> Order[r].role, active |-> TRUE]]
      BY <1>4 DEF InsertMember, Goto, TypeOK
    <2>3. ActiveAdmins \subseteq ActiveAdmins'
      BY <2>1, <2>2 DEF ActiveAdmins, Admins, TypeOK
    <2>4. \A q \in Request : Counted(q)' => Counted(q)
      BY <2>2, CountedSteps DEF Counted
    <2> QED
      BY <1>1, <2>3, <2>4 DEF TwoAdmins
  <1> QED
    BY <1>2, <1>3, <1>4
    DEF RequestStep, Admit, ReadMember, CountAdmins, ReadRole, WriteMember, HireMember,
        InsertMember, CreateRole, WipeCodes, InsertCodes, CheckRemoval, DeleteRole, Refuse

-----------------------------------------------------------------------------
(* Only deleteMany starts a save, and of a role there is.                  *)
LEMMA WipingSteps ==
  ASSUME StaffTeamAssumption, TypeOK, StageInv, NEW r \in Request, RequestStep(r)
  PROVE  /\ \A q \in Request \ {r} : \A x \in Role : Wiping(q, x)' <=> Wiping(q, x)
         /\ \A x \in Role : Wiping(r, x)' => WipeCodes(r) /\ ~Refuse(r) /\ x = Order[r].role
  <1>1. \A q \in Request \ {r} : \A x \in Role : Wiping(q, x)' <=> Wiping(q, x)
    BY OthersWait DEF Wiping
  <1>2. CASE Admit(r)
    BY <1>2, OrderFacts DEF Admit, Goto, TypeOK, Wiping
  <1>3. CASE WipeCodes(r)
    BY <1>3 DEF WipeCodes, Refuse, Goto, TypeOK, Wiping
  <1>4. CASE ~(Admit(r) \/ WipeCodes(r))
    BY <1>4
    DEF RequestStep, ReadMember, CountAdmins, ReadRole, WriteMember, HireMember, InsertMember,
        CreateRole, InsertCodes, CheckRemoval, DeleteRole, Refuse, Goto, TypeOK, Wiping
  <1> QED
    BY <1>1, <1>2, <1>3, <1>4

(* The requests that change what a role is, and how.                       *)
LEMMA RoleSteps ==
  ASSUME StaffTeamAssumption, TypeOK, StageInv, NEW r \in Request, RequestStep(r)
  PROVE  \/ UNCHANGED <<roles, saved>>
         \/ /\ Order[r].role \in Role /\ pc'[r] = "done" /\ crossed' = crossed
            /\ \A x \in Role \ {Order[r].role} : roles'[x] = roles[x] /\ saved'[x] = saved[x]
            /\ \/ /\ pc[r] = "create" /\ Order[r].op = "create"
                  /\ roles'[Order[r].role] = Order[r].codes /\ saved'[Order[r].role] = Order[r].codes
               \/ /\ Wiping(r, Order[r].role)
                  /\ roles[Order[r].role] # None
                  /\ roles'[Order[r].role] = AfterSave(r) /\ saved'[Order[r].role] = Order[r].codes
               \/ roles'[Order[r].role] = None
  <1>1. CASE CreateRole(r) /\ ~Refuse(r)
    <2>1. Order[r].role \in Role /\ Order[r].op = "create"
      BY <1>1, StageFacts, OrderFacts DEF CreateRole
    <2>2. /\ pc[r] = "create" /\ pc'[r] = "done" /\ crossed' = crossed
          /\ roles' = [roles EXCEPT ![Order[r].role] = Order[r].codes]
          /\ saved' = [saved EXCEPT ![Order[r].role] = Order[r].codes]
      BY <1>1 DEF CreateRole, Goto, TypeOK
    <2> QED
      BY <2>1, <2>2 DEF TypeOK
  <1>2. CASE InsertCodes(r) /\ ~Refuse(r)
    <2>1. Order[r].role \in Role
      BY <1>2, StageFacts, OrderFacts DEF InsertCodes
    <2>2. /\ pc[r] = "insert codes" /\ pc'[r] = "done" /\ crossed' = crossed
          /\ roles[Order[r].role] # None
          /\ roles' = [roles EXCEPT ![Order[r].role] = AfterSave(r)]
          /\ saved' = [saved EXCEPT ![Order[r].role] = Order[r].codes]
      BY <1>2 DEF InsertCodes, Goto, TypeOK
    <2> QED
      BY <2>1, <2>2 DEF TypeOK, Wiping
  <1>3. CASE DeleteRole(r) /\ ~Refuse(r)
    <2>1. Order[r].role \in Role
      BY <1>3, StageFacts, OrderFacts DEF DeleteRole
    <2>2. /\ pc'[r] = "done" /\ crossed' = crossed /\ saved' = saved
          /\ roles' = [roles EXCEPT ![Order[r].role] = None]
      BY <1>3 DEF DeleteRole, Goto, TypeOK
    <2> QED
      BY <2>1, <2>2 DEF TypeOK
  <1>4. CASE Refuse(r) \/ ~(CreateRole(r) \/ InsertCodes(r) \/ DeleteRole(r))
    BY <1>4
    DEF RequestStep, Admit, ReadMember, CountAdmins, ReadRole, WriteMember, HireMember,
        InsertMember, WipeCodes, CheckRemoval, Refuse
  <1> QED
    BY <1>1, <1>2, <1>3, <1>4

LEMMA FreshStep ==
  ASSUME StaffTeamAssumption, TypeOK, StageInv, FreshInv, NEW r \in Request, RequestStep(r)
  PROVE  FreshInv'
  <1> SUFFICES ASSUME NEW p \in Request, Order[p].op = "create", pc'[p] \in {"start", "create"}
               PROVE  /\ roles'[Order[p].role] = None
                      /\ \A q \in Request : ~Wiping(q, Order[p].role)'
    BY DEF FreshInv
  <1>1. pc[p] \in {"start", "create"}
    <2>1. CASE p # r
      BY <2>1, OthersWait
    <2>2. CASE p = r /\ Admit(r)
      BY <2>2 DEF Admit
    <2>3. CASE p = r /\ ~Admit(r)
      BY <2>3
      DEF RequestStep, ReadMember, CountAdmins, ReadRole, WriteMember, HireMember, InsertMember,
          CreateRole, WipeCodes, InsertCodes, CheckRemoval, DeleteRole, Refuse, Goto, TypeOK
    <2> QED
      BY <2>1, <2>2, <2>3
  <1>2. /\ Order[p].role \in Role /\ roles[Order[p].role] = None
        /\ \A q \in Request : ~Wiping(q, Order[p].role)
    BY <1>1, OrderFacts DEF FreshInv
  <1>3. roles'[Order[p].role] = None
    <2>1. CASE UNCHANGED roles
      BY <1>2, <2>1
    <2>2. CASE Order[r].role # Order[p].role
      BY <1>2, <2>2, RoleSteps
    <2>3. CASE ~UNCHANGED roles /\ Order[r].role = Order[p].role
      <3>1. p # r
        BY <2>3, RoleSteps
      <3>2. Order[r].op # "create"
        BY <2>3, <3>1 DEF StaffTeamAssumption
      <3> QED
        BY <1>2, <2>3, <3>2, RoleSteps
    <2> QED
      BY <2>1, <2>2, <2>3
  <1>4. ASSUME NEW q \in Request, Wiping(q, Order[p].role)' PROVE FALSE
    <2>1. q = r /\ WipeCodes(r) /\ ~Refuse(r) /\ Order[p].role = Order[r].role
      BY <1>2, <1>4, WipingSteps
    <2>2. roles[Order[r].role] # None
      BY <2>1 DEF WipeCodes
    <2> QED
      BY <1>2, <2>1, <2>2
  <1> QED
    BY <1>3, <1>4

LEMMA SaveStep ==
  ASSUME StaffTeamAssumption, TypeOK, StageInv, FreshInv, SaveInv, NEW r \in Request, RequestStep(r)
  PROVE  SaveInv'
  <1> DEFINE y == Order[r].role
  <1>1. crossed \subseteq crossed'
    BY DEF RequestStep, Admit, ReadMember, CountAdmins, ReadRole, WriteMember, HireMember,
           InsertMember, CreateRole, WipeCodes, InsertCodes, CheckRemoval, DeleteRole, Refuse
  <1>2. SUFFICES ASSUME NEW x \in Role, x \notin crossed'
                 PROVE  /\ roles'[x] # None => roles'[x] = saved'[x]
                        /\ \A q \in Request : Wiping(q, x)' /\ roles'[x] # None => seen'[q] = roles'[x]
                        /\ \A p, q \in Request : Wiping(p, x)' /\ Wiping(q, x)' => p = q
    BY DEF SaveInv, RoleIsLastSave
  <1>3. /\ x \notin crossed
        /\ roles[x] # None => roles[x] = saved[x]
        /\ \A q \in Request : Wiping(q, x) /\ roles[x] # None => seen[q] = roles[x]
        /\ \A p, q \in Request : Wiping(p, x) /\ Wiping(q, x) => p = q
    BY <1>1, <1>2 DEF SaveInv, RoleIsLastSave
  <1>4. CASE WipeCodes(r) /\ ~Refuse(r)
    <2>1. /\ UNCHANGED <<roles, saved>> /\ seen'[r] = roles[y]
          /\ crossed' = IF \E q \in Request : Wiping(q, y) THEN crossed \cup {y} ELSE crossed
      BY <1>4 DEF WipeCodes, TypeOK
    <2>2. CASE x = y
      <3>1. \A q \in Request : ~Wiping(q, x)
        BY <1>2, <2>1, <2>2
      <3>2. \A q \in Request : Wiping(q, x)' => q = r
        BY <3>1, WipingSteps
      <3> QED
        BY <1>3, <2>1, <2>2, <3>2
    <2>3. CASE x # y
      <3>1. \A q \in Request : Wiping(q, x)' => Wiping(q, x) /\ q # r
        BY <2>3, WipingSteps
      <3>2. ~Wiping(r, y)
        BY <1>4 DEF WipeCodes, Wiping
      <3>3. \A q \in Request : Wiping(q, x)' => seen'[q] = seen[q]
        BY <3>1, <3>2, OthersWait
      <3> QED
        BY <1>3, <2>1, <3>1, <3>3
    <2> QED
      BY <2>2, <2>3
  <1>5. CASE ~(WipeCodes(r) /\ ~Refuse(r))
    <2>1. \A q \in Request : Wiping(q, x)' => Wiping(q, x) /\ q # r
      BY <1>5, WipingSteps
    <2>2. \A q \in Request : Wiping(q, x)' => seen'[q] = seen[q]
      <3> SUFFICES ASSUME NEW q \in Request, Wiping(q, x), q # r, Wiping(r, y), Wiping(q, y)
                   PROVE  FALSE
        BY <2>1, OthersWait
      <3>1. x = y
        BY DEF Wiping
      <3> QED
        BY <1>3, <3>1
    <2>3. CASE roles'[x] = roles[x] /\ saved'[x] = saved[x]
      BY <1>3, <2>1, <2>2, <2>3
    <2>4. CASE roles'[x] = None
      BY <1>3, <2>1, <2>4
    <2>5. CASE ~(roles'[x] = roles[x] /\ saved'[x] = saved[x]) /\ roles'[x] # None
      <3>1. x = y
        BY <2>5, RoleSteps
      <3>2. CASE pc[r] = "create" /\ Order[r].op = "create"
        <4>1. roles'[x] = saved'[x]
          BY <2>5, <3>1, <3>2, RoleSteps DEF Wiping
        <4>2. \A q \in Request : ~Wiping(q, x)
          BY <3>1, <3>2 DEF FreshInv
        <4> QED
          BY <2>1, <4>1, <4>2
      <3>3. CASE ~(pc[r] = "create" /\ Order[r].op = "create")
        <4>1. /\ Wiping(r, x) /\ roles[x] # None
              /\ roles'[x] = AfterSave(r) /\ saved'[x] = Order[r].codes
          BY <2>5, <3>1, <3>3, RoleSteps
        <4>2. seen[r] = roles[x]
          BY <1>3, <4>1
        <4>3. AfterSave(r) = Order[r].codes
          BY <3>1, <4>2 DEF AfterSave
        <4>4. \A q \in Request : ~Wiping(q, x)'
          BY <1>3, <2>1, <4>1
        <4> QED
          BY <4>1, <4>3, <4>4
      <3> QED
        BY <3>2, <3>3
    <2> QED
      BY <2>3, <2>4, <2>5
  <1> QED
    BY <1>4, <1>5

-----------------------------------------------------------------------------
LEMMA InitInv == ASSUME StaffTeamAssumption, Init PROVE IInv
  <1>1. TypeOK
    BY DEF StaffTeamAssumption, Init, TypeOK, Label
  <1>2. StageInv
    BY DEF Init, StageInv, Ends
  <1>3. AdminInv
    <2>1. PICK m \in Member : Staff[m] = [role |-> Super, active |-> TRUE]
      BY DEF StaffTeamAssumption
    <2>2. m \in ActiveAdmins
      <3>1. team[m] = [role |-> Super, active |-> TRUE]
        BY <2>1 DEF Init
      <3>2. team[m] \in Account
        BY <3>1 DEF Account, StaffTeamAssumption
      <3> QED
        BY <3>1, <3>2, NoAccountIsNone DEF ActiveAdmins, Admins
    <2>3. \A q \in Request : ~Counted(q)
      BY DEF Init, Counted
    <2> QED
      BY <2>2, <2>3 DEF AdminInv
  <1>4. FreshInv
    BY DEF StaffTeamAssumption, Init, FreshInv, Wiping
  <1>5. SaveInv
    BY DEF Init, SaveInv, RoleIsLastSave, Wiping
  <1> QED
    BY <1>1, <1>2, <1>3, <1>4, <1>5 DEF IInv

LEMMA NextInv == ASSUME StaffTeamAssumption, IInv, [Next]_vars PROVE IInv'
  <1>1. TypeOK'
    BY TypeStep DEF IInv
  <1>2. CASE UNCHANGED vars
    BY <1>2
    DEF vars, IInv, TypeOK, StageInv, AdminInv, TwoAdmins, Excused, Demoted, ActiveAdmins, Admins,
        Counted, FreshInv, Wiping, SaveInv, RoleIsLastSave
  <1>3. ASSUME NEW r \in Request, RequestStep(r) PROVE IInv'
    BY <1>1, <1>3, StageStep, AdminStep, FreshStep, SaveStep DEF IInv
  <1> QED
    BY <1>2, <1>3, NextCases

LEMMA Inductive == ASSUME StaffTeamAssumption PROVE Spec => []IInv
  BY InitInv, NextInv, PTL DEF Spec

(* Accounts, roles and requests keep their types, and an account's role    *)
(* exists: staff-users and roles, whatever requests overlap.               *)
THEOREM TypeCorrect == ASSUME StaffTeamAssumption PROVE Spec => []TypeOK
  <1>1. IInv => TypeOK
    BY DEF IInv
  <1> QED
    BY <1>1, Inductive, PTL

(* Administrators deactivated one by one leave one: the count of           *)
(* staff-users.service.ts:53-62 fails only when a request it included is   *)
(* still under way, or its account was promoted since.                     *)
THEOREM AdminsLeaveOne == ASSUME StaffTeamAssumption PROVE Spec => []AdminsGoOneByOne
  <1>1. IInv => AdminsGoOneByOne
    BY DEF IInv, AdminInv, Excused, AdminsGoOneByOne
  <1> QED
    BY <1>1, Inductive, PTL

(* A role grants what it was last saved with, unless saves of it           *)
(* overlapped: deleteMany and createMany of RolesService.update.           *)
THEOREM RolesAreLastSaves == ASSUME StaffTeamAssumption PROVE Spec => []RoleIsLastSave
  <1>1. IInv => RoleIsLastSave
    BY DEF IInv, SaveInv
  <1> QED
    BY <1>1, Inductive, PTL
=============================================================================

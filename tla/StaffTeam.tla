----------------------------- MODULE StaffTeam -----------------------------
(***************************************************************************)
(* The accounts of the back-office and their roles: staff-users and roles, *)
(* behind PermissionsGuard. Every request is a few statements, and only    *)
(* the two of RolesService.update share a transaction.                     *)
(***************************************************************************)
EXTENDS Naturals, FiniteSets

CONSTANTS
  Member,    \* accounts, named after their email address
  Role,      \* roles, by id: one that is created is a new one
  NameOf,    \* Role.code
  Code,      \* permissions
  Super,     \* SUPER_ADMIN
  UserManage,\* user.manage
  Staff,     \* the accounts there are at first
  Roles,     \* the roles there are at first, with their permissions
  Request,   \* requests, each sent once
  Order,     \* what a request is: [op, by, member, role, active, codes]
  None

Save    == [op: {"update", "hire", "create", "save", "remove"}, by: Member,
            member: Member \cup {None}, role: Role \cup {None},
            active: BOOLEAN \cup {None}, codes: SUBSET Code]
Account == [role: Role, active: BOOLEAN]

(* Nothing in the tables is None. A create makes a role of its own; the    *)
(* seed leaves an active super administrator.                              *)
StaffTeamAssumption ==
  /\ IsFiniteSet(Member)
  /\ None \notin Member \cup Role \cup BOOLEAN \cup Account
  /\ \A c \in SUBSET Code : c # None
  /\ \A c \in SUBSET Code : c \notin Role
  /\ Super \in Role
  /\ Staff \in [Member -> Account \cup {None}]
  /\ Roles \in [Role -> (SUBSET Code) \cup {None}]
  /\ \A m \in Member : Staff[m] # None => Roles[Staff[m].role] # None
  /\ \E m \in Member : Staff[m] = [role |-> Super, active |-> TRUE]
  /\ Order \in [Request -> Save]
  /\ \A r \in Request :
       /\ Order[r].op \in {"update", "hire"} => Order[r].member \in Member
       /\ Order[r].op # "update" => Order[r].role \in Role
       /\ Order[r].op = "create" =>
            /\ Roles[Order[r].role] = None
            /\ \A q \in Request \ {r} : Order[q].op = "create" => Order[q].role # Order[r].role

VARIABLES
  team,    \* StaffUser: [role, active], None when there is none
  roles,   \* Role with its RolePermission rows, None when there is none
  pc,
  seen,    \* what a request read: a role, or the permissions it will delete
  saved,   \* history: the last set of permissions saved for a role
  crossed, \* history: roles two saves of which overlapped
  raced    \* history: an administrator went uncounted, or after another was counted

vars == <<team, roles, pc, seen, saved, crossed, raced>>

Goto(r, label) == pc' = [pc EXCEPT ![r] = label]
Refuse(r) == Goto(r, "refused") /\ UNCHANGED <<team, roles, seen, saved, crossed, raced>>

Admins == {m \in Member : team[m] # None /\ team[m].role = Super}
ActiveAdmins == {m \in Admins : team[m].active}

Init ==
  /\ team = Staff /\ roles = Roles
  /\ pc = [r \in Request |-> "start"]
  /\ seen = [r \in Request |-> None]
  /\ saved = Roles
  /\ crossed = {} /\ raced = FALSE

-----------------------------------------------------------------------------
(* resolveStaffPermissions, read from the database at every request.       *)
May(m, code) ==
  /\ team[m] # None /\ team[m].active
  /\ team[m].role = Super \/ code \in roles[team[m].role]

(* PermissionsGuard.                                                       *)
Admit(r) ==
  /\ pc[r] = "start"
  /\ Goto(r, IF May(Order[r].by, UserManage) THEN Order[r].op ELSE "refused")
  /\ UNCHANGED <<team, roles, seen, saved, crossed, raced>>

-----------------------------------------------------------------------------
(* StaffUsersService.update, up to the count: nobody deactivates their     *)
(* own account.                                                            *)
ReadMember(r) ==
  LET o == Order[r]
  IN  /\ pc[r] = "update"
      /\ \/ /\ team[o.member] = None \/ (o.active = FALSE /\ o.member = o.by)
            /\ Refuse(r)
         \/ /\ team[o.member] # None
            /\ ~(o.active = FALSE /\ o.member = o.by)
            /\ seen' = [seen EXCEPT ![r] = team[o.member].role]
            /\ Goto(r, IF o.active = FALSE /\ team[o.member].role = Super THEN "count" ELSE "role")
            /\ UNCHANGED <<team, roles, saved, crossed, raced>>

(* The last administrator but one may be deactivated as well.              *)
MutLastAdmin == Cardinality(ActiveAdmins) < 1

(* activeSuperAdmins <= 1.                                                 *)
LastAdmin == Cardinality(ActiveAdmins) <= 1

CountAdmins(r) ==
  /\ pc[r] = "count"
  /\ Goto(r, IF LastAdmin THEN "refused" ELSE "role")
  /\ UNCHANGED <<team, roles, seen, saved, crossed, raced>>

RoleFound(r) == Order[r].role \in {None} \cup {x \in Role : roles[x] # None}

ReadRole(r) ==
  /\ pc[r] = "role"
  /\ Goto(r, IF RoleFound(r) THEN "write" ELSE "refused")
  /\ UNCHANGED <<team, roles, seen, saved, crossed, raced>>

(* The writing of update: fields left out of the dto stay. The foreign key *)
(* refuses a role that is gone.                                            *)
Updated(m, o) ==
  [team EXCEPT ![m] = [role   |-> IF o.role = None THEN @.role ELSE o.role,
                       active |-> IF o.active = None THEN @.active ELSE o.active]]

Counted(q) == pc[q] \in {"role", "write"} /\ Order[q].op = "update" /\ Order[q].active = FALSE /\ seen[q] = Super

(* The account r writes off was no administrator when r read it, or        *)
(* another request goes by a count that included it.                       *)
Races(r) == seen[r] # Super \/ \E q \in Request \ {r} : Counted(q)

WriteMember(r) ==
  LET o == Order[r]
  IN  /\ pc[r] = "write" /\ o.op = "update"
      /\ \/ ~RoleFound(r) /\ Refuse(r)
         \/ /\ RoleFound(r)
            /\ team' = Updated(o.member, o)
            /\ raced' = (raced \/ (o.member \in ActiveAdmins \ ActiveAdmins' /\ Races(r)))
            /\ Goto(r, "done")
            /\ UNCHANGED <<roles, seen, saved, crossed>>

(* create: the role is read, the password hashed, the row inserted.        *)
HireMember(r) ==
  LET o == Order[r]
  IN  /\ pc[r] = "hire"
      /\ \/ ~RoleFound(r) /\ Refuse(r)
         \/ /\ RoleFound(r)
            /\ Goto(r, "insert")
            /\ UNCHANGED <<team, roles, seen, saved, crossed, raced>>

InsertMember(r) ==
  LET o == Order[r]
  IN  /\ pc[r] = "insert"
      /\ \/ (team[o.member] # None \/ ~RoleFound(r)) /\ Refuse(r)
         \/ /\ team[o.member] = None /\ RoleFound(r)
            /\ team' = [team EXCEPT ![o.member] = [role |-> o.role, active |-> TRUE]]
            /\ Goto(r, "done")
            /\ UNCHANGED <<roles, seen, saved, crossed, raced>>

-----------------------------------------------------------------------------
(* RolesService.create: the code is unique.                                *)
NameTaken(x) == \E y \in Role : roles[y] # None /\ NameOf[y] = NameOf[x]

CreateRole(r) ==
  LET o == Order[r]
  IN  /\ pc[r] = "create"
      /\ \/ NameTaken(o.role) /\ Refuse(r)
         \/ /\ ~NameTaken(o.role)
            /\ roles' = [roles EXCEPT ![o.role] = o.codes]
            /\ saved' = [saved EXCEPT ![o.role] = o.codes]
            /\ Goto(r, "done")
            /\ UNCHANGED <<team, seen, crossed, raced>>

Wiping(q, role) == pc[q] = "insert codes" /\ Order[q].role = role

(* update: deleteMany, which sees the rows committed when it starts.       *)
WipeCodes(r) ==
  LET o == Order[r]
  IN  /\ pc[r] = "save"
      /\ \/ roles[o.role] = None /\ Refuse(r)
         \/ /\ roles[o.role] # None
            /\ seen' = [seen EXCEPT ![r] = roles[o.role]]
            /\ crossed' = IF \E q \in Request : Wiping(q, o.role) THEN crossed \cup {o.role} ELSE crossed
            /\ Goto(r, "insert codes")
            /\ UNCHANGED <<team, roles, saved, raced>>

(* The new permissions are added to the ones the role has.                 *)
MutAfterSave(r) == roles[Order[r].role] \cup Order[r].codes

(* The rows it saw are gone (or already were), its own are added.          *)
AfterSave(r) == (roles[Order[r].role] \ seen[r]) \cup Order[r].codes

(* ... and the insertions, with the commit: a row another save has added   *)
(* in between is a duplicate. The rows that other saves saw before are     *)
(* gone then, and those inserted now are not among theirs.                 *)
InsertCodes(r) ==
  LET o    == Order[r]
      rest == roles[o.role] \ seen[r]
  IN  /\ pc[r] = "insert codes"
      /\ \/ (roles[o.role] = None \/ (rest \cap o.codes # {})) /\ Refuse(r)
         \/ /\ roles[o.role] # None /\ rest \cap o.codes = {}
            /\ roles' = [roles EXCEPT ![o.role] = AfterSave(r)]
            /\ saved' = [saved EXCEPT ![o.role] = o.codes]
            /\ seen' = [q \in Request |-> IF q # r /\ Wiping(q, o.role) THEN {} ELSE seen[q]]
            /\ Goto(r, "done")
            /\ UNCHANGED <<team, crossed, raced>>

(* The members are counted too early, before there are any.                *)
MutHolders(role) == {}

Holders(role) == {m \in Member : team[m] # None /\ team[m].role = role}

(* remove: no member may hold the role; the foreign key says so again.     *)
CheckRemoval(r) ==
  LET o == Order[r]
  IN  /\ pc[r] = "remove"
      /\ Goto(r, IF roles[o.role] = None \/ o.role = Super \/ Holders(o.role) # {} THEN "refused" ELSE "delete")
      /\ UNCHANGED <<team, roles, seen, saved, crossed, raced>>

DeleteRole(r) ==
  LET o == Order[r]
  IN  /\ pc[r] = "delete"
      /\ \/ (roles[o.role] = None \/ Holders(o.role) # {}) /\ Refuse(r)
         \/ /\ roles[o.role] # None /\ Holders(o.role) = {}
            /\ roles' = [roles EXCEPT ![o.role] = None]
            /\ Goto(r, "done")
            /\ UNCHANGED <<team, seen, saved, crossed, raced>>

-----------------------------------------------------------------------------
Rest ==
  /\ \A r \in Request : pc[r] \in {"done", "refused"}
  /\ UNCHANGED vars

Next ==
  \/ \E r \in Request :
       \/ Admit(r)
       \/ ReadMember(r) \/ CountAdmins(r) \/ ReadRole(r) \/ WriteMember(r)
       \/ HireMember(r) \/ InsertMember(r)
       \/ CreateRole(r) \/ WipeCodes(r) \/ InsertCodes(r) \/ CheckRemoval(r) \/ DeleteRole(r)
  \/ Rest

Spec == Init /\ [][Next]_vars

-----------------------------------------------------------------------------
Label == {"start", "update", "count", "role", "write", "hire", "insert", "create", "save",
          "insert codes", "remove", "delete", "done", "refused"}

TypeOK ==
  /\ team \in [Member -> Account \cup {None}]
  /\ roles \in [Role -> (SUBSET Code) \cup {None}]
  /\ pc \in [Request -> Label]
  /\ seen \in [Request -> Role \cup (SUBSET Code) \cup {None}]
  /\ saved \in [Role -> (SUBSET Code) \cup {None}]
  /\ crossed \subseteq Role /\ raced \in BOOLEAN
  /\ \A m \in Member : team[m] # None => roles[team[m].role] # None

Demoted(r) == Order[r].op = "update" /\ Order[r].role \notin {None, Super} /\ pc[r] = "done"

(* An administrator is left, whoever deactivates whom: unless two of them  *)
(* were written off at the same time, one was promoted while he was being  *)
(* written off, or one was given another role (which update does not       *)
(* check).                                                                 *)
AdminsGoOneByOne == raced \/ (\E r \in Request : Demoted(r)) \/ ActiveAdmins # {}

(* A role grants what it was last saved with, no more and no less, unless  *)
(* two saves of it overlapped.                                             *)
RoleIsLastSave == \A x \in Role \ crossed : roles[x] # None => roles[x] = saved[x]

-----------------------------------------------------------------------------
(* The last active super administrator is never deactivated. (The error    *)
(* message of update.)                                                     *)
LastAdminStays == ActiveAdmins # {}
=============================================================================

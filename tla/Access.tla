------------------------------- MODULE Access -------------------------------
(***************************************************************************)
(* Whose permissions decide what (src/src/rbac, src/src/tenant): a request *)
(* is resolved to a tenant, judged by PermissionsGuard, and judged again   *)
(* by RoleService, which then writes the roles of the tenant and the role  *)
(* of a membership, each in a statement of its own.                        *)
(*                                                                         *)
(* Ids of roles and memberships name their tenant, as the rows do.  Names  *)
(* are left out, and so are the requests that only show roles.  Of a       *)
(* membership only the role counts, and only while it is ACTIVE; Members   *)
(* has the rest.                                                           *)
(***************************************************************************)
EXTENDS Naturals, FiniteSets

CONSTANTS
  Requests,    \* concurrent requests
  Users,
  Tenants,
  Manage,      \* the permission role:manage
  Others,      \* the other permissions of the catalog
  FirstRoles,  \* the role of each user in each tenant at first: of that
               \* tenant, or NoRole
  MaxRoles,    \* bound: custom roles ever created in a tenant
  MaxRequests  \* bound: requests ever made

Keys == {Manage} \cup Others
\* Of a snapshot: PermissionSnapshot.isOwner, with every key.
IsOwner == "isOwner"
RoleIds == Tenants \X (0..MaxRoles)
Owner(t) == <<t, 0>>
NoRole == <<"none", 0>>
Home(id) == id[1]

VARIABLES
  role,     \* whether each role is there; an id is given once
  grants,   \* RolePermission rows, by role
  member,   \* Membership rows: the role of an ACTIVE membership, or NoRole
  pc,       \* the statement each request executes next
  req,      \* what it was asked and what it has read
  since,    \* what its actor has held in its tenant at some time since it began
  made      \* requests made so far

vars == <<role, grants, member, pc, req, since, made>>

NoRequest == [op |-> "none", user |-> "none", tenant |-> "none", memo |-> {}]

TypeOK ==
  /\ role \in [RoleIds -> {"none", "present", "deleted"}]
  /\ grants \in [RoleIds -> SUBSET Keys]
  /\ member \in [Users \X Tenants -> RoleIds \cup {NoRole}]
  /\ pc \in [Requests -> {"idle", "assert", "read", "write", "demote"}]
  /\ \A c \in Requests : since[c] \cup req[c].memo \subseteq Keys \cup {IsOwner}
  /\ made \in 0..MaxRequests

\* Every tenant has its owner role and one custom role with every permission.
Init ==
  /\ role = [id \in RoleIds |-> IF id[2] \in {0, 1} THEN "present" ELSE "none"]
  /\ grants = [id \in RoleIds |-> IF id[2] = 1 THEN Keys ELSE {}]
  /\ member = FirstRoles
  /\ pc = [c \in Requests |-> "idle"]
  /\ req = [c \in Requests |-> NoRequest]
  /\ since = [c \in Requests |-> {}]
  /\ made = 0

-----------------------------------------------------------------------------
(* Permissions *)

\* loadSnapshot: through the ACTIVE membership in the context's tenant only.
Snapshot(u, t) ==
  IF member[<<u, t>>] = NoRole THEN {}
  ELSE IF member[<<u, t>>] = Owner(t) THEN Keys \cup {IsOwner}
  ELSE grants[member[<<u, t>>]]

Owners(t) == {u \in Users : member[<<u, t>>] = Owner(t)}

\* findRole: the extension adds the context's tenant to the WHERE.
\* Fault: it does not.
Unscoped(id, t) == role[id] = "present"
Scoped(id, t) == role[id] = "present" /\ Home(id) = t

\* assertBoundedGrants.
\* Fault: whoever manages roles may grant anything.
Unbounded(keys, held) == Manage \in held
Bounded(keys, held) == IsOwner \in held \/ keys \subseteq held

-----------------------------------------------------------------------------
(* A request *)

Held(c) == Snapshot(req[c].user, req[c].tenant)
\* What the actors of the requests under way have held since these began.
Remember ==
  since' = [c \in Requests |->
    IF pc'[c] = "idle" THEN {}
    ELSE (IF pc[c] = "idle" THEN {} ELSE since[c])
           \cup Held(c)']

Stand(c, where, r) ==
  /\ pc' = [pc EXCEPT ![c] = where]
  /\ req' = [req EXCEPT ![c] = r]
Answer(c) == Stand(c, "idle", NoRequest)
rows == <<role, grants, member>>

\* resolveTenant and PermissionsGuard, each in a context of its own, whose memo
\* ends with it.  Whoever passes the second passes the first: one step is both.
Resolved(u, t) == member[<<u, t>>] # NoRole
Admitted(u, t) == Manage \in Snapshot(u, t)
\* TenantContextInterceptor: the handler runs in the tenant the guards resolved.
Enter(c, r) == Stand(c, "assert", r)
Guards(c, r) ==
  /\ made' = made + 1
  /\ Resolved(r.user, r.tenant) /\ Admitted(r.user, r.tenant)
  /\ Enter(c, r)
  /\ UNCHANGED rows

\* assertManage reads the snapshot for the whole of the handler; createRole has
\* nothing else to look up.
AssertManage(c) ==
  LET r == [req[c] EXCEPT !.memo = Held(c)] IN
  /\ pc[c] = "assert"
  /\ IF Manage \notin Held(c) \/ (r.op = "create" /\ ~Bounded(r.keys, r.memo)) THEN Answer(c)
     ELSE Stand(c, IF r.op = "create" THEN "write" ELSE "read", r)
  /\ UNCHANGED <<rows, made>>

\* What each handler demands of the rows it reads: a role of the tenant, which
\* only assignRoleToMembership accepts if it is a system role; and of a member,
\* that it is not the actor.
MayWrite(r) ==
  /\ Scoped(r.role, r.tenant)
  /\ r.op # "assign" => r.role[2] # 0
  /\ r.op = "delete" => \A m \in DOMAIN member : member[m] # r.role
  /\ r.op = "permit" => Bounded(r.keys, r.memo)
  /\ r.op = "assign" =>
       /\ member[r.target] # NoRole /\ r.target[1] # r.user
       /\ r.role = Owner(r.tenant) => IsOwner \in r.memo
Demotes(r) == r.op = "assign" /\ member[r.target] = Owner(r.tenant) /\ r.role # Owner(r.tenant)

FindRole(c) ==
  /\ pc[c] = "read"
  /\ IF MayWrite(req[c])
     THEN Stand(c, IF Demotes(req[c]) THEN "demote" ELSE "write", req[c])
     ELSE Answer(c)
  /\ UNCHANGED <<rows, made>>

Ask(op, u, t, id, keys, target) ==
  [op |-> op, user |-> u, tenant |-> t, role |-> id, keys |-> keys, target |-> target, memo |-> {}]
NoTarget == <<"none", "none">>
\* Role ids of any tenant may be sent to any other; so may those of memberships,
\* which are 404s there.
Begin(c) ==
  /\ pc[c] = "idle" /\ made < MaxRequests
  /\ \E u \in Users, t \in Tenants, id \in {x \in RoleIds : role[x] = "present"} :
       \/ \E keys \in (SUBSET Keys) \ {{}} :
            id = Owner(t) /\ Guards(c, Ask("create", u, t, id, keys, NoTarget))
       \/ \E op \in {"update", "delete"} : Guards(c, Ask(op, u, t, id, {}, NoTarget))
       \/ \E keys \in SUBSET Keys : Guards(c, Ask("permit", u, t, id, keys, NoTarget))
       \/ \E x \in Users : Guards(c, Ask("assign", u, t, id, {}, <<x, t>>))

-----------------------------------------------------------------------------
(* The writes *)

Writing(c, op) == pc[c] = "write" /\ req[c].op = op /\ Answer(c) /\ UNCHANGED made

CreateRole(c) ==
  /\ Writing(c, "create")
  /\ \E n \in 1..MaxRoles : LET id == <<req[c].tenant, n>> IN
       /\ role[id] = "none" /\ \A m \in 1..(n - 1) : role[<<req[c].tenant, m>>] # "none"
       /\ role' = [role EXCEPT ![id] = "present"]
       /\ grants' = [grants EXCEPT ![id] = req[c].keys]
  /\ UNCHANGED member

\* Only the name changes; the update of a role deleted meanwhile fails.
UpdateRole(c) == Writing(c, "update") /\ UNCHANGED rows

\* Membership's foreign key is RESTRICT, RolePermission's CASCADE.
DeleteRole(c) ==
  LET id == req[c].role IN
  /\ Writing(c, "delete")
  /\ IF role[id] = "present" /\ \A m \in DOMAIN member : member[m] # id
     THEN /\ role' = [role EXCEPT ![id] = "deleted"]
          /\ grants' = [grants EXCEPT ![id] = {}]
     ELSE UNCHANGED <<role, grants>>
  /\ UNCHANGED member

\* RolePermission has no tenant: the role alone says whose it is.
AssignPermissions(c) ==
  LET id == req[c].role IN
  /\ Writing(c, "permit")
  /\ grants' = IF role[id] = "present" THEN [grants EXCEPT ![id] = req[c].keys] ELSE grants
  /\ UNCHANGED <<role, member>>

\* The composite foreign key wants a role of the membership's tenant.
Reassigned(r) ==
  IF role[r.role] = "present" /\ Home(r.role) = r.target[2] /\ member[r.target] # NoRole
  THEN [member EXCEPT ![r.target] = r.role] ELSE member
AssignRole(c) ==
  /\ Writing(c, "assign")
  /\ member' = Reassigned(req[c])
  /\ UNCHANGED <<role, grants>>
DemoteOwner(c) ==
  /\ pc[c] = "demote" /\ Answer(c) /\ UNCHANGED made
  /\ member' = IF Cardinality(Owners(req[c].tenant)) > 1 THEN Reassigned(req[c]) ELSE member
  /\ UNCHANGED <<role, grants>>

\* Members: a membership ceases to be ACTIVE.
Leave(m) ==
  /\ member[m] # NoRole
  /\ member[m] = Owner(m[2]) => Cardinality(Owners(m[2])) > 1
  /\ member' = [member EXCEPT ![m] = NoRole]
  /\ UNCHANGED <<role, grants, pc, req, made>>

Step ==
  \/ \E m \in DOMAIN member : Leave(m)
  \/ \E c \in Requests :
       \/ Begin(c) \/ AssertManage(c) \/ FindRole(c)
       \/ CreateRole(c) \/ UpdateRole(c) \/ DeleteRole(c) \/ AssignPermissions(c)
       \/ AssignRole(c) \/ DemoteOwner(c)
Next == Step /\ Remember

Spec == Init /\ [][Next]_vars

-----------------------------------------------------------------------------
(* Properties *)

Author(t, held) ==
  \E c \in Requests : pc[c] \in {"write", "demote"} /\ pc'[c] = "idle" /\ req[c].tenant = t
    /\ held \subseteq since[c]

\* Nobody passes on what they do not hold: a role gains permissions, and a member
\* the owner role, only from a request whose actor has held them in that very
\* tenant since it began, and not merely before (role.service.ts:50-54, 379-383).
OnlyHeldIsGranted ==
  /\ \A id \in RoleIds : grants'[id] \subseteq grants[id] \/ Author(Home(id), grants'[id])
  /\ \A m \in DOMAIN member : member'[m] = Owner(m[2]) /\ member[m] # Owner(m[2])
       => Author(m[2], {IsOwner})

\* Tenants are ruled from inside: no role and no member's role changes but by a
\* request in that tenant whose actor has held role:manage there since it began
\* (tenant-scoping.extension.ts:101-111).
OnlyManagersWrite ==
  \A t \in Tenants :
    \/ /\ \A id \in RoleIds : Home(id) = t => role'[id] = role[id] /\ grants'[id] = grants[id]
       /\ \A u \in Users : member'[<<u, t>>] \in {member[<<u, t>>], NoRole}
    \/ Author(t, {Manage})
=============================================================================

------------------------------ MODULE Members ------------------------------
(***************************************************************************)
(* Memberships of a tenant: src/src/member/member.service.ts, and          *)
(* assignRoleToMembership of src/src/rbac/role.service.ts.  Both take the  *)
(* row lock of src/src/rbac/last-active-owner.ts before they remove an     *)
(* active owner; both decide whether they do from what they read before.   *)
(*                                                                         *)
(* Roles are their keys: of the grants of a role only matters whether they *)
(* include the administration of members and roles.  INVITED is a status   *)
(* no handler sets.                                                        *)
(***************************************************************************)
CONSTANTS
  Requests,   \* concurrent requests
  Members,    \* users that are, or may become, members
  Founder     \* the owner the tenant is created with

ASSUME FounderAssumption == Founder \in Members

VARIABLES
  role,       \* key of Membership.role, "none" without a membership
  status,     \* Membership.status, "absent" without a membership
  pc,         \* the statement each request executes next
  req,        \* its parameters and what it has read
  held        \* the membership rows it has locked FOR UPDATE

vars == <<role, status, pc, req, held>>

Roles == {"owner", "admin", "employee"}
\* set is what the request writes: a status, or the key of a role.  owned is,
\* of a request without the lock, whether the target was an ACTIVE owner when it
\* read it; snapshot is what the locking query found before it waited.
Request == [target : Members, set : Roles \cup {"ACTIVE", "SUSPENDED"},
            owned : BOOLEAN, snapshot : SUBSET Members]
NoRequest == [target |-> Founder, set |-> "ACTIVE", owned |-> FALSE, snapshot |-> {}]

Exists(m) == status[m] # "absent"

TypeOK ==
  /\ role \in [Members -> Roles \cup {"none"}]
  /\ status \in [Members -> {"ACTIVE", "SUSPENDED", "absent"}]
  /\ \A m \in Members : Exists(m) <=> role[m] # "none"
  /\ pc \in [Requests -> {"idle", "insert", "read", "write", "query", "lock", "lockedWrite"}]
  /\ req \in [Requests -> Request]
  /\ held \in [Requests -> SUBSET Members]

Init ==
  /\ role = [m \in Members |-> IF m = Founder THEN "owner" ELSE "none"]
  /\ status = [m \in Members |-> IF m = Founder THEN "ACTIVE" ELSE "absent"]
  /\ pc = [c \in Requests |-> "idle"]
  /\ req = [c \in Requests |-> NoRequest]
  /\ held = [c \in Requests |-> {}]

ActiveOwners == {m \in Members : role[m] = "owner" /\ status[m] = "ACTIVE"}

\* PermissionService: what the actor's snapshot allows.
IsOwner(a) == a \in ActiveOwners
Manages(a) == status[a] = "ACTIVE" /\ role[a] \in {"owner", "admin"}

\* No other transaction has locked the row.
RowFree(c, m) == \A d \in Requests \ {c} : m \notin held[d]

-----------------------------------------------------------------------------
(* Requests *)

Goto(c, label) == pc' = [pc EXCEPT ![c] = label]

\* The request ends and its transaction, if it has one, releases its rows.
Finish(c) ==
  /\ Goto(c, "idle")
  /\ req' = [req EXCEPT ![c] = NoRequest]
  /\ held' = [held EXCEPT ![c] = {}]
\* The handler throws, or its transaction is rolled back.
Refuse(c) == Finish(c) /\ UNCHANGED <<role, status>>

Begin(c, label, m, set) ==
  /\ pc[c] = "idle"
  /\ Goto(c, label)
  /\ req' = [req EXCEPT ![c] = [NoRequest EXCEPT !.target = m, !.set = set]]
  /\ UNCHANGED <<role, status, held>>

\* The reads of the actor's permissions; nobody changes his own membership.
BeginCreate(c, a, m, r) ==
  /\ Manages(a) /\ m # a /\ (r = "owner" => IsOwner(a))
  /\ Begin(c, "insert", m, r)
BeginAssign(c, a, m, r) ==
  /\ Manages(a) /\ m # a /\ (r = "owner" => IsOwner(a))
  /\ Begin(c, "read", m, r)
BeginStatus(c, a, m, st) ==
  /\ Manages(a) /\ m # a
  /\ Begin(c, "read", m, st)

\* createMember: the unique index on user and tenant has the last word.
Insert(c) ==
  LET m == req[c].target IN
  /\ pc[c] = "insert"
  /\ \/ Exists(m) /\ Refuse(c)
     \/ /\ ~Exists(m)
        /\ role' = [role EXCEPT ![m] = req[c].set]
        /\ status' = [status EXCEPT ![m] = "ACTIVE"]
        /\ Finish(c)

\* removingActiveOwner and demotingOwner, from the row as it is read.
RemovesOwner(m, set) ==
  /\ role[m] = "owner"
  /\ \/ status[m] = "ACTIVE" /\ set = "SUSPENDED"
     \/ set \in Roles \ {"owner"}

\* Fault: a membership that is not there is not noticed.
Anyone(m) == TRUE
Found(m) == Exists(m)

ReadTarget(c) ==
  LET m == req[c].target IN
  /\ pc[c] = "read"
  /\ \/ ~Found(m) /\ Refuse(c)
     \/ /\ Found(m) /\ RemovesOwner(m, req[c].set)
        /\ Goto(c, "query")
        /\ UNCHANGED <<role, status, req, held>>
     \/ /\ Found(m) /\ ~RemovesOwner(m, req[c].set)
        /\ Goto(c, "write")
        /\ req' = [req EXCEPT ![c].owned = m \in ActiveOwners]
        /\ UNCHANGED <<role, status, held>>

\* The update by id.
Apply(c) ==
  LET m == req[c].target  set == req[c].set IN
  /\ role' = IF set \in Roles THEN [role EXCEPT ![m] = set] ELSE role
  /\ status' = IF set \in Roles THEN status ELSE [status EXCEPT ![m] = set]
  /\ Finish(c)

\* Without a lock of the owners.
Write(c) ==
  /\ pc[c] = "write"
  /\ RowFree(c, req[c].target)
  /\ Apply(c)

-----------------------------------------------------------------------------
(* assertNotLastActiveOwner: SELECT ... FOR UPDATE finds the active owners, *)
(* waits for their rows, and evaluates its condition again on each of them. *)

QueryOwners(c) ==
  /\ pc[c] = "query"
  /\ Goto(c, "lock")
  /\ req' = [req EXCEPT ![c].snapshot = ActiveOwners]
  /\ UNCHANGED <<role, status, held>>

\* Fault: the count is off by one.
NoOwner(owners) == owners = {}
\* owners.length <= 1.
LastOwner(owners) == \A m, n \in owners : m = n

\* Fault: the count is taken before the rows are locked.
CountedBefore(c) == req[c].snapshot
Counted(c) == req[c].snapshot \cap ActiveOwners

LockOwners(c) ==
  LET owners == Counted(c) IN
  /\ pc[c] = "lock"
  /\ \A m \in req[c].snapshot : RowFree(c, m)
  /\ \/ LastOwner(owners) /\ Refuse(c)
     \/ /\ ~LastOwner(owners)
        /\ held' = [held EXCEPT ![c] = owners]
        /\ Goto(c, "lockedWrite")
        /\ UNCHANGED <<role, status, req>>

LockedWrite(c) ==
  /\ pc[c] = "lockedWrite"
  /\ RowFree(c, req[c].target)
  /\ Apply(c)

\* The process dies, or the deadlock detector chooses the transaction.
Abort(c) == pc[c] # "idle" /\ Refuse(c)

Next ==
  \E c \in Requests :
    \/ \E a, m \in Members :
         \/ \E r \in Roles : BeginCreate(c, a, m, r) \/ BeginAssign(c, a, m, r)
         \/ \E st \in {"ACTIVE", "SUSPENDED"} : BeginStatus(c, a, m, st)
    \/ Insert(c) \/ ReadTarget(c) \/ Write(c)
    \/ QueryOwners(c) \/ LockOwners(c) \/ LockedWrite(c)
    \/ Abort(c)

Spec == Init /\ [][Next]_vars

-----------------------------------------------------------------------------
(* Properties *)

\* The count of active owners that a transaction has taken is still right when
\* it acts on it: the rows it has counted are active owners, two at least, and
\* no other transaction has counted one of them.
CountsStand ==
  /\ \A c \in Requests : pc[c] = "lockedWrite" =>
       /\ held[c] \subseteq ActiveOwners
       /\ \E m, n \in held[c] : m # n
  /\ \A c, d \in Requests : c # d => held[c] \cap held[d] = {}

\* What takes the last active owner away is a write without the lock, by a
\* request that read its target when it was not an active owner.
Unseated == ActiveOwners # {} /\ ActiveOwners' = {}
UnseatedByStale ==
  Unseated => \E c \in Requests : pc[c] = "write" /\ ~req[c].owned
OnlyStaleUnseats == [][UnseatedByStale]_vars

\* The comments of the services: no tenant is left with zero active owners.
OwnerRemains == ActiveOwners # {}
=============================================================================

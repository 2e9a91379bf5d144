---------------------------- MODULE AccessProof -----------------------------
(***************************************************************************)
(* Proofs about Access, for any users, tenants, permissions and bounds.    *)
(***************************************************************************)
EXTENDS Access, TLAPS

\* What the constants have to be.
Premises ==
  /\ MaxRoles \in Nat /\ MaxRequests \in Nat
  /\ "none" \notin Tenants
  /\ IsOwner \notin Keys
  /\ FirstRoles \in [Users \X Tenants -> RoleIds \cup {NoRole}]

Operations == {"create", "update", "delete", "permit", "assign"}
Request ==
  [op : Operations, user : Users, tenant : Tenants, role : RoleIds, keys : SUBSET Keys,
   target : (Users \X Tenants) \cup {NoTarget}, memo : SUBSET (Keys \cup {IsOwner})]
\* A membership is looked for in the tenant of the request.
Aimed(r) == r.op = "assign" => r.target \in Users \X {r.tenant}

\* What a request has been judged by at its label, its actor having held s.
Judged(label, r, s) ==
  /\ label # "idle" => r \in Request /\ Aimed(r)
  /\ label \in {"read", "write", "demote"} =>
       /\ Manage \in r.memo /\ r.memo \subseteq s
       /\ IsOwner \in r.memo => Keys \subseteq r.memo
  /\ label = "read" => r.op # "create"
  /\ label \in {"write", "demote"} =>
       /\ r.op # "create" => Home(r.role) = r.tenant
       /\ r.op \in {"create", "permit"} => Bounded(r.keys, r.memo)
       /\ r.op = "assign" /\ r.role = Owner(r.tenant) => IsOwner \in r.memo
  /\ label = "demote" => r.op = "assign"

RowsOK ==
  /\ role \in [RoleIds -> {"none", "present", "deleted"}]
  /\ grants \in [RoleIds -> SUBSET Keys]
  /\ member \in [Users \X Tenants -> RoleIds \cup {NoRole}]
RequestsOK ==
  /\ pc \in [Requests -> {"idle", "assert", "read", "write", "demote"}]
  /\ req \in [Requests -> Request \cup {NoRequest}]
  /\ since \in [Requests -> SUBSET (Keys \cup {IsOwner})]
  /\ made \in 0..MaxRequests
AllJudged ==
  \A c \in Requests :
    /\ Judged(pc[c], req[c], since[c])
    /\ pc[c] # "idle" => Held(c) \subseteq since[c]

Inv == RowsOK /\ RequestsOK /\ AllJudged

-----------------------------------------------------------------------------
(* What the actors hold *)

LEMMA SnapshotSane ==
  ASSUME Premises, RowsOK, NEW u \in Users, NEW t \in Tenants
  PROVE  /\ Snapshot(u, t) \subseteq Keys \cup {IsOwner}
         /\ IsOwner \in Snapshot(u, t) => Keys \subseteq Snapshot(u, t)
  <1>1. member[<<u, t>>] \in RoleIds \cup {NoRole}
    BY DEF RowsOK
  <1>2. CASE member[<<u, t>>] = NoRole
    BY <1>2 DEF Snapshot
  <1>3. CASE member[<<u, t>>] # NoRole /\ member[<<u, t>>] = Owner(t)
    BY <1>3 DEF Snapshot
  <1>4. CASE member[<<u, t>>] # NoRole /\ member[<<u, t>>] # Owner(t)
    <2>1. grants[member[<<u, t>>]] \subseteq Keys
      BY <1>1, <1>4 DEF RowsOK
    <2> QED
      BY <1>4, <2>1 DEF Snapshot, Premises
  <1> QED
    BY <1>2, <1>3, <1>4

\* What was held stays known while the request lasts, and what is held is added.
LEMMA Remembered ==
  ASSUME Remember, NEW c \in Requests, pc'[c] # "idle"
  PROVE  /\ Held(c)' \subseteq since'[c]
         /\ pc[c] # "idle" => since[c] \subseteq since'[c]
  BY DEF Remember

LEMMA SinceTyped ==
  ASSUME Premises, RequestsOK, RowsOK', Remember,
         \A c \in Requests : pc'[c] # "idle" => req'[c] \in Request
  PROVE  since' \in [Requests -> SUBSET (Keys \cup {IsOwner})]
  <1>1. ASSUME NEW c \in Requests, pc'[c] # "idle" PROVE Held(c)' \subseteq Keys \cup {IsOwner}
    <2>1. req'[c].user \in Users /\ req'[c].tenant \in Tenants
      BY <1>1 DEF Request
    <2>2. ASSUME NEW u \in Users, NEW t \in Tenants
            PROVE Snapshot(u, t)' \subseteq Keys \cup {IsOwner}
      <3>1. member'[<<u, t>>] \in RoleIds \cup {NoRole}
        BY DEF RowsOK
      <3> QED
        BY <3>1 DEF RowsOK, Snapshot
    <2> QED
      BY <2>1, <2>2 DEF Held
  <1>2. \A c \in Requests : since[c] \subseteq Keys \cup {IsOwner}
    BY DEF RequestsOK
  <1> QED
    BY <1>1, <1>2 DEF Remember

LEMMA Grows ==
  ASSUME NEW label, NEW r, NEW s, NEW s2, Judged(label, r, s), s \subseteq s2
  PROVE  Judged(label, r, s2)
  BY DEF Judged

-----------------------------------------------------------------------------
(* A step of a request *)

LEMMA StandKeeps ==
  ASSUME Premises, Inv, RowsOK', made' \in 0..MaxRequests, Remember,
         NEW c \in Requests, NEW r \in Request \cup {NoRequest},
         NEW label \in {"idle", "assert", "read", "write", "demote"},
         Stand(c, label, r), Judged(label, r, since'[c])
  PROVE  Inv'
  <1>1. pc' \in [Requests -> {"idle", "assert", "read", "write", "demote"}]
        /\ req' \in [Requests -> Request \cup {NoRequest}]
    BY DEF Inv, RequestsOK, Stand
  <1>2. pc'[c] = label /\ req'[c] = r
    BY DEF Inv, RequestsOK, Stand
  <1>3. \A d \in Requests : d # c => pc'[d] = pc[d] /\ req'[d] = req[d]
    BY DEF Inv, RequestsOK, Stand
  <1>4. \A d \in Requests : pc'[d] # "idle" => req'[d] \in Request
    BY <1>2, <1>3 DEF Inv, AllJudged, Judged
  <1>5. since' \in [Requests -> SUBSET (Keys \cup {IsOwner})]
    BY <1>4, SinceTyped DEF Inv
  <1>6. ASSUME NEW d \in Requests PROVE Judged(pc'[d], req'[d], since'[d])
    <2>1. CASE d = c
      BY <1>2, <2>1
    <2>2. CASE d # c /\ pc[d] = "idle"
      BY <1>3, <2>2 DEF Judged
    <2>3. CASE d # c /\ pc[d] # "idle"
      <3>1. since[d] \subseteq since'[d]
        BY <1>3, <2>3, Remembered
      <3>2. Judged(pc[d], req[d], since[d])
        BY DEF Inv, AllJudged
      <3> QED
        BY <1>3, <2>3, <3>1, <3>2, Grows
    <2> QED
      BY <2>1, <2>2, <2>3
  <1>7. \A d \in Requests : pc'[d] # "idle" => Held(d)' \subseteq since'[d]
    BY Remembered
  <1>8. AllJudged'
    BY <1>6, <1>7 DEF AllJudged
  <1> QED
    BY <1>1, <1>5, <1>8 DEF Inv, RequestsOK

LEMMA AnswerKeeps ==
  ASSUME Premises, Inv, RowsOK', made' \in 0..MaxRequests, Remember,
         NEW c \in Requests, Answer(c)
  PROVE  Inv'
  <1>1. Judged("idle", NoRequest, since'[c])
    BY DEF Judged
  <1> QED
    BY <1>1, StandKeeps DEF Answer

LEMMA InitKeeps == ASSUME Premises, Init PROVE Inv
  <1>1. RowsOK
    BY DEF Premises, Init, RowsOK
  <1>2. RequestsOK
    BY DEF Premises, Init, RequestsOK
  <1>3. AllJudged
    BY DEF Init, AllJudged, Judged
  <1> QED
    BY <1>1, <1>2, <1>3 DEF Inv

LEMMA BeginIs ==
  ASSUME NEW c \in Requests, Begin(c)
  PROVE  \E r \in Request : Aimed(r) /\ Guards(c, r)
  <1>1. PICK u \in Users, t \in Tenants, id \in RoleIds :
          \/ \E keys \in SUBSET Keys : Guards(c, Ask("create", u, t, id, keys, NoTarget))
          \/ \E op \in {"update", "delete"} : Guards(c, Ask(op, u, t, id, {}, NoTarget))
          \/ \E keys \in SUBSET Keys : Guards(c, Ask("permit", u, t, id, keys, NoTarget))
          \/ \E x \in Users : Guards(c, Ask("assign", u, t, id, {}, <<x, t>>))
    BY DEF Begin
  <1>2. ASSUME NEW op \in Operations \ {"assign"}, NEW keys \in SUBSET Keys
        PROVE  Ask(op, u, t, id, keys, NoTarget) \in Request
          /\ Aimed(Ask(op, u, t, id, keys, NoTarget))
    BY DEF Request, Aimed, Ask
  <1>3. ASSUME NEW x \in Users
        PROVE  Ask("assign", u, t, id, {}, <<x, t>>) \in Request
          /\ Aimed(Ask("assign", u, t, id, {}, <<x, t>>))
    BY DEF Request, Aimed, Ask, Operations
  <1> QED
    BY <1>1, <1>2, <1>3 DEF Operations

LEMMA BeginKeeps ==
  ASSUME Premises, Inv, Remember, NEW c \in Requests, Begin(c) PROVE Inv' /\ UNCHANGED rows
  <1>0. made < MaxRequests
    BY DEF Begin
  <1>1. PICK r \in Request : Aimed(r) /\ Guards(c, r)
    BY BeginIs
  <1>2. Stand(c, "assert", r) /\ UNCHANGED rows /\ made' \in 0..MaxRequests
    BY <1>0, <1>1 DEF Guards, Enter, Inv, RequestsOK, Premises
  <1>3. RowsOK'
    BY <1>2 DEF Inv, RowsOK, rows
  <1>4. Judged("assert", r, since'[c])
    BY <1>1 DEF Judged
  <1> QED
    BY <1>1, <1>2, <1>3, <1>4, StandKeeps

LEMMA AssertKeeps ==
  ASSUME Premises, Inv, Remember, NEW c \in Requests, AssertManage(c) PROVE Inv'
  <1> DEFINE r == [req[c] EXCEPT !.memo = Held(c)]
  <1>1. RowsOK' /\ made' \in 0..MaxRequests
    BY DEF AssertManage, rows, Inv, RowsOK, RequestsOK
  <1>2. CASE Answer(c)
    BY <1>1, <1>2, AnswerKeeps
  <1>3. CASE Manage \in Held(c) /\ ~(r.op = "create" /\ ~Bounded(r.keys, r.memo))
             /\ Stand(c, IF r.op = "create" THEN "write" ELSE "read", r)
    <2>1. pc[c] = "assert" /\ req[c] \in Request /\ Aimed(req[c]) /\ Held(c) \subseteq since[c]
      BY DEF AssertManage, Inv, AllJudged, Judged
    <2>2. /\ Held(c) \subseteq Keys \cup {IsOwner}
          /\ IsOwner \in Held(c) => Keys \subseteq Held(c)
      BY <2>1, SnapshotSane DEF Held, Request, Inv
    <2>3. r \in Request /\ Aimed(r) /\ r.memo = Held(c)
      BY <2>1, <2>2 DEF Request, Aimed
    <2> HIDE DEF r
    <2>4. pc'[c] # "idle"
      BY <1>3 DEF Stand, Inv, RequestsOK
    <2>5. Held(c) \subseteq since'[c]
      BY <2>1, <2>4, Remembered
    <2>6. CASE r.op = "create"
      <3>1. Judged("write", r, since'[c])
        BY <1>3, <2>2, <2>3, <2>5, <2>6 DEF Judged
      <3> QED
        BY <1>1, <1>3, <2>3, <2>6, <3>1, StandKeeps
    <2>7. CASE r.op # "create"
      <3>1. Judged("read", r, since'[c])
        BY <1>3, <2>2, <2>3, <2>5, <2>7 DEF Judged
      <3> QED
        BY <1>1, <1>3, <2>3, <2>7, <3>1, StandKeeps
    <2> QED
      BY <2>6, <2>7
  <1> QED
    BY <1>2, <1>3 DEF AssertManage

LEMMA FindRoleKeeps ==
  ASSUME Premises, Inv, Remember, NEW c \in Requests, FindRole(c) PROVE Inv'
  <1> DEFINE r == req[c]
  <1>1. RowsOK' /\ made' \in 0..MaxRequests
    BY DEF FindRole, rows, Inv, RowsOK, RequestsOK
  <1>2. CASE Answer(c)
    BY <1>1, <1>2, AnswerKeeps
  <1>3. ASSUME MayWrite(r), NEW label \in {"write", "demote"}, Stand(c, label, r),
               label = "demote" => Demotes(r)
        PROVE  Inv'
    <2>1. pc[c] = "read" /\ Judged("read", r, since[c])
      BY DEF FindRole, Inv, AllJudged
    <2>2. pc'[c] # "idle"
      BY <1>3 DEF Stand, Inv, RequestsOK
    <2>3. Judged("read", r, since'[c])
      BY <2>1, <2>2, Remembered, Grows
    <2>4. Judged(label, r, since'[c])
      BY <1>3, <2>3 DEF Judged, MayWrite, Scoped, Demotes
    <2>5. r \in Request
      BY <2>1 DEF Judged
    <2> QED
      BY <1>1, <1>3, <2>4, <2>5, StandKeeps
  <1> QED
    BY <1>2, <1>3 DEF FindRole

-----------------------------------------------------------------------------
(* The writes *)

\* What is known of a request that writes.
LEMMA Writer ==
  ASSUME Inv, NEW c \in Requests, pc[c] \in {"write", "demote"}
  PROVE  /\ req[c] \in Request /\ Aimed(req[c])
         /\ Manage \in since[c] /\ req[c].memo \subseteq since[c]
         /\ IsOwner \in req[c].memo => Keys \subseteq req[c].memo
         /\ req[c].op # "create" => Home(req[c].role) = req[c].tenant
         /\ req[c].op \in {"create", "permit"} => req[c].keys \subseteq since[c]
         /\ req[c].op = "assign" /\ req[c].role = Owner(req[c].tenant) => IsOwner \in since[c]
         /\ pc[c] = "demote" => req[c].op = "assign"
  BY DEF Inv, AllJudged, Judged, Bounded, Request

\* The end of a request, as its author.
LEMMA AuthorIs ==
  ASSUME Inv, NEW c \in Requests, pc[c] \in {"write", "demote"}, Answer(c),
         NEW held, held \subseteq since[c]
  PROVE  Author(req[c].tenant, held)
  BY DEF Author, Answer, Stand, Inv, RequestsOK

Lawful == OnlyHeldIsGranted /\ OnlyManagersWrite

LEMMA QuietIsLawful == ASSUME UNCHANGED rows PROVE Lawful
  BY DEF rows, Lawful, OnlyHeldIsGranted, OnlyManagersWrite

\* A request that changes one role of its tenant, and leaves it no more than its
\* actor has held.
LEMMA RoleIsLawful ==
  ASSUME Inv, NEW c \in Requests, pc[c] \in {"write", "demote"}, Answer(c), UNCHANGED member,
         NEW id \in RoleIds, Home(id) = req[c].tenant, grants'[id] \subseteq since[c],
         \A x \in RoleIds : x # id => role'[x] = role[x] /\ grants'[x] = grants[x]
  PROVE  Lawful
  <1>1. Author(req[c].tenant, grants'[id])
    BY AuthorIs
  <1>2. OnlyHeldIsGranted
    BY <1>1 DEF OnlyHeldIsGranted
  <1>3. Author(req[c].tenant, {Manage})
    BY Writer, AuthorIs
  <1>4. ASSUME NEW t \in Tenants
        PROVE  \/ /\ \A x \in RoleIds : Home(x) = t => role'[x] = role[x] /\ grants'[x] = grants[x]
                  /\ \A u \in Users : member'[<<u, t>>] \in {member[<<u, t>>], NoRole}
               \/ Author(t, {Manage})
    BY <1>3
  <1> QED
    BY <1>2, <1>4 DEF Lawful, OnlyManagersWrite

LEMMA CreateOK ==
  ASSUME Premises, Inv, Remember, NEW c \in Requests, CreateRole(c) PROVE Inv' /\ Lawful
  <1>1. pc[c] = "write" /\ req[c].op = "create" /\ Answer(c) /\ made' \in 0..MaxRequests
    BY DEF CreateRole, Writing, Inv, RequestsOK
  <1>2. PICK n \in 1..MaxRoles :
          /\ role' = [role EXCEPT ![<<req[c].tenant, n>>] = "present"]
          /\ grants' = [grants EXCEPT ![<<req[c].tenant, n>>] = req[c].keys]
    BY DEF CreateRole
  <1> DEFINE id == <<req[c].tenant, n>>
  <1>3. req[c].tenant \in Tenants /\ req[c].keys \subseteq Keys /\ req[c].keys \subseteq since[c]
    BY <1>1, Writer DEF Request
  <1>4. id \in RoleIds /\ Home(id) = req[c].tenant
    BY <1>2, <1>3 DEF RoleIds, Home, Premises
  <1>5. UNCHANGED member
    BY DEF CreateRole
  <1> HIDE DEF id
  <1>6. role' = [role EXCEPT ![id] = "present"] /\ grants' = [grants EXCEPT ![id] = req[c].keys]
    BY <1>2 DEF id
  <1>7. RowsOK'
    BY <1>3, <1>4, <1>5, <1>6 DEF Inv, RowsOK
  <1>8. /\ grants'[id] \subseteq since[c]
        /\ \A x \in RoleIds : x # id => role'[x] = role[x] /\ grants'[x] = grants[x]
    BY <1>3, <1>4, <1>6 DEF Inv, RowsOK
  <1>9. Lawful
    BY <1>1, <1>4, <1>5, <1>8, RoleIsLawful
  <1> QED
    BY <1>1, <1>7, <1>9, AnswerKeeps

LEMMA UpdateOK ==
  ASSUME Premises, Inv, Remember, NEW c \in Requests, UpdateRole(c) PROVE Inv' /\ Lawful
  <1>1. Answer(c) /\ made' \in 0..MaxRequests /\ UNCHANGED rows
    BY DEF UpdateRole, Writing, Inv, RequestsOK
  <1>2. RowsOK'
    BY <1>1 DEF Inv, RowsOK, rows
  <1> QED
    BY <1>1, <1>2, AnswerKeeps, QuietIsLawful

LEMMA DeleteOK ==
  ASSUME Premises, Inv, Remember, NEW c \in Requests, DeleteRole(c) PROVE Inv' /\ Lawful
  <1> DEFINE id == req[c].role
  <1>1. pc[c] = "write" /\ req[c].op = "delete" /\ Answer(c) /\ made' \in 0..MaxRequests
    BY DEF DeleteRole, Writing, Inv, RequestsOK
  <1>2. id \in RoleIds /\ Home(id) = req[c].tenant
    BY <1>1, Writer DEF Request
  <1>3. UNCHANGED member
    BY DEF DeleteRole
  <1>4. CASE UNCHANGED <<role, grants>>
    <2>1. RowsOK' /\ UNCHANGED rows
      BY <1>3, <1>4 DEF Inv, RowsOK, rows
    <2> QED
      BY <1>1, <2>1, AnswerKeeps, QuietIsLawful
  <1>5. CASE role' = [role EXCEPT ![id] = "deleted"] /\ grants' = [grants EXCEPT ![id] = {}]
    <2>1. RowsOK'
      BY <1>2, <1>3, <1>5 DEF Inv, RowsOK
    <2>2. /\ grants'[id] \subseteq since[c]
          /\ \A x \in RoleIds : x # id => role'[x] = role[x] /\ grants'[x] = grants[x]
      BY <1>2, <1>5 DEF Inv, RowsOK
    <2>3. Lawful
      BY <1>1, <1>2, <1>3, <2>2, RoleIsLawful
    <2> QED
      BY <1>1, <2>1, <2>3, AnswerKeeps
  <1> QED
    BY <1>4, <1>5 DEF DeleteRole

LEMMA PermitOK ==
  ASSUME Premises, Inv, Remember, NEW c \in Requests, AssignPermissions(c) PROVE Inv' /\ Lawful
  <1> DEFINE id == req[c].role
  <1>1. pc[c] = "write" /\ req[c].op = "permit" /\ Answer(c) /\ made' \in 0..MaxRequests
    BY DEF AssignPermissions, Writing, Inv, RequestsOK
  <1>2. /\ id \in RoleIds /\ Home(id) = req[c].tenant
        /\ req[c].keys \subseteq Keys /\ req[c].keys \subseteq since[c]
    BY <1>1, Writer DEF Request
  <1>3. UNCHANGED <<role, member>>
    BY DEF AssignPermissions
  <1>4. CASE grants' = grants
    <2>1. RowsOK' /\ UNCHANGED rows
      BY <1>3, <1>4 DEF Inv, RowsOK, rows
    <2> QED
      BY <1>1, <2>1, AnswerKeeps, QuietIsLawful
  <1>5. CASE grants' = [grants EXCEPT ![id] = req[c].keys]
    <2>1. RowsOK'
      BY <1>2, <1>3, <1>5 DEF Inv, RowsOK
    <2>2. /\ grants'[id] \subseteq since[c]
          /\ \A x \in RoleIds : x # id => role'[x] = role[x] /\ grants'[x] = grants[x]
      BY <1>2, <1>3, <1>5 DEF Inv, RowsOK
    <2>3. Lawful
      BY <1>1, <1>2, <1>3, <2>2, RoleIsLawful
    <2> QED
      BY <1>1, <2>1, <2>3, AnswerKeeps
  <1> QED
    BY <1>4, <1>5 DEF AssignPermissions

LEMMA ReassignOK ==
  ASSUME Premises, Inv, Remember, NEW c \in Requests, pc[c] \in {"write", "demote"},
         req[c].op = "assign", Answer(c), made' \in 0..MaxRequests, UNCHANGED <<role, grants>>,
         member' \in {Reassigned(req[c]), member}
  PROVE  Inv' /\ Lawful
  <1> DEFINE m == req[c].target  t == req[c].tenant
  <1>1. /\ req[c].role \in RoleIds /\ t \in Tenants
        /\ \E u \in Users : m = <<u, t>>
        /\ req[c].role = Owner(t) => IsOwner \in since[c]
    BY Writer DEF Request, Aimed
  <1>2. CASE member' = member
    <2>1. RowsOK' /\ UNCHANGED rows
      BY <1>2 DEF Inv, RowsOK, rows
    <2> QED
      BY <2>1, AnswerKeeps, QuietIsLawful
  <1>3. CASE member' = [member EXCEPT ![m] = req[c].role]
    <2>1. m \in Users \X Tenants /\ m[2] = t
      BY <1>1
    <2>2. member \in [Users \X Tenants -> RoleIds \cup {NoRole}]
      BY DEF Inv, RowsOK
    <2> HIDE DEF m, t
    <2>3. RowsOK'
      BY <1>1, <1>3, <2>1, <2>2 DEF Inv, RowsOK
    <2>4. DOMAIN member = Users \X Tenants
      BY <2>2
    <2>5. ASSUME NEW n \in DOMAIN member, member'[n] = Owner(n[2]), member[n] # Owner(n[2])
          PROVE  Author(n[2], {IsOwner})
      <3>1. n = m /\ req[c].role = Owner(t)
        BY <1>3, <2>1, <2>2, <2>4, <2>5
      <3>2. {IsOwner} \subseteq since[c]
        BY <1>1, <3>1
      <3>3. Author(req[c].tenant, {IsOwner})
        BY <3>2, AuthorIs
      <3> QED
        BY <2>1, <3>1, <3>3 DEF t
    <2>6. OnlyHeldIsGranted
      BY <2>5 DEF OnlyHeldIsGranted
    <2>7. Author(t, {Manage})
      BY Writer, AuthorIs DEF t
    <2>8. ASSUME NEW x \in Tenants, x # t, NEW u \in Users
            PROVE member'[<<u, x>>] = member[<<u, x>>]
      <3>1. <<u, x>> # m
        BY <2>1, <2>8
      <3> QED
        BY <1>3, <2>2, <3>1
    <2>9. OnlyManagersWrite
      BY <2>7, <2>8 DEF OnlyManagersWrite
    <2> QED
      BY <2>3, <2>6, <2>9, AnswerKeeps DEF Lawful
  <1> QED
    BY <1>2, <1>3 DEF Reassigned

LEMMA LeaveOK ==
  ASSUME Premises, Inv, Remember, NEW m \in DOMAIN member, Leave(m) PROVE Inv' /\ Lawful
  <1>1. member \in [Users \X Tenants -> RoleIds \cup {NoRole}] /\ m \in Users \X Tenants
    BY DEF Inv, RowsOK
  <1>2. member' = [member EXCEPT ![m] = NoRole] /\ UNCHANGED <<role, grants, pc, req, made>>
    BY DEF Leave
  <1>3. RowsOK'
    BY <1>1, <1>2 DEF Inv, RowsOK
  <1>4. \A n \in Users \X Tenants : member'[n] \in {member[n], NoRole}
    BY <1>1, <1>2
  <1>5. \A n \in Users \X Tenants : NoRole # Owner(n[2])
    BY DEF Premises, NoRole, Owner
  <1>6. OnlyHeldIsGranted
    BY <1>1, <1>2, <1>4, <1>5 DEF OnlyHeldIsGranted
  <1>7. OnlyManagersWrite
    BY <1>2, <1>4 DEF OnlyManagersWrite
  <1>8. since' \in [Requests -> SUBSET (Keys \cup {IsOwner})]
    <2>1. \A c \in Requests : pc'[c] # "idle" => req'[c] \in Request
      BY <1>2 DEF Inv, AllJudged, Judged
    <2> QED
      BY <1>3, <2>1, SinceTyped DEF Inv
  <1>9. ASSUME NEW c \in Requests
        PROVE  /\ Judged(pc[c], req[c], since'[c])
               /\ pc'[c] # "idle" => Held(c)' \subseteq since'[c]
    <2>1. CASE pc[c] = "idle"
      BY <1>2, <2>1 DEF Judged
    <2>2. CASE pc[c] # "idle"
      <3>1. since[c] \subseteq since'[c] /\ Held(c)' \subseteq since'[c]
        BY <1>2, <2>2, Remembered
      <3>2. Judged(pc[c], req[c], since[c])
        BY DEF Inv, AllJudged
      <3> QED
        BY <3>1, <3>2, Grows
    <2> QED
      BY <2>1, <2>2
  <1>10. AllJudged'
    BY <1>2, <1>9 DEF AllJudged
  <1>11. RequestsOK'
    BY <1>2, <1>8 DEF Inv, RequestsOK
  <1> QED
    BY <1>3, <1>6, <1>7, <1>10, <1>11 DEF Inv, Lawful

-----------------------------------------------------------------------------
(* The theorems *)

LEMMA StepOK == ASSUME Premises, Inv, Next PROVE Inv' /\ Lawful
  <1>1. Remember
    BY DEF Next
  <1>2. ASSUME NEW m \in DOMAIN member, Leave(m) PROVE Inv' /\ Lawful
    BY <1>1, <1>2, LeaveOK
  <1>3. ASSUME NEW c \in Requests, Begin(c) \/ AssertManage(c) \/ FindRole(c) PROVE Inv' /\ Lawful
    <2>1. Begin(c) => UNCHANGED rows
      BY <1>1, BeginKeeps
    <2>2. AssertManage(c) \/ FindRole(c) => UNCHANGED rows
      BY DEF AssertManage, FindRole, rows
    <2> QED
      BY <1>1, <1>3, <2>1, <2>2, QuietIsLawful, BeginKeeps, AssertKeeps, FindRoleKeeps
  <1>4. ASSUME NEW c \in Requests,
               CreateRole(c) \/ UpdateRole(c) \/ DeleteRole(c) \/ AssignPermissions(c)
        PROVE  Inv' /\ Lawful
    BY <1>1, <1>4, CreateOK, UpdateOK, DeleteOK, PermitOK
  <1>5. ASSUME NEW c \in Requests, AssignRole(c) PROVE Inv' /\ Lawful
    <2>1. /\ pc[c] = "write" /\ req[c].op = "assign" /\ Answer(c) /\ made' \in 0..MaxRequests
          /\ UNCHANGED <<role, grants>> /\ member' = Reassigned(req[c])
      BY <1>5 DEF AssignRole, Writing, Inv, RequestsOK
    <2> QED
      BY <1>1, <2>1, ReassignOK
  <1>6. ASSUME NEW c \in Requests, DemoteOwner(c) PROVE Inv' /\ Lawful
    <2>1. /\ pc[c] = "demote" /\ Answer(c) /\ made' \in 0..MaxRequests
          /\ UNCHANGED <<role, grants>> /\ member' \in {Reassigned(req[c]), member}
      BY <1>6 DEF DemoteOwner, Inv, RequestsOK
    <2>2. req[c].op = "assign"
      BY <2>1, Writer
    <2> QED
      BY <1>1, <2>1, <2>2, ReassignOK
  <1> QED
    BY <1>2, <1>3, <1>4, <1>5, <1>6 DEF Next, Step

LEMMA StutterOK == ASSUME Inv, UNCHANGED vars PROVE Inv'
  BY DEF vars, Inv, RowsOK, RequestsOK, AllJudged, Judged, Held, Snapshot

\* The inductive invariant holds in every state.
THEOREM InvHolds == ASSUME Premises PROVE Spec => []Inv
  <1>1. Init => Inv
    BY InitKeeps
  <1>2. Inv /\ [Next]_vars => Inv'
    BY StepOK, StutterOK
  <1> QED
    BY <1>1, <1>2, PTL DEF Spec

\* Rows, requests and what is remembered of them keep their types.
THEOREM TypeCorrect == ASSUME Premises PROVE Spec => []TypeOK
  <1>1. Inv => TypeOK
    <2>1. ASSUME Inv, NEW c \in Requests
            PROVE since[c] \cup req[c].memo \subseteq Keys \cup {IsOwner}
      BY <2>1 DEF Inv, RequestsOK, Request, NoRequest
    <2> QED
      BY <2>1 DEF Inv, RowsOK, RequestsOK, TypeOK
  <1> QED
    BY <1>1, InvHolds, PTL

\* However requests interleave, permissions and ownership are only given by
\* those who have held them, in the tenant, since their request began.
THEOREM HeldIsGranted == ASSUME Premises PROVE Spec => [][OnlyHeldIsGranted]_vars
  <1>1. Inv /\ [Next]_vars => [OnlyHeldIsGranted]_vars
    BY StepOK DEF Lawful
  <1> QED
    BY <1>1, InvHolds, PTL DEF Spec

\* However many tenants there are, one's roles and members' roles are changed
\* only by those who manage roles in it.
THEOREM ManagersWrite == ASSUME Premises PROVE Spec => [][OnlyManagersWrite]_vars
  <1>1. Inv /\ [Next]_vars => [OnlyManagersWrite]_vars
    BY StepOK DEF Lawful
  <1> QED
    BY <1>1, InvHolds, PTL DEF Spec
=============================================================================

------------------------------ MODULE Accounts ------------------------------
(***************************************************************************)
(* Users, tenants and the memberships that join them: the unique email,    *)
(* slug and pair of each, over Tables.  What a membership is worth is in   *)
(* Members and Access, what follows a login in Tokens.                     *)
(***************************************************************************)
EXTENDS Tables

NoUser == <<"User", 0>>
\* Whoever finds the email taken answers 409; the unique index has the last word.
RegisterUser(c) ==
  \E u \in Codings("email") : ~Clashes(NoUser, u) /\ Create(c, "User", u, {}, {"P2002"})

\* Tenants are made by hand; no service creates one.
AddTenant(c) == \E u \in Codings("slug") : Create(c, "Tenant", u, {}, {"P2002"})
UpdateTenant(c) ==
  \E id \in Ids("Tenant"), u \in Optional(Codings("slug")) : Update(c, id, u, {}, {"P2002"})

\* createMember's transaction: the user is upserted by email, and a membership
\* that is there already aborts it all.
UserOf(email) ==
  LET known == {x \in rows : Table(x.id) = "User" /\ email \subseteq x.unique} IN
  IF known = {} THEN Row(NextId("User"), email, {}) ELSE CHOOSE x \in known : TRUE
Joining(user, tenant) ==
  Row(NextId("Membership"), {<<"userId_tenantId", <<user.id, tenant>>>>}, {user.id, tenant})
CreateMember(c) ==
  \E email \in Codings("email"), tenant \in Ids("Tenant") :
    LET user == UserOf(email)
        membership == Joining(user, tenant)
    IN /\ Cardinality(used) + 1 < MaxRows
       /\ ~Clashes(membership.id, membership.unique)
       /\ rows' = rows \cup {user, membership}
       /\ used' = used \cup {user.id, membership.id}
       /\ Answer(c)

AccountsRequest(c) == RegisterUser(c) \/ AddTenant(c) \/ UpdateTenant(c) \/ CreateMember(c)

AccountsNext == \E c \in Requests : (Free(c) /\ AccountsRequest(c)) \/ Write(c)

AccountsSpec == TablesInit /\ [][AccountsNext]_vars
=============================================================================

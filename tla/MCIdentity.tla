----------------------------- MODULE MCIdentity -----------------------------
(***************************************************************************)
(* Instances of the components that say who may do what: Members, Tokens,  *)
(* Access and Devices.  They share no row but those that Access abstracts, *)
(* so a behaviour is one of either, and the others' tables stay as they    *)
(* begin.                                                                  *)
(***************************************************************************)
EXTENDS Members, Naturals, TLC

CONSTANTS
  Token, NoToken,
  u1, u2, t1, t2, Manage, Others, MaxRoles, MaxRequests,
  Device, Uuids, Seqs, MaxSessions, MaxRotations

\* The marks of "no tenant" and of ownership are neither tenants nor permissions;
\* the custom role each tenant starts with needs an id.
ASSUME AccessAssumption ==
  /\ MaxRoles \in Nat \ {0} /\ MaxRequests \in Nat
  /\ "none" \notin {t1, t2} /\ "isOwner" \notin {Manage} \cup Others
\* A registered device has a credential.
ASSUME DevicesAssumption == MaxSessions \in Nat /\ MaxRotations \in Nat \ {0}

VARIABLES
  component,   \* which of the four this is a behaviour of
  issued, revoked, expired, active, session, from, tokenPc, tokenReq,
  roleRow, grants, holder, accessPc, accessReq, since, made,
  device, credential, shift, recorded, devicesPc, devicesReq

\* u1 owns t1, where u2 has a custom role; u2 owns t2.
FirstRoles ==
  [m \in {u1, u2} \X {t1, t2} |->
     IF m \in {<<u1, t1>>, <<u2, t2>>} THEN <<m[2], 0>>
     ELSE IF m = <<u2, t1>> THEN <<t1, 1>> ELSE <<"none", 0>>]

T == INSTANCE Tokens WITH Clients <- Requests, pc <- tokenPc, req <- tokenReq
A == INSTANCE Access WITH Users <- {u1, u2}, Tenants <- {t1, t2}, role <- roleRow, member <- holder,
                          pc <- accessPc, req <- accessReq
D == INSTANCE Devices WITH status <- device, session <- shift,
                           pc <- devicesPc, req <- devicesReq

tokenVars == <<issued, revoked, expired, active, session, from, tokenPc, tokenReq>>
accessVars == <<roleRow, grants, holder, accessPc, accessReq, since, made>>
devicesVars == <<device, credential, shift, recorded, devicesPc, devicesReq>>

IdentityInit ==
  /\ component \in {"members", "tokens", "access", "devices"}
  /\ Init /\ T!Init /\ A!Init /\ D!Init

IdentityNext ==
  \/ component = "members" /\ Next /\ UNCHANGED <<component, tokenVars, accessVars, devicesVars>>
  \/ component = "tokens" /\ T!Next /\ UNCHANGED <<component, vars, accessVars, devicesVars>>
  \/ component = "access" /\ A!Next /\ UNCHANGED <<component, vars, tokenVars, devicesVars>>
  \/ component = "devices" /\ D!Next /\ UNCHANGED <<component, vars, tokenVars, accessVars>>

IdentitySpec ==
  IdentityInit /\ [][IdentityNext]_<<component, vars, tokenVars, accessVars, devicesVars>>

Symmetry ==
  Permutations(Requests) \cup Permutations(Members \ {Founder})

\* All components are type-correct.
TypesOK ==
  /\ TypeOK
  /\ component = "tokens" => T!TypeOK
  /\ component = "access" => A!TypeOK
  /\ component = "devices" => D!TypeOK
\* See Tokens: concurrent uses of one token never rotate it twice.
RotatedOnce == component = "tokens" => T!RotatedOnce
\* See Tokens: a login has at most one token that is not revoked.
OneLivePerLogin == component = "tokens" => T!OneLivePerLogin
\* See Tokens: a login whose tokens are all revoked is over.
LoggedOutStays == [][component = "tokens" => T!LogoutSticks]_tokenVars
\* See Access: permissions and ownership come from those who hold them.
OnlyHeldIsGranted == [][component = "access" => A!OnlyHeldIsGranted]_accessVars
\* See Access: a tenant's roles are written by its own role managers.
OnlyManagersWrite == [][component = "access" => A!OnlyManagersWrite]_accessVars
\* See Devices: a retired device keeps its status and its credential.
RetiredIsFinal == [][component = "devices" => D!RetiredIsFinal]_devicesVars
\* See Devices: a repeated push is not a conflict.
RepeatIsIdempotent == [][component = "devices" => D!RepeatIsIdempotent]_devicesVars
\* See Devices: what a report has shown settled stays as it was shown.
SettledStaysReported ==
  [][component = "devices" => D!SettledStaysReported]_devicesVars
=============================================================================

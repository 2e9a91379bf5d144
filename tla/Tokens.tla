------------------------------- MODULE Tokens -------------------------------
(***************************************************************************)
(* Refresh tokens (src/src/auth/auth.service.ts): login issues one,        *)
(* refresh rotates it in a transaction, logout revokes it.  There is one   *)
(* user; tokens of different users never meet.  Passwords, hashes and the  *)
(* signed access tokens are left out.                                      *)
(***************************************************************************)
CONSTANTS
  Clients,   \* concurrent requests
  Token,     \* tokens that may be issued
  NoToken    \* what a row that no rotation made comes from

VARIABLES
  issued,    \* tokens that have a row
  revoked,   \* rows with a revokedAt
  expired,   \* rows whose expiresAt has passed
  active,    \* whether the user's status is ACTIVE
  session,   \* history: the token the token's login issued
  from,      \* history: the token it was rotated from
  pc,        \* the statement each request executes next
  req        \* the token it presents, and whether it was unexpired at "now"

rows == <<issued, revoked, expired>>
history == <<session, from>>
vars == <<rows, active, history, pc, req>>

Request == [token : Token \cup {NoToken}, unexpired : BOOLEAN]
NoRequest == [token |-> NoToken, unexpired |-> FALSE]

TypeOK ==
  /\ issued \subseteq Token /\ revoked \subseteq issued /\ expired \subseteq issued
  /\ active \in BOOLEAN
  /\ session \in [Token -> Token \cup {NoToken}]
  /\ from \in [Token -> issued \cup {NoToken}]
  /\ pc \in [Clients -> {"idle", "login", "user", "revoke", "issue"}]
  /\ req \in [Clients -> Request]

Init ==
  /\ issued = {} /\ revoked = {} /\ expired = {}
  /\ active = TRUE
  /\ session = [t \in Token |-> NoToken]
  /\ from = [t \in Token |-> NoToken]
  /\ pc = [c \in Clients |-> "idle"]
  /\ req = [c \in Clients |-> NoRequest]

Unrevoked == issued \ revoked

\* No transaction has updated the row and is still open.
RowFree(t) == \A c \in Clients : pc[c] = "issue" => req[c].token # t

Finish(c) ==
  /\ pc' = [pc EXCEPT ![c] = "idle"]
  /\ req' = [req EXCEPT ![c] = NoRequest]
Refuse(c) == Finish(c) /\ UNCHANGED <<rows, active, history>>

-----------------------------------------------------------------------------
(* login *)

BeginLogin(c) ==
  /\ pc[c] = "idle"
  /\ active
  /\ pc' = [pc EXCEPT ![c] = "login"]
  /\ UNCHANGED <<rows, active, history, req>>

Login(c) ==
  /\ pc[c] = "login"
  /\ \E t \in Token \ issued :
       /\ issued' = issued \cup {t}
       /\ session' = [session EXCEPT ![t] = t]
  /\ Finish(c)
  /\ UNCHANGED <<revoked, expired, active, from>>

-----------------------------------------------------------------------------
(* refresh *)

\* "now" is taken before the transaction.
BeginRefresh(c, t) ==
  /\ pc[c] = "idle"
  /\ t \in issued
  /\ pc' = [pc EXCEPT ![c] = "user"]
  /\ req' = [req EXCEPT ![c] = [token |-> t, unexpired |-> t \notin expired]]
  /\ UNCHANGED <<rows, active, history>>

RefreshUser(c) ==
  /\ pc[c] = "user"
  /\ \/ ~active /\ Refuse(c)
     \/ /\ active
        /\ pc' = [pc EXCEPT ![c] = "revoke"]
        /\ UNCHANGED <<rows, active, history, req>>

\* Fault: a token that has been rotated or logged out is accepted.
Unexpired(c) == req[c].unexpired
\* The WHERE of the guarded update.
Rotatable(c) == req[c].token \in Unrevoked /\ req[c].unexpired

RefreshRevoke(c) ==
  /\ pc[c] = "revoke"
  /\ RowFree(req[c].token)
  /\ \/ ~Rotatable(c) /\ Refuse(c)
     \/ /\ Rotatable(c)
        /\ pc' = [pc EXCEPT ![c] = "issue"]
        /\ UNCHANGED <<rows, active, history, req>>

\* Fault: the presented token stays as it is.
RevokesNothing(t) == revoked
Revoking(t) == revoked \cup {t}

\* The transaction inserts the successor and commits both writes.
RefreshIssue(c) ==
  LET t == req[c].token IN
  /\ pc[c] = "issue"
  /\ revoked' = Revoking(t)
  /\ \E fresh \in Token \ issued :
       /\ issued' = issued \cup {fresh}
       /\ session' = [session EXCEPT ![fresh] = session[t]]
       /\ from' = [from EXCEPT ![fresh] = t]
  /\ Finish(c)
  /\ UNCHANGED <<expired, active>>

\* The request dies; an open transaction is rolled back.
Abort(c) == pc[c] # "idle" /\ Refuse(c)

-----------------------------------------------------------------------------
(* logout, time, and the administration of users *)

\* One guarded statement: a token that is revoked already stays so.
Logout(t) ==
  /\ t \in issued
  /\ RowFree(t)
  /\ revoked' = revoked \cup {t}
  /\ UNCHANGED <<issued, expired, active, history, pc, req>>

Expire(t) ==
  /\ t \in issued \ expired
  /\ expired' = expired \cup {t}
  /\ UNCHANGED <<issued, revoked, active, history, pc, req>>

\* No handler changes User.status; an operator may.
SetUserStatus ==
  /\ active' = ~active
  /\ UNCHANGED <<rows, history, pc, req>>

Next ==
  \/ \E c \in Clients :
       \/ BeginLogin(c) \/ Login(c)
       \/ \E t \in Token : BeginRefresh(c, t)
       \/ RefreshUser(c) \/ RefreshRevoke(c) \/ RefreshIssue(c)
       \/ Abort(c)
  \/ \E t \in Token : Logout(t) \/ Expire(t)
  \/ SetUserStatus

Spec == Init /\ [][Next]_vars

-----------------------------------------------------------------------------
(* Properties *)

\* Concurrent uses of one token never rotate it twice.
RotatedOnce ==
  \A t, u \in Token : from[t] # NoToken /\ from[t] = from[u] => t = u

\* A login has at most one token that is not revoked, whatever is rotated,
\* retried or rolled back.
OneLivePerLogin ==
  \A t, u \in Unrevoked : session[t] = session[u] => t = u

\* A login whose tokens are all revoked is over: a refresh that was under way
\* when its token was logged out gets no successor.
Over(s) ==
  /\ \E t \in issued : session[t] = s
  /\ \A t \in Unrevoked : session[t] # s
LogoutSticks == \A s \in Token : Over(s) => Over(s)'
LoggedOutStays == [][LogoutSticks]_vars
=============================================================================

------------------------------ MODULE Devices -------------------------------
(***************************************************************************)
(* POS devices, their sessions and the operations their outboxes push      *)
(* (src/src/pos), with the reconciliation reports over them.               *)
(*                                                                         *)
(* A handler reads a row in one statement and writes in a later one; in    *)
(* between, other requests run.  A cashier who did not open the session is *)
(* a 404 like an unknown session, and is left out.  Of PosSync's syncs     *)
(* only the authority check and the outcome are kept here.                 *)
(***************************************************************************)
EXTENDS Naturals

CONSTANTS
  Requests,        \* concurrent requests
  Device,
  Uuids,           \* the client ids of a device's operations
  Seqs,            \* their numbers in the device's outbox
  MaxSessions,     \* bound: sessions ever opened
  MaxRotations     \* bound: credentials ever issued for one device

VARIABLES
  status,      \* PosDevice.status; none before the registration
  credential,  \* which of the credentials issued the stored hash is of
  session,     \* PosSession rows
  recorded,    \* PosOperation rows
  pc,          \* the statement each request executes next
  req          \* what it was asked and what it has read

vars == <<status, credential, session, recorded, pc, req>>

Sessions == 1..MaxSessions
NoSession == [status |-> "none", device |-> 0]
Operation == [device : Device, session : Sessions, uuid : Uuids, seq : Seqs,
              status : {"PENDING", "ACCEPTED", "REJECTED", "DUPLICATE"}]

NoRequest == [op |-> "none"]

TypeOK ==
  /\ status \in [Device -> {"none", "ACTIVE", "SUSPENDED", "RETIRED"}]
  /\ credential \in [Device -> 0..MaxRotations]
  /\ session \in [Sessions -> {NoSession} \cup
                    [status : {"OPEN", "CLOSED"}, device : Device]]
  /\ recorded \subseteq Operation
  /\ pc \in [Requests -> {"idle", "move", "rotate", "open", "record", "execute", "conflict"}]

Init ==
  /\ status = [d \in Device |-> "none"]
  /\ credential = [d \in Device |-> 0]
  /\ session = [s \in Sessions |-> NoSession]
  /\ recorded = {}
  /\ pc = [c \in Requests |-> "idle"]
  /\ req = [c \in Requests |-> NoRequest]

Stand(c, where, r) ==
  /\ pc' = [pc EXCEPT ![c] = where]
  /\ req' = [req EXCEPT ![c] = r]
Answer(c) == Stand(c, "idle", NoRequest)
Free(c) == pc[c] \in {"idle", "conflict"}
rows == <<status, credential, session, recorded>>

-----------------------------------------------------------------------------
(* Devices *)

RegisterDevice(d) ==
  /\ status[d] = "none"
  /\ status' = [status EXCEPT ![d] = "ACTIVE"]
  /\ credential' = [credential EXCEPT ![d] = 1]
  /\ UNCHANGED <<session, recorded, pc, req>>

\* transition and rotateCredential first look at the device: a retired one is a
\* 409.
BeginTransition(c, d, action) ==
  /\ status[d] \notin {"none", "RETIRED"}
  /\ Stand(c, "move", [op |-> action, device |-> d])
  /\ UNCHANGED rows
BeginRotation(c, d) ==
  /\ status[d] \notin {"none", "RETIRED"}
  /\ Stand(c, "rotate", [op |-> "rotate", device |-> d])
  /\ UNCHANGED rows

\* The guarded updateMany of each: the states it starts from and where it leads.
\* Fault: retire's guard is the only one left, since transition has looked.
Unguarded(action) ==
  IF action = "retire" THEN {"ACTIVE", "SUSPENDED"} ELSE {"ACTIVE", "SUSPENDED", "RETIRED"}
Starts(action) ==
  CASE action = "suspend" -> {"ACTIVE"}
    [] action = "resume" -> {"SUSPENDED"}
    [] OTHER -> {"ACTIVE", "SUSPENDED"}
Leads(action) ==
  CASE action = "suspend" -> "SUSPENDED" [] action = "resume" -> "ACTIVE" [] OTHER -> "RETIRED"

Transition(c) ==
  LET d == req[c].device  action == req[c].op IN
  /\ pc[c] = "move"
  /\ status' = IF status[d] \in Starts(action) THEN [status EXCEPT ![d] = Leads(action)] ELSE status
  /\ Answer(c)
  /\ UNCHANGED <<credential, session, recorded>>

RotateCredential(c) ==
  LET d == req[c].device IN
  /\ pc[c] = "rotate"
  /\ IF status[d] \in Starts("rotate")
     THEN /\ credential[d] < MaxRotations
          /\ credential' = [credential EXCEPT ![d] = @ + 1]
     ELSE UNCHANGED credential
  /\ Answer(c)
  /\ UNCHANGED <<status, session, recorded>>

-----------------------------------------------------------------------------
(* Sessions *)

OpenOn(d) == {s \in Sessions : session[s].device = d /\ session[s].status = "OPEN"}

BeginOpen(c, d) ==
  /\ status[d] = "ACTIVE"
  /\ Stand(c, "open", [op |-> "open", device |-> d])
  /\ UNCHANGED rows

\* The partial unique index PosSession_one_open_per_device.
OneOpen(d) == OpenOn(d) = {}

OpenSession(c) ==
  LET d == req[c].device IN
  /\ pc[c] = "open"
  /\ IF OneOpen(d)
     THEN \E s \in Sessions :
            /\ session[s] = NoSession /\ \A r \in 1..(s - 1) : session[r] # NoSession
            /\ session' = [session EXCEPT ![s] =
                             [status |-> "OPEN", device |-> d]]
     ELSE UNCHANGED session
  /\ Answer(c)
  /\ UNCHANGED <<status, credential, recorded>>

\* One guarded updateMany; whoever holds pos:create may close it.
CloseSession(s) ==
  /\ session[s].status = "OPEN"
  /\ session' = [session EXCEPT ![s].status = "CLOSED"]
  /\ UNCHANGED <<status, credential, recorded, pc, req>>

-----------------------------------------------------------------------------
(* Operations *)

\* A row has a deviceId of its own, which the unique indexes and the reports use.
Of(d) == {o \in recorded : o.device = d}

\* recordOfflineSaleIntent: the session may be CLOSED, but it is its opener's.
BeginRecord(c, s, uuid, seq) ==
  /\ session[s] # NoSession
  /\ Stand(c, "record", [op |-> "record", device |-> session[s].device,
                         session |-> s, uuid |-> uuid, seq |-> seq])
  /\ UNCHANGED rows

\* The indexes are tried in the order of their creation, and the first that
\* refuses names itself in the error.
\* Fault: (deviceId, seq) is tried first.
SeqFirst(r) ==
  IF \E o \in Of(r.device) : o.seq = r.seq THEN "seq"
  ELSE IF \E o \in Of(r.device) : o.uuid = r.uuid THEN "clientUuid" ELSE "none"
Violated(r) ==
  IF \E o \in Of(r.device) : o.uuid = r.uuid THEN "clientUuid"
  ELSE IF \E o \in Of(r.device) : o.seq = r.seq THEN "seq" ELSE "none"

\* A uuid the device has used is answered with the row it was used for.
RecordIntent(c) ==
  /\ pc[c] = "record"
  /\ recorded' = IF Violated(req[c]) # "none" THEN recorded
                 ELSE recorded \cup {[device |-> req[c].device, session |-> req[c].session,
                        uuid |-> req[c].uuid, seq |-> req[c].seq, status |-> "PENDING"]}
  /\ IF Violated(req[c]) = "seq" THEN Stand(c, "conflict", NoRequest) ELSE Answer(c)
  /\ UNCHANGED <<status, credential, session>>

\* assertSyncAuthority: an ACTIVE device, its present credential, its cashier.
Authentic(d, k) == status[d] = "ACTIVE" /\ credential[d] = k

BeginSync(c, o, k) ==
  /\ o.status = "PENDING" /\ Authentic(o.device, k)
  /\ Stand(c, "execute", [op |-> "sync", device |-> o.device, uuid |-> o.uuid])
  /\ UNCHANGED rows

\* Fault: the operation was PENDING when the sync began.
Whichever(o) == TRUE
Finalizable(o) == o.status = "PENDING"

\* The outcome of a sync, one updateMany of the operation's row; see PosSync for
\* the way there.
Settle(c, outcome) ==
  LET row == {o \in Of(req[c].device) : o.uuid = req[c].uuid /\ Finalizable(o)} IN
  /\ pc[c] = "execute"
  /\ recorded' = (recorded \ row) \cup {[o EXCEPT !.status = outcome] : o \in row}
  /\ Answer(c)
  /\ UNCHANGED <<status, credential, session>>

-----------------------------------------------------------------------------
(* Reports *)

Partition(ops) ==
  LET rejected == {o \in ops : o.status = "REJECTED"}
      accepted == {o \in ops : o.status \in {"ACCEPTED", "DUPLICATE"}} IN
  [rejected |-> rejected, accepted |-> accepted, pending |-> ops \ (rejected \cup accepted)]
DeviceReport(d) == Partition(Of(d))
SessionReport(s) == Partition({o \in recorded : o.session = s})

-----------------------------------------------------------------------------
(* The specification *)

Request(c) ==
  \/ \E d \in Device, action \in {"suspend", "resume", "retire"} : BeginTransition(c, d, action)
  \/ \E d \in Device : BeginRotation(c, d)
  \/ \E d \in Device : BeginOpen(c, d)
  \/ \E s \in Sessions, uuid \in Uuids, seq \in Seqs : BeginRecord(c, s, uuid, seq)
  \/ \E o \in recorded, k \in 1..MaxRotations : BeginSync(c, o, k)

Next ==
  \/ \E d \in Device : RegisterDevice(d)
  \/ \E s \in Sessions : CloseSession(s)
  \/ \E c \in Requests :
       \/ Free(c) /\ Request(c)
       \/ Transition(c) \/ RotateCredential(c) \/ OpenSession(c) \/ RecordIntent(c)
       \/ \E outcome \in {"ACCEPTED", "REJECTED"} : Settle(c, outcome)

Spec == Init /\ [][Next]_vars

-----------------------------------------------------------------------------
(* Properties *)

\* A retired device stays as it is, whatever had read it before its retirement:
\* neither its status nor its credential changes (pos-device.service.ts:66-70).
RetiredIsFinal ==
  \A d \in Device : status[d] = "RETIRED" =>
    status'[d] = "RETIRED" /\ credential'[d] = credential[d]

\* Delivery is at least once, recording exactly once: a push is told that its
\* sequence number is taken only if the device has not recorded its operation
\* (pos-operation.service.ts:57-63), however many pushes of it are under way.
RepeatIsIdempotent ==
  \A c \in Requests : pc[c] = "record" /\ pc'[c] = "conflict" =>
    ~\E o \in Of(req[c].device) : o.uuid = req[c].uuid

\* A report can be relied on: what a device's or a shift's report has once shown
\* accepted or rejected it shows so ever after, and what it showed pending it
\* still accounts for, whatever pushes and syncs of an operation race
\* (pos-reconciliation.service.ts:60-71, pos-sync.service.ts:327-341).
Upheld(old, new) ==
  /\ old.accepted \subseteq new.accepted /\ old.rejected \subseteq new.rejected
  /\ \A o \in old.pending : \E p \in new.pending \cup new.accepted \cup new.rejected :
       p = [o EXCEPT !.status = p.status]
SettledStaysReported ==
  /\ \A d \in Device : Upheld(DeviceReport(d), DeviceReport(d)')
  /\ \A s \in Sessions : Upheld(SessionReport(s), SessionReport(s)')
=============================================================================

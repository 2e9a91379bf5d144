--------------------------- MODULE IdentityProof ---------------------------
(***************************************************************************)
(* Proofs about MCIdentity: about Members, for any number of requests and  *)
(* members; about Devices, for any devices, sessions and operations; about *)
(* Tokens, for any number of requests and tokens; and about the            *)
(* specification the run checks, which composes these with Access, whose   *)
(* proofs are cited from a module of their own.                            *)
(***************************************************************************)
EXTENDS MCIdentity, TLAPS

AP == INSTANCE AccessProof WITH Users <- {u1, u2}, Tenants <- {t1, t2}, role <- roleRow,
                                member <- holder, pc <- accessPc, req <- accessReq

\* What a request at a label works on.
WellShaped(r, label) ==
  /\ label = "insert" => r.set \in Roles
  /\ label \in {"write", "query", "lock", "lockedWrite"} => Exists(r.target)
  /\ label = "write" /\ r.owned => r.set \in {"ACTIVE", "owner"}

Typed == TypeOK /\ \A c \in Requests : WellShaped(req[c], pc[c])

\* Rows are held only between the count and the write.
HeldOK == \A c \in Requests : held[c] # {} => pc[c] = "lockedWrite"

Locked == Typed /\ HeldOK /\ CountsStand

\* What a request at a label works on.
DeviceAimed(r, label) ==
  /\ label \in {"move", "rotate", "open", "record"} => r.device \in Device
  /\ label = "record" => r.session \in D!Sessions /\ r.uuid \in Uuids /\ r.seq \in Seqs

DevicesSound ==
  /\ D!TypeOK
  /\ DOMAIN devicesReq = Requests
  /\ devicesReq = [c \in Requests |-> devicesReq[c]]
  /\ \A c \in Requests : DeviceAimed(devicesReq[c], devicesPc[c])

-----------------------------------------------------------------------------
(* Members: type correctness *)

LEMMA NoRequestTyped == NoRequest \in Request /\ WellShaped(NoRequest, "idle")
  BY FounderAssumption DEF NoRequest, Request, WellShaped

LEMMA InitTyped == Init => Typed
  BY NoRequestTyped DEF Init, Typed, TypeOK, Roles, Exists, WellShaped

\* A step that ends a request and leaves every membership a membership.
LEMMA FinishTyped ==
  ASSUME Typed, NEW c \in Requests, Finish(c),
         role' \in [Members -> Roles \cup {"none"}],
         status' \in [Members -> {"ACTIVE", "SUSPENDED", "absent"}],
         \A m \in Members : (status'[m] # "absent") <=> (role'[m] # "none"),
         \A m \in Members : Exists(m) => status'[m] # "absent"
  PROVE  Typed'
  <1>1. TypeOK'
    BY NoRequestTyped DEF Typed, TypeOK, Finish, Goto, Exists
  <1>2. \A d \in Requests : WellShaped(req[d], pc[d])'
    BY NoRequestTyped DEF Typed, TypeOK, Finish, Goto, Exists, WellShaped, Request
  <1> QED
    BY <1>1, <1>2 DEF Typed

LEMMA RefuseTyped == ASSUME Typed, NEW c \in Requests, Refuse(c) PROVE Typed'
  BY FinishTyped DEF Refuse, Typed, TypeOK, Exists

LEMMA BeginTyped ==
  ASSUME Typed, NEW c \in Requests, NEW label \in {"insert", "read"}, NEW m \in Members,
         NEW set \in Roles \cup {"ACTIVE", "SUSPENDED"},
         label = "insert" => set \in Roles, Begin(c, label, m, set)
  PROVE  Typed'
  BY NoRequestTyped DEF Typed, TypeOK, Begin, Goto, WellShaped, Exists, Request

LEMMA InsertTyped == ASSUME Typed, NEW c \in Requests, Insert(c) PROVE Typed'
  <1> DEFINE m == req[c].target
  <1>1. CASE Refuse(c)
    BY <1>1, RefuseTyped
  <1>2. CASE /\ ~Exists(m)
             /\ role' = [role EXCEPT ![m] = req[c].set]
             /\ status' = [status EXCEPT ![m] = "ACTIVE"]
             /\ Finish(c)
    <2>1. m \in Members /\ req[c].set \in Roles
      BY DEF Insert, Typed, TypeOK, Request, WellShaped
    <2>2. /\ role' \in [Members -> Roles \cup {"none"}]
          /\ status' \in [Members -> {"ACTIVE", "SUSPENDED", "absent"}]
          /\ \A n \in Members : (status'[n] # "absent") <=> (role'[n] # "none")
          /\ \A n \in Members : Exists(n) => status'[n] # "absent"
      BY <1>2, <2>1 DEF Typed, TypeOK, Exists, Roles
    <2> QED
      BY <1>2, <2>2, FinishTyped
  <1> QED
    BY <1>1, <1>2 DEF Insert

LEMMA ReadTyped == ASSUME Typed, NEW c \in Requests, ReadTarget(c) PROVE Typed'
  <1> DEFINE m == req[c].target
  <1>1. CASE Refuse(c)
    BY <1>1, RefuseTyped
  <1>2. CASE /\ Found(m) /\ RemovesOwner(m, req[c].set)
             /\ Goto(c, "query")
             /\ UNCHANGED <<role, status, req, held>>
    <2>1. TypeOK'
      BY <1>2 DEF Typed, TypeOK, Goto, Exists
    <2>2. \A d \in Requests : WellShaped(req[d], pc[d])'
      BY <1>2 DEF WellShaped, Goto, Found, Exists, Typed, TypeOK
    <2> QED
      BY <2>1, <2>2 DEF Typed
  <1>3. CASE /\ Found(m) /\ ~RemovesOwner(m, req[c].set)
             /\ Goto(c, "write")
             /\ req' = [req EXCEPT ![c].owned = m \in ActiveOwners]
             /\ UNCHANGED <<role, status, held>>
    <2>1. m \in Members /\ req[c].set \in Roles \cup {"ACTIVE", "SUSPENDED"}
      BY DEF Typed, TypeOK, Request
    <2>2. TypeOK'
      <3>1. req' \in [Requests -> Request]
        <4>1. (m \in ActiveOwners) \in BOOLEAN
          OBVIOUS
        <4>2. [req[c] EXCEPT !.owned = m \in ActiveOwners] \in Request
          <5>1. \A r \in Request, b \in BOOLEAN : [r EXCEPT !.owned = b] \in Request
            BY DEF Request
          <5>2. req[c] \in Request
            BY DEF Typed, TypeOK
          <5> QED
            BY <4>1, <5>1, <5>2, Zenon
        <4> QED
          BY <1>3, <4>2 DEF Typed, TypeOK
      <3>2. pc' \in [Requests -> {"idle", "insert", "read", "write", "query", "lock",
              "lockedWrite"}]
        BY <1>3 DEF Typed, TypeOK, Goto
      <3> QED
        BY <1>3, <3>1, <3>2 DEF Typed, TypeOK, Exists
    <2>3. m \in ActiveOwners => req[c].set \in {"ACTIVE", "owner"}
      BY <1>3, <2>1 DEF RemovesOwner, ActiveOwners, Roles
    <2>4. /\ req' = [req EXCEPT ![c] = [req[c] EXCEPT !.owned = m \in ActiveOwners]]
          /\ req \in [Requests -> Request]
          /\ pc' = [pc EXCEPT ![c] = "write"]
          /\ pc \in [Requests -> {"idle", "insert", "read", "write", "query", "lock",
               "lockedWrite"}]
          /\ Exists(m)'
      BY <1>3 DEF Typed, TypeOK, Goto, Found, Exists
    <2>5. WellShaped(req[c], pc[c])'
      <3>1. pc'[c] = "write" /\ req'[c].target = m /\ req'[c].set = req[c].set
        BY <2>4 DEF Request
      <3>2. req'[c].owned => m \in ActiveOwners
        BY <2>4 DEF Request
      <3> QED
        BY <2>3, <2>4, <3>1, <3>2 DEF WellShaped, Exists
    <2>6. \A d \in Requests \ {c} : WellShaped(req[d], pc[d])'
      BY <1>3 DEF WellShaped, Goto, Exists, Typed, TypeOK
    <2> QED
      BY <2>2, <2>5, <2>6 DEF Typed
  <1> QED
    BY <1>1, <1>2, <1>3 DEF ReadTarget

\* What a write does to the row of its target.
LEMMA ApplyWrites ==
  ASSUME Typed, NEW c \in Requests, Exists(req[c].target), Apply(c)
  PROVE  /\ role' \in [Members -> Roles \cup {"none"}]
         /\ status' \in [Members -> {"ACTIVE", "SUSPENDED", "absent"}]
         /\ \A n \in Members : (status'[n] # "absent") <=> (role'[n] # "none")
         /\ \A n \in Members : Exists(n) => status'[n] # "absent"
         /\ \A n \in Members \ {req[c].target} :
              role'[n] = role[n] /\ status'[n] = status[n]
  <1>1. req[c].target \in Members /\ req[c].set \in Roles \cup {"ACTIVE", "SUSPENDED"}
    BY DEF Typed, TypeOK, Request
  <1>2. CASE req[c].set \in Roles
    BY <1>1, <1>2 DEF Apply, Typed, TypeOK, Exists, Roles
  <1>3. CASE req[c].set \notin Roles
    BY <1>1, <1>3 DEF Apply, Typed, TypeOK, Exists, Roles
  <1> QED
    BY <1>2, <1>3

LEMMA ApplyTyped ==
  ASSUME Typed, NEW c \in Requests, Exists(req[c].target), Apply(c)
  PROVE  Typed'
  BY ApplyWrites, FinishTyped DEF Apply

LEMMA QueryTyped == ASSUME Typed, NEW c \in Requests, QueryOwners(c) PROVE Typed'
  BY DEF QueryOwners, Typed, TypeOK, Goto, Exists, Request, WellShaped, ActiveOwners

LEMMA LockTyped == ASSUME Typed, NEW c \in Requests, LockOwners(c) PROVE Typed'
  <1> DEFINE owners == Counted(c)
  <1>1. CASE Refuse(c)
    BY <1>1, RefuseTyped
  <1>2. CASE /\ held' = [held EXCEPT ![c] = owners]
             /\ Goto(c, "lockedWrite")
             /\ UNCHANGED <<role, status, req>>
    BY <1>2 DEF LockOwners, Counted, Typed, TypeOK, Goto, Exists, Request, WellShaped, ActiveOwners
  <1> QED
    BY <1>1, <1>2 DEF LockOwners

LEMMA NextTyped == Typed /\ [Next]_vars => Typed'
  <1> SUFFICES ASSUME Typed, [Next]_vars PROVE Typed'
    OBVIOUS
  <1>1. CASE UNCHANGED vars
    BY <1>1 DEF vars, Typed, TypeOK, Exists, WellShaped
  <1>2. ASSUME NEW c \in Requests, NEW a \in Members, NEW m \in Members, NEW r \in Roles,
               BeginCreate(c, a, m, r) \/ BeginAssign(c, a, m, r)
        PROVE  Typed'
    BY <1>2, BeginTyped DEF BeginCreate, BeginAssign
  <1>3. ASSUME NEW c \in Requests, NEW a \in Members, NEW m \in Members,
               NEW st \in {"ACTIVE", "SUSPENDED"}, BeginStatus(c, a, m, st)
        PROVE  Typed'
    BY <1>3, BeginTyped DEF BeginStatus
  <1>4. ASSUME NEW c \in Requests, Write(c) \/ LockedWrite(c)
        PROVE  Typed'
    <2>1. Exists(req[c].target)
      BY <1>4 DEF Write, LockedWrite, Typed, WellShaped
    <2> QED
      BY <1>4, <2>1, ApplyTyped DEF Write, LockedWrite
  <1> QED
    BY <1>1, <1>2, <1>3, <1>4, InsertTyped, ReadTyped, QueryTyped, LockTyped, RefuseTyped
    DEF Next, Abort

LEMMA AlwaysTyped == Spec => []Typed
  BY InitTyped, NextTyped, PTL DEF Spec

-----------------------------------------------------------------------------
(* Members: the row locks *)

\* A step that only writes the row of one member, which no transaction but its
\* own has locked, and then ends.
LEMMA FinishKeepsCounts ==
  ASSUME Locked, NEW c \in Requests, NEW x \in Members, RowFree(c, x), Finish(c),
         \A n \in Members \ {x} : role'[n] = role[n] /\ status'[n] = status[n]
  PROVE  (HeldOK /\ CountsStand)'
  <1>1. /\ pc' = [pc EXCEPT ![c] = "idle"]
        /\ held' = [held EXCEPT ![c] = {}]
        /\ pc \in [Requests -> {"idle", "insert", "read", "write", "query", "lock", "lockedWrite"}]
        /\ held \in [Requests -> SUBSET Members]
    BY DEF Finish, Goto, Locked, Typed, TypeOK
  <1>2. HeldOK'
    BY <1>1 DEF Locked, HeldOK
  <1>3. ASSUME NEW d \in Requests, pc'[d] = "lockedWrite"
        PROVE  held'[d] \subseteq ActiveOwners' /\ \E m, n \in held'[d] : m # n
    <2>1. d # c /\ held'[d] = held[d] /\ pc[d] = "lockedWrite"
      BY <1>1, <1>3
    <2>2. x \notin held[d]
      BY <2>1 DEF RowFree
    <2> QED
      BY <2>1, <2>2, <1>1 DEF Locked, CountsStand, ActiveOwners
  <1>4. \A d, e \in Requests : d # e => held'[d] \cap held'[e] = {}
    BY <1>1 DEF Locked, CountsStand
  <1> QED
    BY <1>2, <1>3, <1>4 DEF CountsStand

\* A step that changes neither memberships nor locks.
LEMMA ReadKeepsCounts ==
  ASSUME Locked, NEW c \in Requests, NEW label, label # "lockedWrite",
         pc[c] # "lockedWrite", Goto(c, label), UNCHANGED <<role, status, held>>
  PROVE  (HeldOK /\ CountsStand)'
  BY DEF Locked, Typed, TypeOK, HeldOK, CountsStand, Goto, ActiveOwners

LEMMA LockKeepsCounts ==
  ASSUME Locked, NEW c \in Requests, LockOwners(c), ~Refuse(c)
  PROVE  (HeldOK /\ CountsStand)'
  <1> DEFINE owners == Counted(c)
  <1>1. /\ held' = [held EXCEPT ![c] = owners]
        /\ pc' = [pc EXCEPT ![c] = "lockedWrite"]
        /\ UNCHANGED <<role, status>>
        /\ ~LastOwner(owners)
        /\ \A m \in owners : RowFree(c, m)
    BY DEF LockOwners, Counted, Goto
  <1>2. ActiveOwners' = ActiveOwners
    BY <1>1 DEF ActiveOwners
  <1>3. \E m, n \in owners : m # n
    BY <1>1 DEF LastOwner
  <1>4. HeldOK'
    BY <1>1 DEF Locked, HeldOK, Typed, TypeOK
  <1>5. ASSUME NEW d \in Requests, pc'[d] = "lockedWrite"
        PROVE  held'[d] \subseteq ActiveOwners /\ \E m, n \in held'[d] : m # n
    <2>1. CASE d = c
      BY <1>1, <1>3, <2>1 DEF Counted, Locked, Typed, TypeOK
    <2>2. CASE d # c
      BY <1>1, <1>5, <2>2 DEF Locked, Typed, TypeOK, CountsStand
    <2> QED
      BY <2>1, <2>2
  <1>6. \A d, e \in Requests : d # e => held'[d] \cap held'[e] = {}
    BY <1>1 DEF Locked, Typed, TypeOK, CountsStand, RowFree
  <1> QED
    BY <1>2, <1>4, <1>5, <1>6 DEF CountsStand

LEMMA RefuseKeepsCounts ==
  ASSUME Locked, NEW c \in Requests, Refuse(c) PROVE (HeldOK /\ CountsStand)'
  BY DEF Refuse, Finish, Goto, Locked, Typed, TypeOK, HeldOK, CountsStand, ActiveOwners

\* Nobody has locked the row of a user without a membership.
LEMMA InsertKeepsCounts ==
  ASSUME Locked, NEW c \in Requests, Insert(c) PROVE (HeldOK /\ CountsStand)'
  <1> DEFINE m == req[c].target
  <1>1. m \in Members
    BY DEF Locked, Typed, TypeOK, Request
  <1>2. CASE Refuse(c)
    BY <1>2, RefuseKeepsCounts
  <1>3. CASE /\ ~Exists(m)
             /\ role' = [role EXCEPT ![m] = req[c].set]
             /\ status' = [status EXCEPT ![m] = "ACTIVE"]
             /\ Finish(c)
    <2>1. RowFree(c, m)
      BY <1>3 DEF RowFree, Locked, HeldOK, CountsStand, ActiveOwners, Exists
    <2>2. \A n \in Members \ {m} : role'[n] = role[n] /\ status'[n] = status[n]
      BY <1>1, <1>3 DEF Locked, Typed, TypeOK
    <2> QED
      BY <1>1, <1>3, <2>1, <2>2, FinishKeepsCounts
  <1> QED
    BY <1>2, <1>3 DEF Insert

LEMMA WriteKeepsCounts ==
  ASSUME Locked, NEW c \in Requests, Write(c) \/ LockedWrite(c)
  PROVE  (HeldOK /\ CountsStand)'
  <1>1. /\ req[c].target \in Members /\ Exists(req[c].target)
        /\ RowFree(c, req[c].target) /\ Apply(c)
    BY DEF Locked, Typed, TypeOK, Request, WellShaped, Write, LockedWrite
  <1>2. \A n \in Members \ {req[c].target} : role'[n] = role[n] /\ status'[n] = status[n]
    BY <1>1, ApplyWrites DEF Locked
  <1> QED
    BY <1>1, <1>2, FinishKeepsCounts DEF Apply

LEMMA NextKeepsCounts == Locked /\ [Next]_vars => (HeldOK /\ CountsStand)'
  <1> SUFFICES ASSUME Locked, [Next]_vars PROVE (HeldOK /\ CountsStand)'
    OBVIOUS
  <1>1. CASE UNCHANGED vars
    BY <1>1 DEF vars, Locked, HeldOK, CountsStand, ActiveOwners
  <1>2. ASSUME NEW c \in Requests, NEW a \in Members, NEW m \in Members, NEW r \in Roles,
               BeginCreate(c, a, m, r) \/ BeginAssign(c, a, m, r)
        PROVE  (HeldOK /\ CountsStand)'
    BY <1>2, ReadKeepsCounts DEF BeginCreate, BeginAssign, Begin
  <1>3. ASSUME NEW c \in Requests, NEW a \in Members, NEW m \in Members,
               NEW st \in {"ACTIVE", "SUSPENDED"}, BeginStatus(c, a, m, st)
        PROVE  (HeldOK /\ CountsStand)'
    BY <1>3, ReadKeepsCounts DEF BeginStatus, Begin
  <1>4. ASSUME NEW c \in Requests, ReadTarget(c) PROVE (HeldOK /\ CountsStand)'
    BY <1>4, ReadKeepsCounts, RefuseKeepsCounts DEF ReadTarget
  <1>5. ASSUME NEW c \in Requests, QueryOwners(c) PROVE (HeldOK /\ CountsStand)'
    BY <1>5, ReadKeepsCounts DEF QueryOwners
  <1>6. ASSUME NEW c \in Requests, LockOwners(c) PROVE (HeldOK /\ CountsStand)'
    BY <1>6, LockKeepsCounts, RefuseKeepsCounts
  <1>7. ASSUME NEW c \in Requests, Abort(c) PROVE (HeldOK /\ CountsStand)'
    BY <1>7, RefuseKeepsCounts DEF Abort
  <1> QED
    BY <1>1, <1>2, <1>3, <1>4, <1>5, <1>6, <1>7, InsertKeepsCounts, WriteKeepsCounts
    DEF Next

LEMMA AlwaysLocked == Spec => []Locked
  <1>1. Init => HeldOK /\ CountsStand
    BY DEF Init, HeldOK, CountsStand
  <1>2. Typed /\ HeldOK /\ CountsStand /\ [Next]_vars => (HeldOK /\ CountsStand)'
    BY NextKeepsCounts DEF Locked
  <1>3. Typed /\ HeldOK /\ CountsStand => Locked
    BY DEF Locked
  <1> QED
    BY <1>1, <1>2, <1>3, AlwaysTyped, PTL DEF Spec

-----------------------------------------------------------------------------
(* Members: the last active owner *)

\* Under the lock another active owner than the target remains.
LEMMA LockedWriteLeavesOwner ==
  ASSUME Locked, NEW c \in Requests, LockedWrite(c) PROVE ActiveOwners' # {}
  <1>1. Exists(req[c].target) /\ Apply(c)
    BY DEF LockedWrite, Locked, Typed, WellShaped
  <1>2. PICK m \in held[c], n \in held[c] : m # n
    BY DEF LockedWrite, Locked, CountsStand
  <1>3. m \in ActiveOwners /\ n \in ActiveOwners
    BY DEF LockedWrite, Locked, CountsStand
  <1>4. PICK o \in ActiveOwners : o # req[c].target
    BY <1>2, <1>3
  <1>5. o \in Members /\ role'[o] = role[o] /\ status'[o] = status[o]
    BY <1>1, <1>4, ApplyWrites DEF Locked, ActiveOwners
  <1> QED
    BY <1>4, <1>5 DEF ActiveOwners

\* A write that knew its target for an active owner leaves it one.
LEMMA OwnedWriteLeavesOwners ==
  ASSUME Locked, NEW c \in Requests, Write(c), req[c].owned
  PROVE  ActiveOwners \subseteq ActiveOwners'
  <1> DEFINE m == req[c].target
  <1>1. m \in Members /\ Exists(m) /\ Apply(c) /\ req[c].set \in {"ACTIVE", "owner"}
    BY DEF Write, Locked, Typed, TypeOK, Request, WellShaped
  <1>2. \A n \in Members \ {m} : role'[n] = role[n] /\ status'[n] = status[n]
    BY <1>1, ApplyWrites DEF Locked
  <1>3. m \in ActiveOwners => m \in ActiveOwners'
    BY <1>1 DEF Apply, ActiveOwners, Locked, Typed, TypeOK, Roles
  <1> QED
    BY <1>2, <1>3 DEF ActiveOwners

LEMMA StepUnseatsByStale == Locked /\ [Next]_vars => UnseatedByStale
  <1> SUFFICES ASSUME Locked, [Next]_vars, Unseated
               PROVE  \E c \in Requests : pc[c] = "write" /\ ~req[c].owned
    BY DEF UnseatedByStale
  <1>1. ~UNCHANGED <<role, status>>
    BY DEF Unseated, ActiveOwners
  <1>2. ASSUME NEW c \in Requests, Insert(c)
        PROVE  FALSE
    <2>1. /\ req[c].target \in Members /\ ~Exists(req[c].target)
          /\ role' = [role EXCEPT ![req[c].target] = req[c].set]
          /\ status' = [status EXCEPT ![req[c].target] = "ACTIVE"]
      BY <1>1, <1>2 DEF Insert, Refuse, Locked, Typed, TypeOK, Request
    <2> QED
      BY <2>1 DEF Unseated, ActiveOwners, Exists, Locked, Typed, TypeOK
  <1>3. ASSUME NEW c \in Requests, LockedWrite(c)
        PROVE  FALSE
    BY <1>3, LockedWriteLeavesOwner DEF Unseated
  <1>4. ASSUME NEW c \in Requests, Write(c)
        PROVE  pc[c] = "write" /\ ~req[c].owned
    BY <1>4, OwnedWriteLeavesOwners DEF Unseated, Write
  <1>5. ~UNCHANGED vars
    BY <1>1 DEF vars
  <1>6. ASSUME NEW c \in Requests, NEW a \in Members, NEW m \in Members
        PROVE  /\ \A r \in Roles : ~BeginCreate(c, a, m, r) /\ ~BeginAssign(c, a, m, r)
               /\ \A st \in {"ACTIVE", "SUSPENDED"} : ~BeginStatus(c, a, m, st)
    BY <1>1 DEF BeginCreate, BeginAssign, BeginStatus, Begin
  <1>7. ASSUME NEW c \in Requests
        PROVE  ~ReadTarget(c) /\ ~QueryOwners(c) /\ ~LockOwners(c) /\ ~Abort(c)
    BY <1>1 DEF ReadTarget, QueryOwners, LockOwners, Abort, Refuse
  <1> QED
    BY <1>2, <1>3, <1>4, <1>5, <1>6, <1>7 DEF Next

-----------------------------------------------------------------------------
(* Devices: types *)

LEMMA DevicesStarted == D!Init => DevicesSound
  <1> SUFFICES ASSUME D!Init PROVE DevicesSound
    OBVIOUS
  <1>1. D!TypeOK
    BY DevicesAssumption DEF D!Init, D!TypeOK, D!NoSession
  <1> QED
    BY <1>1 DEF D!Init, DevicesSound, DeviceAimed

\* A request that goes on to a label, or is answered.
LEMMA DeviceStand ==
  ASSUME DevicesSound, NEW c \in Requests, NEW r,
         NEW label \in {"idle", "move", "rotate", "open", "record", "execute", "conflict"},
         D!Stand(c, label, r), DeviceAimed(r, label)
  PROVE  /\ devicesPc' \in [Requests -> {"idle", "move", "rotate", "open", "record", "execute",
                                         "conflict"}]
         /\ DOMAIN devicesReq' = Requests /\ devicesReq' = [d \in Requests |-> devicesReq'[d]]
         /\ \A d \in Requests : DeviceAimed(devicesReq'[d], devicesPc'[d])
         /\ devicesPc'[c] = label /\ devicesReq'[c] = r
         /\ \A d \in Requests \ {c} : devicesPc'[d] = devicesPc[d] /\ devicesReq'[d] = devicesReq[d]
  <1>1. /\ devicesPc' = [devicesPc EXCEPT ![c] = label]
        /\ devicesReq' = [devicesReq EXCEPT ![c] = r]
        /\ devicesPc \in [Requests -> {"idle", "move", "rotate", "open", "record", "execute",
                                       "conflict"}]
        /\ DOMAIN devicesReq = Requests
    BY DEF D!Stand, DevicesSound, D!TypeOK
  <1>2. /\ DOMAIN devicesReq' = Requests /\ devicesReq' = [d \in Requests |-> devicesReq'[d]]
        /\ devicesReq'[c] = r /\ \A d \in Requests \ {c} : devicesReq'[d] = devicesReq[d]
    BY <1>1
  <1>3. /\ devicesPc' \in [Requests -> {"idle", "move", "rotate", "open", "record", "execute",
                                        "conflict"}]
        /\ devicesPc'[c] = label /\ \A d \in Requests \ {c} : devicesPc'[d] = devicesPc[d]
    BY <1>1
  <1>4. \A d \in Requests : DeviceAimed(devicesReq'[d], devicesPc'[d])
    BY <1>2, <1>3 DEF DevicesSound
  <1> QED
    BY <1>2, <1>3, <1>4

\* Only the requests move.
LEMMA DeviceBegun ==
  ASSUME DevicesSound, NEW c \in Requests, D!Request(c)
  PROVE  /\ DevicesSound' /\ UNCHANGED D!rows
         /\ devicesPc'[c] \in {"move", "rotate", "open", "record", "execute"}
  <1>1. ASSUME NEW r, NEW label \in {"move", "rotate", "open", "record", "execute"},
               D!Stand(c, label, r), DeviceAimed(r, label), UNCHANGED D!rows
        PROVE  /\ DevicesSound' /\ UNCHANGED D!rows
         /\ devicesPc'[c] \in {"move", "rotate", "open", "record", "execute"}
    BY <1>1, DeviceStand DEF DevicesSound, D!TypeOK, D!rows
  <1>2. ASSUME NEW d \in Device, NEW action \in {"suspend", "resume", "retire"},
               D!BeginTransition(c, d, action)
        PROVE  /\ DevicesSound' /\ UNCHANGED D!rows
         /\ devicesPc'[c] \in {"move", "rotate", "open", "record", "execute"}
    BY <1>1, <1>2 DEF D!BeginTransition, DeviceAimed
  <1>3. ASSUME NEW d \in Device, D!BeginRotation(c, d) \/ D!BeginOpen(c, d)
        PROVE  /\ DevicesSound' /\ UNCHANGED D!rows
         /\ devicesPc'[c] \in {"move", "rotate", "open", "record", "execute"}
    BY <1>1, <1>3 DEF D!BeginRotation, D!BeginOpen, DeviceAimed
  <1>4. ASSUME NEW s \in D!Sessions, NEW uuid \in Uuids, NEW seq \in Seqs, D!BeginRecord(c, s,
               uuid, seq)
        PROVE  /\ DevicesSound' /\ UNCHANGED D!rows
         /\ devicesPc'[c] \in {"move", "rotate", "open", "record", "execute"}
    <2>1. shift[s].device \in Device
      BY <1>4 DEF D!BeginRecord, D!NoSession, DevicesSound, D!TypeOK
    <2> QED
      BY <1>1, <1>4, <2>1 DEF D!BeginRecord, DeviceAimed
  <1>5. ASSUME NEW o \in recorded, NEW k \in 1..MaxRotations, D!BeginSync(c, o, k)
        PROVE  /\ DevicesSound' /\ UNCHANGED D!rows
         /\ devicesPc'[c] \in {"move", "rotate", "open", "record", "execute"}
    BY <1>1, <1>5 DEF D!BeginSync, DeviceAimed
  <1> QED
    BY <1>2, <1>3, <1>4, <1>5 DEF D!Request

LEMMA DeviceMoved == ASSUME DevicesSound, NEW c \in Requests, D!Transition(c) PROVE DevicesSound'
  <1>1. D!Answer(c) /\ UNCHANGED <<credential, shift, recorded>> /\ devicesPc[c] = "move"
    BY DEF D!Transition
  <1>2. \/ device' = device
        \/ device' = [device EXCEPT ![devicesReq[c].device] = D!Leads(devicesReq[c].op)]
    BY DEF D!Transition
  <1>3. device' \in [Device -> {"none", "ACTIVE", "SUSPENDED", "RETIRED"}]
    BY <1>1, <1>2 DEF DevicesSound, D!TypeOK, DeviceAimed, D!Leads
  <1> QED
    BY <1>1, <1>3, DeviceStand DEF D!Answer, DeviceAimed, DevicesSound, D!TypeOK

LEMMA DeviceRotated ==
  ASSUME DevicesSound, NEW c \in Requests, D!RotateCredential(c)
  PROVE  DevicesSound'
  <1>1. D!Answer(c) /\ UNCHANGED <<device, shift, recorded>> /\ devicesPc[c] = "rotate"
    BY DEF D!RotateCredential
  <1>2. \/ credential' = credential
        \/ /\ credential[devicesReq[c].device] < MaxRotations
           /\ credential' = [credential EXCEPT ![devicesReq[c].device] = @ + 1]
    BY DEF D!RotateCredential
  <1>3. credential' \in [Device -> 0..MaxRotations]
    BY <1>1, <1>2, DevicesAssumption DEF DevicesSound, D!TypeOK, DeviceAimed
  <1> QED
    BY <1>1, <1>3, DeviceStand DEF D!Answer, DeviceAimed, DevicesSound, D!TypeOK

LEMMA SessionOpened ==
  ASSUME DevicesSound, NEW c \in Requests, D!OpenSession(c)
  PROVE  DevicesSound'
  <1>1. D!Answer(c) /\ UNCHANGED <<device, credential, recorded>> /\ devicesPc[c] = "open"
    BY DEF D!OpenSession
  <1>2. \/ shift' = shift
        \/ \E s \in D!Sessions :
             shift' = [shift EXCEPT ![s] = [status |-> "OPEN", device |-> devicesReq[c].device]]
    BY DEF D!OpenSession
  <1>3. shift' \in [D!Sessions -> {D!NoSession} \cup [status : {"OPEN", "CLOSED"}, device : Device]]
    BY <1>1, <1>2 DEF DevicesSound, D!TypeOK, DeviceAimed
  <1> QED
    BY <1>1, <1>3, DeviceStand DEF D!Answer, DeviceAimed, DevicesSound, D!TypeOK

LEMMA IntentRecorded ==
  ASSUME DevicesSound, NEW c \in Requests, D!RecordIntent(c)
  PROVE  DevicesSound'
  <1> DEFINE o == [device |-> devicesReq[c].device, session |-> devicesReq[c].session,
                   uuid |-> devicesReq[c].uuid, seq |-> devicesReq[c].seq, status |-> "PENDING"]
  <1>1. /\ D!Stand(c, "conflict", D!NoRequest) \/ D!Stand(c, "idle", D!NoRequest)
        /\ UNCHANGED <<device, credential, shift>> /\ devicesPc[c] = "record"
        /\ recorded' = recorded \/ recorded' = recorded \cup {o}
    BY DEF D!RecordIntent, D!Answer
  <1>2. o \in D!Operation
    BY <1>1 DEF DevicesSound, DeviceAimed, D!Operation
  <1> HIDE DEF o
  <1>3. recorded' \subseteq D!Operation
    BY <1>1, <1>2 DEF DevicesSound, D!TypeOK
  <1>4. DeviceAimed(D!NoRequest, "idle") /\ DeviceAimed(D!NoRequest, "conflict")
    BY DEF DeviceAimed
  <1>5. /\ devicesPc' \in [Requests -> {"idle", "move", "rotate", "open", "record", "execute",
                                        "conflict"}]
        /\ DOMAIN devicesReq' = Requests /\ devicesReq' = [d \in Requests |-> devicesReq'[d]]
        /\ \A d \in Requests : DeviceAimed(devicesReq'[d], devicesPc'[d])
    <2>1. CASE D!Stand(c, "conflict", D!NoRequest)
      BY <1>4, <2>1, DeviceStand
    <2>2. CASE D!Stand(c, "idle", D!NoRequest)
      BY <1>4, <2>2, DeviceStand
    <2> QED
      BY <1>1, <2>1, <2>2
  <1> QED
    BY <1>1, <1>3, <1>5 DEF DevicesSound, D!TypeOK

\* What a sync writes: the row keeps all but its status.
LEMMA OperationsSettle ==
  ASSUME DevicesSound, NEW c \in Requests, NEW outcome \in {"ACCEPTED", "REJECTED"},
         D!Settle(c, outcome)
  PROVE  /\ recorded' \subseteq D!Operation
         /\ \A o \in recorded : o.status # "PENDING" => o \in recorded'
         /\ \A o \in recorded : o \in recorded' \/ [o EXCEPT !.status = outcome] \in recorded'
  <1> DEFINE row == {o \in D!Of(devicesReq[c].device) :
                       o.uuid = devicesReq[c].uuid /\ D!Finalizable(o)}
  <1>1. recorded' = (recorded \ row) \cup {[o EXCEPT !.status = outcome] : o \in row}
    BY DEF D!Settle
  <1>2. row \subseteq recorded /\ \A o \in row : o.status = "PENDING"
    BY DEF D!Of, D!Finalizable
  <1>3. recorded \subseteq D!Operation
    BY DEF DevicesSound, D!TypeOK
  <1>4. \A o \in D!Operation : [o EXCEPT !.status = outcome] \in D!Operation
    BY DEF D!Operation
  <1> HIDE DEF row
  <1> QED
    BY <1>1, <1>2, <1>3, <1>4

LEMMA OperationSettled ==
  ASSUME DevicesSound, NEW c \in Requests, NEW outcome \in {"ACCEPTED", "REJECTED"},
         D!Settle(c, outcome)
  PROVE  DevicesSound'
  <1>1. /\ D!Answer(c) /\ UNCHANGED <<device, credential, shift>> /\ devicesPc[c] = "execute"
        /\ recorded' \subseteq D!Operation
    BY OperationsSettle DEF D!Settle
  <1> QED
    BY <1>1, DeviceStand DEF D!Answer, DeviceAimed, DevicesSound, D!TypeOK

LEMMA DevicesStep == DevicesSound /\ [D!Next]_D!vars => DevicesSound'
  <1> SUFFICES ASSUME DevicesSound, [D!Next]_D!vars PROVE DevicesSound'
    OBVIOUS
  <1>1. CASE UNCHANGED D!vars
    BY <1>1 DEF D!vars, DevicesSound, D!TypeOK
  <1>2. ASSUME NEW d \in Device, D!RegisterDevice(d) PROVE DevicesSound'
    BY <1>2, DevicesAssumption DEF D!RegisterDevice, DevicesSound, D!TypeOK
  <1>3. ASSUME NEW s \in D!Sessions, D!CloseSession(s) PROVE DevicesSound'
    <2>1. shift' \in [D!Sessions -> {D!NoSession}
            \cup [status : {"OPEN", "CLOSED"}, device : Device]]
      BY <1>3 DEF D!CloseSession, D!NoSession, DevicesSound, D!TypeOK
    <2> QED
      BY <1>3, <2>1 DEF D!CloseSession, DevicesSound, D!TypeOK
  <1> QED
    BY <1>1, <1>2, <1>3, DeviceBegun, DeviceMoved, DeviceRotated, SessionOpened, IntentRecorded,
       OperationSettled DEF D!Next

LEMMA DevicesAlwaysSound == D!Spec => []DevicesSound
  BY DevicesStarted, DevicesStep, PTL DEF D!Spec

-----------------------------------------------------------------------------
(* Devices: what is withdrawn *)

LEMMA DevicesRetire == DevicesSound /\ [D!Next]_D!vars => D!RetiredIsFinal
  <1> SUFFICES ASSUME DevicesSound, [D!Next]_D!vars, NEW d \in Device, device[d] = "RETIRED"
               PROVE  device'[d] = "RETIRED" /\ credential'[d] = credential[d]
    BY DEF D!RetiredIsFinal
  <1>1. ASSUME NEW c \in Requests, D!Request(c) PROVE UNCHANGED <<device, credential>>
    BY <1>1, DeviceBegun DEF D!rows
  <1>2. ASSUME NEW c \in Requests, D!Transition(c)
        PROVE  device'[d] = "RETIRED" /\ credential'[d] = credential[d]
    BY <1>2 DEF D!Transition, D!Starts, DevicesSound, D!TypeOK
  <1>3. ASSUME NEW c \in Requests, D!RotateCredential(c)
        PROVE  device'[d] = "RETIRED" /\ credential'[d] = credential[d]
    BY <1>3 DEF D!RotateCredential, D!Starts, DevicesSound, D!TypeOK
  <1>4. ASSUME NEW e \in Device, D!RegisterDevice(e)
        PROVE  device'[d] = "RETIRED" /\ credential'[d] = credential[d]
    BY <1>4 DEF D!RegisterDevice, DevicesSound, D!TypeOK
  <1> QED
    BY <1>1, <1>2, <1>3, <1>4
    DEF D!Next, D!vars, D!CloseSession, D!OpenSession, D!RecordIntent, D!Settle

\* Only a beginning takes a request to a label of its own.
LEMMA DevicesAnswer ==
  ASSUME DevicesSound, [D!Next]_D!vars, NEW c \in Requests,
         devicesPc'[c] # devicesPc[c] \/ devicesReq'[c] # devicesReq[c]
  PROVE  \/ D!Request(c) /\ D!Free(c)
         \/ devicesPc'[c] = "idle"
         \/ devicesPc[c] = "record" /\ D!RecordIntent(c)
  <1>1. ASSUME NEW d \in Requests, NEW label, NEW r, D!Stand(d, label, r)
        PROVE  c = d /\ devicesPc'[c] = label
    BY <1>1 DEF D!Stand, DevicesSound, D!TypeOK
  <1>2. ASSUME NEW d \in Requests, D!Request(d) PROVE c = d
    BY <1>1, <1>2
    DEF D!Request, D!BeginTransition, D!BeginRotation, D!BeginOpen, D!BeginRecord,
        D!BeginSync
  <1>3. ASSUME NEW d \in Requests,
               D!Transition(d) \/ D!RotateCredential(d) \/ D!OpenSession(d)
                 \/ \E outcome \in {"ACCEPTED", "REJECTED"} : D!Settle(d, outcome)
        PROVE  devicesPc'[c] = "idle"
    BY <1>1, <1>3 DEF D!Transition, D!RotateCredential, D!OpenSession, D!Settle, D!Answer
  <1>4. ASSUME NEW d \in Requests, D!RecordIntent(d) PROVE c = d
    BY <1>1, <1>4 DEF D!RecordIntent, D!Answer
  <1> QED
    BY <1>2, <1>3, <1>4 DEF D!Next, D!RegisterDevice, D!CloseSession, D!vars, D!RecordIntent

-----------------------------------------------------------------------------
(* Devices: operations and their reports *)

LEMMA DevicesRepeat == DevicesSound /\ [D!Next]_D!vars => D!RepeatIsIdempotent
  <1> SUFFICES ASSUME DevicesSound, [D!Next]_D!vars, NEW c \in Requests, devicesPc[c] = "record",
                      devicesPc'[c] = "conflict"
               PROVE  ~\E o \in D!Of(devicesReq[c].device) : o.uuid = devicesReq[c].uuid
    BY DEF D!RepeatIsIdempotent
  <1>1. D!RecordIntent(c)
    BY DevicesAnswer, DeviceBegun
  <1>2. D!Violated(devicesReq[c]) = "seq"
    BY <1>1 DEF D!RecordIntent, D!Answer, D!Stand, DevicesSound, D!TypeOK
  <1> QED
    BY <1>2 DEF D!Violated

\* Cardinality is the same operator in every instance.
LEMMA CardinalityOnce ==
  \A S : A!Cardinality(S) = AP!Cardinality(S)
  BY DEF A!Cardinality, AP!Cardinality

\* What is settled stays in its class, and no operation is lost, in the reports
\* over any part of the operations that status does not decide.
LEMMA ReportsUphold ==
  ASSUME DevicesSound, NEW old, NEW new,
         old \subseteq recorded,
         \A o \in old : o.status # "PENDING" => o \in new,
         \A o \in old : o \in new \/ \E outcome \in {"ACCEPTED", "REJECTED"} :
                                      [o EXCEPT !.status = outcome] \in new
  PROVE  D!Upheld(D!Partition(old), D!Partition(new))
  <1>1. /\ D!Partition(old).accepted \subseteq D!Partition(new).accepted
        /\ D!Partition(old).rejected \subseteq D!Partition(new).rejected
    BY DEF D!Partition
  <1>2. \A p \in new : p \in D!Partition(new).pending \cup D!Partition(new).accepted
                            \cup D!Partition(new).rejected
    BY DEF D!Partition
  <1>3. ASSUME NEW o \in D!Partition(old).pending
        PROVE  \E p \in new : p = [o EXCEPT !.status = p.status]
    <2>1. o \in old /\ o \in D!Operation
      BY DEF D!Partition, DevicesSound, D!TypeOK
    <2>2. CASE o \in new
      BY <2>1, <2>2 DEF D!Operation
    <2>3. ASSUME NEW outcome \in {"ACCEPTED", "REJECTED"}, [o EXCEPT !.status = outcome] \in new
          PROVE  \E p \in new : p = [o EXCEPT !.status = p.status]
      BY <2>1, <2>3 DEF D!Operation
    <2> QED
      BY <2>1, <2>2, <2>3
  <1> QED
    BY <1>1, <1>2, <1>3 DEF D!Upheld

\* No step takes an operation away or changes anything of it but a pending status.
LEMMA OperationsStay ==
  ASSUME DevicesSound, [D!Next]_D!vars
  PROVE  /\ \A o \in recorded : o.status # "PENDING" => o \in recorded'
         /\ \A o \in recorded : o \in recorded' \/ \E outcome \in {"ACCEPTED", "REJECTED"} :
                                      [o EXCEPT !.status = outcome] \in recorded'
  <1>1. ASSUME NEW c \in Requests, NEW outcome \in {"ACCEPTED", "REJECTED"}, D!Settle(c, outcome)
        PROVE  /\ \A o \in recorded : o.status # "PENDING" => o \in recorded'
               /\ \A o \in recorded : o \in recorded'
                                          \/ [o EXCEPT !.status = outcome] \in recorded'
    BY <1>1, OperationsSettle
  <1>2. ASSUME NEW c \in Requests, D!Request(c) \/ D!Transition(c) \/ D!RotateCredential(c)
                                      \/ D!OpenSession(c) \/ D!RecordIntent(c)
        PROVE  recorded \subseteq recorded'
    BY <1>2, DeviceBegun
    DEF D!rows, D!Transition, D!RotateCredential, D!OpenSession, D!RecordIntent
  <1> QED
    BY <1>1, <1>2 DEF D!Next, D!vars, D!RegisterDevice, D!CloseSession

LEMMA DevicesUphold == DevicesSound /\ [D!Next]_D!vars => D!SettledStaysReported
  <1> SUFFICES ASSUME DevicesSound, [D!Next]_D!vars PROVE D!SettledStaysReported
    OBVIOUS
  <1>1. \A o \in recorded : \A outcome :
          /\ [o EXCEPT !.status = outcome].device = o.device
          /\ [o EXCEPT !.status = outcome].session = o.session
    BY DEF DevicesSound, D!TypeOK, D!Operation
  <1>2. ASSUME NEW d \in Device PROVE D!Upheld(D!DeviceReport(d), D!DeviceReport(d)')
    <2> DEFINE old == {o \in recorded : o.device = d}
               new == {o \in recorded' : o.device = d}
    <2>1. D!Upheld(D!Partition(old), D!Partition(new))
      BY <1>1, OperationsStay, ReportsUphold
    <2> QED
      BY <2>1 DEF D!DeviceReport, D!Of, D!Partition
  <1>3. ASSUME NEW s \in D!Sessions PROVE D!Upheld(D!SessionReport(s), D!SessionReport(s)')
    <2> DEFINE old == {o \in recorded : o.session = s}
               new == {o \in recorded' : o.session = s}
    <2>1. D!Upheld(D!Partition(old), D!Partition(new))
      BY <1>1, OperationsStay, ReportsUphold
    <2> QED
      BY <2>1 DEF D!SessionReport, D!Partition
  <1> QED
    BY <1>2, <1>3 DEF D!SettledStaysReported

-----------------------------------------------------------------------------
(* Tokens, for any number of requests and tokens *)

\* A transaction that has passed the guarded update still holds a token that
\* nobody else has revoked or passed it with.
RotatingOK ==
  /\ \A c \in Requests : tokenPc[c] = "issue" => tokenReq[c].token \in T!Unrevoked
  /\ \A c, d \in Requests :
       tokenPc[c] = "issue" /\ tokenPc[d] = "issue" /\ tokenReq[c].token = tokenReq[d].token
         => c = d

\* A session begins with a token that has a row; what was rotated is revoked.
LineageOK ==
  /\ \A t \in issued : session[t] \in issued
  /\ \A t \in Token : from[t] # NoToken => from[t] \in revoked

TokensSound == T!TypeOK /\ RotatingOK /\ LineageOK
TokensSingle == T!RotatedOnce /\ T!OneLivePerLogin

-----------------------------------------------------------------------------
(* Tokens: types, and what the open transactions hold *)

LEMMA TokensStarted == T!Init => TokensSound
  BY DEF T!Init, TokensSound, T!TypeOK, RotatingOK, LineageOK, T!Unrevoked, T!Request, T!NoRequest

LEMMA NoTokenTyped == T!NoRequest \in T!Request
  BY DEF T!NoRequest, T!Request

\* A step that only ends a request.
LEMMA TokenRefused == ASSUME TokensSound, NEW c \in Requests, T!Refuse(c) PROVE TokensSound'
  BY NoTokenTyped
  DEF T!Refuse, T!Finish, T!rows, T!history, TokensSound, T!TypeOK, RotatingOK, LineageOK,
      T!Unrevoked

\* A step that only takes a request to a statement before the last.
LEMMA TokenRead ==
  ASSUME TokensSound, NEW c \in Requests, NEW label \in {"login", "user", "revoke"},
         NEW r \in T!Request, tokenPc' = [tokenPc EXCEPT ![c] = label],
         tokenReq' = [tokenReq EXCEPT ![c] = r],
         UNCHANGED <<T!rows, active, T!history>>
  PROVE  TokensSound'
  BY DEF T!rows, T!history, TokensSound, T!TypeOK, RotatingOK, LineageOK, T!Unrevoked

LEMMA TokenIssued == ASSUME TokensSound, NEW c \in Requests, T!Login(c) PROVE TokensSound'
  <1>1. PICK t \in Token \ issued :
          /\ issued' = issued \cup {t}
          /\ session' = [session EXCEPT ![t] = t]
    BY DEF T!Login
  <1>2. UNCHANGED <<revoked, expired, active, from>> /\ T!Finish(c)
    BY DEF T!Login
  <1>3. T!TypeOK'
    BY <1>1, <1>2, NoTokenTyped DEF T!Finish, TokensSound, T!TypeOK
  <1>4. RotatingOK'
    BY <1>1, <1>2 DEF T!Finish, TokensSound, T!TypeOK, RotatingOK, T!Unrevoked
  <1>5. LineageOK'
    BY <1>1, <1>2 DEF TokensSound, T!TypeOK, LineageOK
  <1> QED
    BY <1>3, <1>4, <1>5 DEF TokensSound

LEMMA TokenPassed == ASSUME TokensSound, NEW c \in Requests, T!RefreshRevoke(c) PROVE TokensSound'
  <1>1. CASE T!Refuse(c)
    BY <1>1, TokenRefused
  <1>2. CASE /\ T!Rotatable(c)
             /\ tokenPc' = [tokenPc EXCEPT ![c] = "issue"]
             /\ UNCHANGED <<T!rows, active, T!history, tokenReq>>
    BY <1>2
    DEF T!RefreshRevoke, T!Rotatable, T!RowFree, T!rows, T!history, TokensSound, T!TypeOK,
        RotatingOK,
        LineageOK, T!Unrevoked
  <1> QED
    BY <1>1, <1>2 DEF T!RefreshRevoke

\* What the commit of a rotation writes.
LEMMA RotationWrites ==
  ASSUME TokensSound, NEW c \in Requests, T!RefreshIssue(c)
  PROVE  \E fresh \in Token \ issued :
           /\ tokenReq[c].token \in T!Unrevoked
           /\ issued' = issued \cup {fresh}
           /\ revoked' = revoked \cup {tokenReq[c].token}
           /\ session' = [session EXCEPT ![fresh] = session[tokenReq[c].token]]
           /\ from' = [from EXCEPT ![fresh] = tokenReq[c].token]
  BY DEF T!RefreshIssue, T!Revoking, TokensSound, RotatingOK

LEMMA TokenRotated == ASSUME TokensSound, NEW c \in Requests, T!RefreshIssue(c) PROVE TokensSound'
  <1> DEFINE t == tokenReq[c].token
  <1>1. PICK fresh \in Token \ issued :
          /\ t \in T!Unrevoked
          /\ issued' = issued \cup {fresh}
          /\ revoked' = revoked \cup {t}
          /\ session' = [session EXCEPT ![fresh] = session[t]]
          /\ from' = [from EXCEPT ![fresh] = t]
    BY RotationWrites
  <1>2. UNCHANGED <<expired, active>> /\ T!Finish(c) /\ tokenPc[c] = "issue"
    BY DEF T!RefreshIssue
  <1>3. T!TypeOK'
    BY <1>1, <1>2, NoTokenTyped DEF T!Finish, TokensSound, T!TypeOK, T!Unrevoked
  <1>4. RotatingOK'
    BY <1>1, <1>2 DEF T!Finish, TokensSound, T!TypeOK, RotatingOK, T!Unrevoked
  <1>5. LineageOK'
    BY <1>1 DEF TokensSound, T!TypeOK, LineageOK, T!Unrevoked
  <1> QED
    BY <1>3, <1>4, <1>5 DEF TokensSound

LEMMA TokenLoggedOut == ASSUME TokensSound, NEW t \in Token, T!Logout(t) PROVE TokensSound'
  BY DEF T!Logout, T!RowFree, T!history, TokensSound, T!TypeOK, RotatingOK, LineageOK, T!Unrevoked

LEMMA TokensUntouched ==
  ASSUME TokensSound, T!SetUserStatus \/ \E t \in Token : T!Expire(t)
  PROVE  TokensSound'
  BY DEF T!SetUserStatus, T!Expire, T!rows, T!history, TokensSound, T!TypeOK, RotatingOK,
    LineageOK, T!Unrevoked

LEMMA TokensStep == TokensSound /\ [T!Next]_T!vars => TokensSound'
  <1> SUFFICES ASSUME TokensSound, [T!Next]_T!vars PROVE TokensSound'
    OBVIOUS
  <1>1. CASE UNCHANGED T!vars
    BY <1>1 DEF T!vars, T!rows, T!history, TokensSound, T!TypeOK, RotatingOK, LineageOK, T!Unrevoked
  <1>2. ASSUME NEW c \in Requests, T!BeginLogin(c) PROVE TokensSound'
    <2>1. tokenReq[c] \in T!Request /\ tokenReq' = [tokenReq EXCEPT ![c] = tokenReq[c]]
      BY <1>2 DEF T!BeginLogin, TokensSound, T!TypeOK
    <2> QED
      BY <1>2, <2>1, TokenRead DEF T!BeginLogin
  <1>3. ASSUME NEW c \in Requests, NEW t \in Token, T!BeginRefresh(c, t) PROVE TokensSound'
    <2>1. [token |-> t, unexpired |-> t \notin expired] \in T!Request
      BY DEF T!Request
    <2> QED
      BY <1>3, <2>1, TokenRead DEF T!BeginRefresh
  <1>4. ASSUME NEW c \in Requests, T!RefreshUser(c) PROVE TokensSound'
    <2>1. CASE T!Refuse(c)
      BY <2>1, TokenRefused
    <2>2. CASE /\ tokenPc' = [tokenPc EXCEPT ![c] = "revoke"]
               /\ UNCHANGED <<T!rows, active, T!history, tokenReq>>
      <3>1. tokenReq[c] \in T!Request /\ tokenReq' = [tokenReq EXCEPT ![c] = tokenReq[c]]
        BY <2>2 DEF TokensSound, T!TypeOK
      <3> QED
        BY <2>2, <3>1, TokenRead
    <2> QED
      BY <1>4, <2>1, <2>2 DEF T!RefreshUser
  <1> QED
    BY <1>1, <1>2, <1>3, <1>4, TokenIssued, TokenPassed, TokenRotated, TokenLoggedOut,
       TokensUntouched, TokenRefused
    DEF T!Next, T!Abort

LEMMA TokensAlwaysSound == T!Spec => []TokensSound
  BY TokensStarted, TokensStep, PTL DEF T!Spec

-----------------------------------------------------------------------------
(* Tokens: one successor, one live token *)

LEMMA LoginKeepsSingle ==
  ASSUME TokensSound, TokensSingle, NEW c \in Requests, T!Login(c) PROVE TokensSingle'
  <1>1. PICK t \in Token \ issued :
          /\ issued' = issued \cup {t}
          /\ session' = [session EXCEPT ![t] = t]
          /\ UNCHANGED <<revoked, from>>
    BY DEF T!Login
  <1>2. T!RotatedOnce'
    BY <1>1 DEF TokensSingle, T!RotatedOnce
  <1>3. \A u \in T!Unrevoked : session'[u] = session[u] /\ session'[u] # t
    BY <1>1 DEF TokensSound, T!TypeOK, LineageOK, T!Unrevoked
  <1>4. session'[t] = t /\ T!Unrevoked' \subseteq T!Unrevoked \cup {t}
    BY <1>1 DEF TokensSound, T!TypeOK, T!Unrevoked
  <1>5. T!OneLivePerLogin'
    BY <1>3, <1>4 DEF TokensSingle, T!OneLivePerLogin
  <1> QED
    BY <1>2, <1>5 DEF TokensSingle

LEMMA RotationKeepsSingle ==
  ASSUME TokensSound, TokensSingle, NEW c \in Requests, T!RefreshIssue(c) PROVE TokensSingle'
  <1> DEFINE t == tokenReq[c].token
  <1>1. PICK fresh \in Token \ issued :
          /\ t \in T!Unrevoked
          /\ issued' = issued \cup {fresh}
          /\ revoked' = revoked \cup {t}
          /\ session' = [session EXCEPT ![fresh] = session[t]]
          /\ from' = [from EXCEPT ![fresh] = t]
    BY RotationWrites
  <1>2. \A u \in Token : from[u] # NoToken => from[u] # t
    BY <1>1 DEF TokensSound, LineageOK, T!Unrevoked
  <1>3. \A u \in Token \ {fresh} : from'[u] = from[u]
    BY <1>1 DEF TokensSound, T!TypeOK
  <1>4. from'[fresh] = t
    BY <1>1 DEF TokensSound, T!TypeOK
  <1>5. T!RotatedOnce'
    BY <1>2, <1>3, <1>4 DEF TokensSingle, T!RotatedOnce
  <1>6. \A u \in T!Unrevoked' \ {fresh} :
          u \in T!Unrevoked /\ session'[u] = session[u] /\ session'[u] # session[t]
    BY <1>1 DEF TokensSound, T!TypeOK, T!Unrevoked, TokensSingle, T!OneLivePerLogin
  <1>7. session'[fresh] = session[t]
    BY <1>1 DEF TokensSound, T!TypeOK
  <1>8. T!OneLivePerLogin'
    BY <1>6, <1>7 DEF TokensSingle, T!OneLivePerLogin
  <1> QED
    BY <1>5, <1>8 DEF TokensSingle

\* The other steps make no token.
LEMMA RestMakesNone ==
  ASSUME TokensSound, [T!Next]_T!vars,
         ~ \E c \in Requests : T!Login(c) \/ T!RefreshIssue(c)
  PROVE  UNCHANGED <<issued, session, from>> /\ revoked \subseteq revoked'
  BY DEF T!Next, T!vars, T!rows, T!history, T!BeginLogin, T!BeginRefresh, T!RefreshUser,
         T!RefreshRevoke,
         T!Abort, T!Refuse, T!Logout, T!Expire, T!SetUserStatus

LEMMA TokensKeepSingle == TokensSound /\ TokensSingle /\ [T!Next]_T!vars => TokensSingle'
  <1> SUFFICES ASSUME TokensSound, TokensSingle, [T!Next]_T!vars PROVE TokensSingle'
    OBVIOUS
  <1>1. CASE \E c \in Requests : T!Login(c) \/ T!RefreshIssue(c)
    BY <1>1, LoginKeepsSingle, RotationKeepsSingle
  <1>2. CASE ~ \E c \in Requests : T!Login(c) \/ T!RefreshIssue(c)
    BY <1>2, RestMakesNone DEF TokensSingle, T!RotatedOnce, T!OneLivePerLogin, T!Unrevoked
  <1> QED
    BY <1>1, <1>2

LEMMA TokensAlwaysSingle == T!Spec => []TokensSingle
  <1>1. T!Init => TokensSingle
    BY DEF T!Init, TokensSingle, T!RotatedOnce, T!OneLivePerLogin, T!Unrevoked
  <1> QED
    BY <1>1, TokensAlwaysSound, TokensKeepSingle, PTL DEF T!Spec

-----------------------------------------------------------------------------
(* Tokens: logout *)

LEMMA TokensStayOver == TokensSound /\ [T!Next]_T!vars => T!LogoutSticks
  <1> SUFFICES ASSUME TokensSound, [T!Next]_T!vars, NEW s \in Token, T!Over(s) PROVE T!Over(s)'
    BY DEF T!LogoutSticks
  <1>1. ASSUME NEW c \in Requests, T!Login(c) PROVE T!Over(s)'
    <2>1. PICK t \in Token \ issued :
            /\ issued' = issued \cup {t}
            /\ session' = [session EXCEPT ![t] = t]
            /\ UNCHANGED revoked
      BY <1>1 DEF T!Login
    <2>2. s # t
      BY <2>1 DEF T!Over, TokensSound, LineageOK
    <2> QED
      BY <2>1, <2>2 DEF T!Over, T!Unrevoked, TokensSound, T!TypeOK
  <1>2. ASSUME NEW c \in Requests, T!RefreshIssue(c) PROVE T!Over(s)'
    <2>1. PICK fresh \in Token \ issued :
            /\ tokenReq[c].token \in T!Unrevoked
            /\ issued' = issued \cup {fresh}
            /\ revoked' = revoked \cup {tokenReq[c].token}
            /\ session' = [session EXCEPT ![fresh] = session[tokenReq[c].token]]
      BY <1>2, RotationWrites
    <2>2. session[tokenReq[c].token] # s
      BY <2>1 DEF T!Over
    <2> QED
      BY <2>1, <2>2 DEF T!Over, T!Unrevoked, TokensSound, T!TypeOK
  <1>3. CASE ~ \E c \in Requests : T!Login(c) \/ T!RefreshIssue(c)
    BY <1>3, RestMakesNone DEF T!Over, T!Unrevoked
  <1> QED
    BY <1>1, <1>2, <1>3

-----------------------------------------------------------------------------
(* The composition: each component's part of a behaviour is one of its own *)

\* What holds of every behaviour of a component holds of its part of the
\* composition's: no step of another component touches its rows or requests.
LEMMA IdentityMembers == IdentitySpec => Spec
  <1>1. IdentityInit => Init
    BY DEF IdentityInit
  <1>2. [IdentityNext]_<<component, vars, tokenVars, accessVars, devicesVars>> => [Next]_vars
    BY DEF IdentityNext
  <1> QED
    BY <1>1, <1>2, PTL DEF IdentitySpec, Spec

LEMMA IdentityDevices == IdentitySpec => D!Spec
  <1>1. IdentityInit => D!Init
    BY DEF IdentityInit
  <1>2. [IdentityNext]_<<component, vars, tokenVars, accessVars, devicesVars>> => [D!Next]_D!vars
    BY DEF IdentityNext, devicesVars, D!vars
  <1> QED
    BY <1>1, <1>2, PTL DEF IdentitySpec, D!Spec

LEMMA IdentityTokens == IdentitySpec => T!Spec
  <1>1. IdentityInit => T!Init
    BY DEF IdentityInit
  <1>2. [IdentityNext]_<<component, vars, tokenVars, accessVars, devicesVars>> => [T!Next]_T!vars
    BY DEF IdentityNext, tokenVars, T!vars, T!rows, T!history
  <1> QED
    BY <1>1, <1>2, PTL DEF IdentitySpec, T!Spec

\* AccessProof is about a module that it extends: its copy of that, AP, says the
\* same as the composition's, A.
LEMMA IdentityAccess == IdentitySpec => AP!Spec
  <1>1. A!Init => AP!Init
    BY DEF A!Init, AP!Init, A!NoRequest, AP!NoRequest, A!RoleIds, AP!RoleIds, A!Keys, AP!Keys
  <1>2. A!Next => AP!Next
    <2> USE DEF AP!Keys, A!Keys, AP!IsOwner, A!IsOwner, AP!RoleIds, A!RoleIds, AP!Owner, A!Owner,
          AP!NoRole, A!NoRole, AP!Home, A!Home, AP!rows, A!rows, AP!NoTarget, A!NoTarget
    <2>1. \A c, label, r : A!Stand(c, label, r) <=> AP!Stand(c, label, r)
      BY DEF A!Stand, AP!Stand
    <2>2. \A c : A!Answer(c) <=> AP!Answer(c)
      BY <2>1 DEF A!Answer, AP!Answer, A!NoRequest, AP!NoRequest
    <2>3. \A u, t : A!Snapshot(u, t) = AP!Snapshot(u, t) /\ A!Owners(t) = AP!Owners(t)
      BY DEF A!Snapshot, AP!Snapshot, A!Owners, AP!Owners
    <2>4. \A c : A!Held(c) = AP!Held(c)
      BY <2>3 DEF A!Held, AP!Held
    <2>5. A!Remember <=> AP!Remember
      BY DEF A!Remember, AP!Remember, A!Held, AP!Held, A!Snapshot, AP!Snapshot
    <2>6. \A c, r : A!Guards(c, r) <=> AP!Guards(c, r)
      BY <2>1, <2>3
      DEF A!Guards, AP!Guards, A!Resolved, AP!Resolved, A!Admitted, AP!Admitted, A!Enter, AP!Enter
    <2>7. \A c : A!Begin(c) <=> AP!Begin(c)
      <3>1. \A c, op, u, t, id, keys, x :
              A!Guards(c, A!Ask(op, u, t, id, keys, x))
                <=> AP!Guards(c, AP!Ask(op, u, t, id, keys, x))
        BY <2>6 DEF A!Ask, AP!Ask
      <3> QED
        BY <3>1 DEF A!Begin, AP!Begin
    <2>8. \A c : A!AssertManage(c) <=> AP!AssertManage(c)
      BY <2>1, <2>2, <2>4 DEF A!AssertManage, AP!AssertManage, A!Bounded, AP!Bounded
    <2>9. \A c : A!FindRole(c) <=> AP!FindRole(c)
      BY <2>1, <2>2
      DEF A!FindRole, AP!FindRole, A!MayWrite, AP!MayWrite, A!Demotes, AP!Demotes,
          A!Scoped, AP!Scoped, A!Bounded, AP!Bounded
    <2>10. \A c, op : A!Writing(c, op) <=> AP!Writing(c, op)
      BY <2>2 DEF A!Writing, AP!Writing
    <2>11. \A r : A!Reassigned(r) = AP!Reassigned(r)
      BY DEF A!Reassigned, AP!Reassigned
    <2>12. \A c : /\ A!CreateRole(c) <=> AP!CreateRole(c)
                  /\ A!UpdateRole(c) <=> AP!UpdateRole(c)
                  /\ A!DeleteRole(c) <=> AP!DeleteRole(c)
                  /\ A!AssignPermissions(c) <=> AP!AssignPermissions(c)
      BY <2>10
      DEF A!CreateRole, AP!CreateRole, A!UpdateRole, AP!UpdateRole, A!DeleteRole, AP!DeleteRole,
          A!AssignPermissions, AP!AssignPermissions
    <2>13. \A c : /\ A!AssignRole(c) <=> AP!AssignRole(c)
                  /\ A!DemoteOwner(c) <=> AP!DemoteOwner(c)
      BY <2>2, <2>3, <2>10, <2>11, CardinalityOnce
      DEF A!AssignRole, AP!AssignRole, A!DemoteOwner, AP!DemoteOwner
    <2>14. \A m : A!Leave(m) <=> AP!Leave(m)
      BY <2>3, CardinalityOnce DEF A!Leave, AP!Leave
    <2> QED
      BY <2>5, <2>7, <2>8, <2>9, <2>12, <2>13, <2>14 DEF A!Next, AP!Next, A!Step, AP!Step
  <1>3. [IdentityNext]_<<component, vars, tokenVars, accessVars, devicesVars>> => [AP!Next]_AP!vars
    BY <1>2 DEF IdentityNext, accessVars, AP!vars
  <1> QED
    BY <1>1, <1>3, PTL DEF IdentityInit, IdentitySpec, AP!Spec

LEMMA AccessPremises == AP!Premises
  <1>1. FirstRoles \in [{u1, u2} \X {t1, t2} -> AP!RoleIds \cup {AP!NoRole}]
    BY AccessAssumption DEF FirstRoles, AP!RoleIds, AP!NoRole
  <1> QED
    BY <1>1, AccessAssumption DEF AP!Premises, AP!IsOwner, AP!Keys

-----------------------------------------------------------------------------
(* The theorems *)

\* The rows and requests of all four components keep their types.
THEOREM IdentityTyped == IdentitySpec => []TypesOK
  <1>1. AP!TypeOK => A!TypeOK
    BY DEF AP!TypeOK, A!TypeOK, AP!RoleIds, A!RoleIds, AP!Keys, A!Keys, AP!NoRole, A!NoRole,
      AP!IsOwner, A!IsOwner
  <1>2. Typed /\ TokensSound /\ AP!TypeOK /\ DevicesSound => TypesOK
    BY <1>1 DEF Typed, TokensSound, DevicesSound, TypesOK
  <1> QED
    BY <1>2, IdentityMembers, AlwaysTyped, IdentityTokens, TokensAlwaysSound, IdentityAccess,
       AccessPremises, AP!TypeCorrect, IdentityDevices, DevicesAlwaysSound, PTL

\* The count of owners a transaction has taken under the lock is right when it
\* writes (member.service.ts).
THEOREM CountsHold == IdentitySpec => []CountsStand
  <1>1. Locked => CountsStand
    BY DEF Locked
  <1> QED
    BY <1>1, IdentityMembers, AlwaysLocked, PTL

\* Only a write on a stale reading of its target takes the last active owner
\* away.
THEOREM StaleUnseats == IdentitySpec => OnlyStaleUnseats
  BY IdentityMembers, AlwaysLocked, StepUnseatsByStale, PTL DEF Spec, OnlyStaleUnseats

\* Concurrent refreshes with one token hand out one successor.
THEOREM RotationsOnce == IdentitySpec => []RotatedOnce
  <1>1. TokensSingle => RotatedOnce
    BY DEF TokensSingle, RotatedOnce
  <1> QED
    BY <1>1, IdentityTokens, TokensAlwaysSingle, PTL

\* A login has at most one token that is not revoked.
THEOREM LiveOnce == IdentitySpec => []OneLivePerLogin
  <1>1. TokensSingle => OneLivePerLogin
    BY DEF TokensSingle, OneLivePerLogin
  <1> QED
    BY <1>1, IdentityTokens, TokensAlwaysSingle, PTL

\* A login that was logged out gets no token from a refresh under way.
THEOREM LogoutHolds == IdentitySpec => LoggedOutStays
  <1>1. TokensSound /\ [T!Next]_T!vars => [component = "tokens" => T!LogoutSticks]_tokenVars
    BY TokensStayOver
  <1> QED
    BY <1>1, IdentityTokens, TokensAlwaysSound, PTL DEF T!Spec, LoggedOutStays

\* Permissions and ownership come from those who have held them, in the tenant,
\* since their request began.
THEOREM HeldGrants == IdentitySpec => OnlyHeldIsGranted
  <1>1. [AP!OnlyHeldIsGranted]_AP!vars => [component = "access" => A!OnlyHeldIsGranted]_accessVars
    BY DEF accessVars, AP!vars,
      AP!Author, A!Author, AP!OnlyHeldIsGranted, A!OnlyHeldIsGranted, AP!Keys, A!Keys,
      AP!IsOwner, A!IsOwner, AP!RoleIds, A!RoleIds, AP!Owner, A!Owner, AP!NoRole,
      A!NoRole, AP!Home, A!Home, AP!Snapshot, A!Snapshot, AP!Owners, A!Owners,
      AP!rows, A!rows
  <1> QED
    BY <1>1, IdentityAccess, AccessPremises, AP!HeldIsGranted, PTL DEF OnlyHeldIsGranted

\* A tenant's roles and its members' roles are written by its own role managers.
THEOREM ManagersOnly == IdentitySpec => OnlyManagersWrite
  <1>1. [AP!OnlyManagersWrite]_AP!vars => [component = "access" => A!OnlyManagersWrite]_accessVars
    BY DEF accessVars, AP!vars,
      AP!Author, A!Author, AP!OnlyManagersWrite, A!OnlyManagersWrite, AP!Keys, A!Keys,
      AP!IsOwner, A!IsOwner, AP!RoleIds, A!RoleIds, AP!Owner, A!Owner, AP!NoRole,
      A!NoRole, AP!Home, A!Home, AP!Snapshot, A!Snapshot, AP!Owners, A!Owners,
      AP!rows, A!rows
  <1> QED
    BY <1>1, IdentityAccess, AccessPremises, AP!ManagersWrite, PTL DEF OnlyManagersWrite

\* A retired device keeps its status and its credential, whatever had read it
\* before.
THEOREM RetiredStays == IdentitySpec => RetiredIsFinal
  <1>1. DevicesSound /\ [D!Next]_D!vars => [component = "devices" => D!RetiredIsFinal]_devicesVars
    BY DevicesRetire
  <1> QED
    BY <1>1, IdentityDevices, DevicesAlwaysSound, PTL DEF D!Spec, RetiredIsFinal

\* However many pushes of an operation are under way, none is told that its
\* number is taken once the operation is recorded.
THEOREM RepeatsAnswered == IdentitySpec => RepeatIsIdempotent
  <1>1. DevicesSound /\ [D!Next]_D!vars
          => [component = "devices" => D!RepeatIsIdempotent]_devicesVars
    BY DevicesRepeat
  <1> QED
    BY <1>1, IdentityDevices, DevicesAlwaysSound, PTL DEF D!Spec, RepeatIsIdempotent

\* What a report has shown accepted or rejected stays so, and what it has shown
\* pending stays accounted for, whatever syncs of an operation race.
THEOREM ReportsStand == IdentitySpec => SettledStaysReported
  <1>1. DevicesSound /\ [D!Next]_D!vars
          => [component = "devices" => D!SettledStaysReported]_devicesVars
    BY DevicesUphold
  <1> QED
    BY <1>1, IdentityDevices, DevicesAlwaysSound, PTL DEF D!Spec, SettledStaysReported
=============================================================================

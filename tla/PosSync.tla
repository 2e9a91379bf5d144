------------------------------ MODULE PosSync -------------------------------
(***************************************************************************)
(* Synchronisation of offline POS sales (src/src/pos/pos-sync.service.ts): *)
(* a device has recorded sale intents while offline, and pushes them until *)
(* each has a durable result.  Requests to sync the same intent race each  *)
(* other; the guarded update of processedAt (the claim) is to let one of   *)
(* them run the sale engine.                                               *)
(*                                                                         *)
(* Each action is one statement, or one transaction, of a request.  The    *)
(* engine's transactions (createOrder T1, createPayment T5, capturePayment *)
(* T2) are modelled statement by statement in Orders and are one step each *)
(* here.  The intents ask for units of one variant from one store's pool,  *)
(* which online sales drain and a manager refills.                         *)
(***************************************************************************)
EXTENDS Integers, FiniteSets

CONSTANTS
  Syncers,     \* concurrent sync requests
  Ops,         \* the offline sale intents
  Sales,       \* ids of the orders the engine creates
  NoOp, NoSale,
  Prices,      \* amounts a price can have
  Observed,    \* the price the device saw, by intent
  Demand,      \* the quantity asked for, by intent
  Opening,     \* units in the store's pool at the start
  MaxCrashes   \* bound on the requests that die

ASSUME IdAssumption == NoOp \notin Ops /\ NoSale \notin Sales
ASSUME IntentAssumption ==
  Observed \in [Ops -> Prices] /\ Demand \in [Ops -> Nat \ {0}]
\* Every unit could be a sale of its own: the engine never runs out of ids.
ASSUME SupplyAssumption == Opening \in Nat /\ Opening <= Cardinality(Sales)
ASSUME CrashAssumption == MaxCrashes \in Nat

VARIABLES
  opStatus,    \* PosOperation.status, "none" until the device has pushed it
  opResult,    \* PosOperation.resultOrderId
  claim,       \* PosOperation.processedAt: null, recent, or five minutes old
  saleOp,      \* history: the intent the engine created the order for
  saleStatus,  \* Order.status
  recorded,    \* orders with a PosSale row
  stock,       \* quantityOnHand of the store's pool
  price,       \* the variant's Price.amountMinor
  device,      \* PosDevice.status
  pc,          \* where each sync request stands
  op,          \* the intent it syncs
  sale,        \* the order its engine run has created
  crashes,     \* requests that have died
  disturbed    \* history: intents a claim winner left without a result

opVars == <<opStatus, opResult, claim>>
saleVars == <<saleOp, saleStatus, recorded>>
shopVars == <<stock, price, device>>
syncVars == <<pc, op, sale>>
faultVars == <<crashes, disturbed>>
vars == <<opVars, saleVars, shopVars, syncVars, faultVars>>

\* A claim winner runs the engine and persists its result: the order it created,
\* or that the units were gone.
Engine == {"engine", "order", "soldout", "pay", "capture", "record", "finalize"}
Labels == Engine \cup
  {"idle", "authority", "prices", "inventory", "reject", "claim", "await", "clear"}

TypeOK ==
  /\ opStatus \in [Ops -> {"none", "PENDING", "ACCEPTED", "REJECTED"}]
  /\ opResult \in [Ops -> Sales \cup {NoSale}]
  /\ claim \in [Ops -> {"null", "recent", "old"}]
  /\ saleOp \in [Sales -> Ops \cup {NoOp}]
  /\ saleStatus \in [Sales -> {"none", "PENDING", "PAID", "CANCELLED"}]
  /\ recorded \subseteq Sales
  /\ stock \in Nat
  /\ price \in Prices
  /\ device \in {"ACTIVE", "SUSPENDED", "RETIRED"}
  /\ pc \in [Syncers -> Labels]
  /\ op \in [Syncers -> Ops \cup {NoOp}]
  /\ sale \in [Syncers -> Sales \cup {NoSale}]
  /\ crashes \in 0..MaxCrashes
  /\ disturbed \subseteq Ops

Init ==
  /\ opStatus = [o \in Ops |-> "none"]
  /\ opResult = [o \in Ops |-> NoSale]
  /\ claim = [o \in Ops |-> "null"]
  /\ saleOp = [s \in Sales |-> NoOp]
  /\ saleStatus = [s \in Sales |-> "none"]
  /\ recorded = {}
  /\ stock = Opening
  /\ price \in Prices
  /\ device = "ACTIVE"
  /\ pc = [r \in Syncers |-> "idle"]
  /\ op = [r \in Syncers |-> NoOp]
  /\ sale = [r \in Syncers |-> NoSale]
  /\ crashes = 0
  /\ disturbed = {}

-----------------------------------------------------------------------------
(* The life of a sync request *)

Goto(r, label) == pc' = [pc EXCEPT ![r] = label]
\* The handler returns or throws.
Finish(r) ==
  /\ Goto(r, "idle")
  /\ op' = [op EXCEPT ![r] = NoOp]
  /\ sale' = [sale EXCEPT ![r] = NoSale]
\* A read that moves the request on, or ends it.
Read(r, label) ==
  /\ Goto(r, label)
  /\ UNCHANGED <<op, sale, opVars, saleVars, shopVars, faultVars>>
Answer(r) ==
  /\ Finish(r)
  /\ UNCHANGED <<opVars, saleVars, shopVars, faultVars>>
\* The engine throws: the claim stays behind, the intent has no result.
EngineThrows(r) ==
  /\ Finish(r)
  /\ disturbed' = disturbed \cup {op[r]}
  /\ UNCHANGED <<opVars, saleVars, shopVars, crashes>>

\* loadOperation.  A settled intent is answered with its persisted result.
BeginSync(r, o) ==
  /\ pc[r] = "idle"
  /\ opStatus[o] = "PENDING"
  /\ Goto(r, "authority")
  /\ op' = [op EXCEPT ![r] = o]
  /\ UNCHANGED <<sale, opVars, saleVars, shopVars, faultVars>>

\* assertSyncAuthority; credential and permission refuse like the status.
Authority(r) ==
  /\ pc[r] = "authority"
  /\ \/ device = "ACTIVE" /\ Read(r, "prices")
     \/ device # "ACTIVE" /\ Answer(r)

\* validateIntent, its price part and its stock part.
ValidatePrice(r) ==
  /\ pc[r] = "prices"
  /\ Read(r, IF price = Observed[op[r]] THEN "inventory" ELSE "reject")

ValidateStock(r) ==
  /\ pc[r] = "inventory"
  /\ Read(r, IF stock >= Demand[op[r]] THEN "claim" ELSE "reject")

\* Fault: a rejection is written over whatever result is there.
AlwaysOpen(o) == TRUE
\* The guard of persistRejection: it asks for the status, not for the claim.
Open(o) == opStatus[o] = "PENDING"

PersistRejection(r) ==
  /\ pc[r] \in {"reject", "soldout"}
  /\ opStatus' = IF Open(op[r])
                   THEN [opStatus EXCEPT ![op[r]] = "REJECTED"] ELSE opStatus
  /\ Finish(r)
  /\ UNCHANGED <<opResult, claim, saleVars, shopVars, faultVars>>

\* Fault: the claim forgets to ask for processedAt: null.
Unsettled(o) == opStatus[o] = "PENDING"
Claimable(o) == opStatus[o] = "PENDING" /\ claim[o] = "null"

Claim(r) ==
  /\ pc[r] = "claim"
  /\ \/ /\ Claimable(op[r])
        /\ claim' = [claim EXCEPT ![op[r]] = "recent"]
        /\ Goto(r, "engine")
        /\ UNCHANGED <<op, sale, opStatus, opResult, saleVars, shopVars, faultVars>>
     \/ ~Claimable(op[r]) /\ Read(r, "await")

\* Fault: no claim is ever found stale.
NeverExpired(o) == FALSE
Expired(o) == opStatus[o] = "PENDING" /\ claim[o] = "old"

\* awaitConcurrentResult: the poll that ends the waiting, with the winner's
\* result, by finding an old claim, or by being the last of the 200.
Await(r) ==
  /\ pc[r] = "await"
  /\ \/ ~Expired(op[r]) /\ Answer(r)
     \/ Expired(op[r]) /\ Read(r, "clear")

\* The old claim is taken away; its age is not part of the update's WHERE.
ClearClaim(r) ==
  /\ pc[r] = "clear"
  /\ claim' = IF opStatus[op[r]] = "PENDING"
                THEN [claim EXCEPT ![op[r]] = "null"] ELSE claim
  /\ Finish(r)
  /\ UNCHANGED <<opStatus, opResult, saleVars, shopVars, faultVars>>

-----------------------------------------------------------------------------
(* The claim winner: createSale, then the result *)

\* createSale's own check of the device.
BeginEngine(r) ==
  /\ pc[r] = "engine"
  /\ \/ device = "ACTIVE" /\ Read(r, "order")
     \/ device # "ACTIVE" /\ EngineThrows(r)

\* Fault: the decrement has lost its quantityOnHand >= n.
AnyStock(n) == stock >= 0
HasUnits(n) == stock >= n

\* T1.  'Insufficient stock' becomes a rejection.
CreateOrder(r) ==
  /\ pc[r] = "order"
  /\ \/ /\ HasUnits(Demand[op[r]])
        /\ stock' = stock - Demand[op[r]]
        /\ \E s \in Sales :
             /\ saleStatus[s] = "none"
             /\ saleStatus' = [saleStatus EXCEPT ![s] = "PENDING"]
             /\ saleOp' = [saleOp EXCEPT ![s] = op[r]]
             /\ sale' = [sale EXCEPT ![r] = s]
        /\ Goto(r, "pay")
        /\ UNCHANGED <<op, recorded, opVars, price, device, faultVars>>
     \/ ~HasUnits(Demand[op[r]]) /\ Read(r, "soldout")

\* Fault: the sale is recorded without the capture.
Uncaptured == "record"
AfterPayment == "capture"

\* T5 finds the order PENDING, or throws.
CreatePayment(r) ==
  /\ pc[r] = "pay"
  /\ \/ saleStatus[sale[r]] = "PENDING" /\ Read(r, AfterPayment)
     \/ saleStatus[sale[r]] # "PENDING" /\ EngineThrows(r)

\* T2: the order's guarded PENDING -> PAID, or everything rolls back.
CapturePayment(r) ==
  /\ pc[r] = "capture"
  /\ \/ /\ saleStatus[sale[r]] = "PENDING"
        /\ saleStatus' = [saleStatus EXCEPT ![sale[r]] = "PAID"]
        /\ Goto(r, "record")
        /\ UNCHANGED <<op, sale, saleOp, recorded, opVars, shopVars, faultVars>>
     \/ saleStatus[sale[r]] # "PENDING" /\ EngineThrows(r)

RecordSale(r) ==
  /\ pc[r] = "record"
  /\ recorded' = recorded \cup {sale[r]}
  /\ Goto(r, "finalize")
  /\ UNCHANGED <<op, sale, saleOp, saleStatus, opVars, shopVars, faultVars>>

\* The guarded PENDING -> ACCEPTED; no row updated answers what is there.
Finalize(r) ==
  /\ pc[r] = "finalize"
  /\ \/ /\ opStatus[op[r]] = "PENDING"
        /\ opStatus' = [opStatus EXCEPT ![op[r]] = "ACCEPTED"]
        /\ opResult' = [opResult EXCEPT ![op[r]] = sale[r]]
        /\ Finish(r)
        /\ UNCHANGED <<claim, saleVars, shopVars, faultVars>>
     \/ opStatus[op[r]] # "PENDING" /\ Answer(r)

-----------------------------------------------------------------------------
(* What goes on around the sync requests *)

\* recordOfflineSaleIntent; a repeated push finds the row and changes nothing.
RecordIntent(o) ==
  /\ opStatus[o] = "none"
  /\ opStatus' = [opStatus EXCEPT ![o] = "PENDING"]
  /\ UNCHANGED <<opResult, claim, saleVars, shopVars, syncVars, faultVars>>

Winner(r, o) == pc[r] \in Engine /\ op[r] = o

\* Five minutes pass.  Nothing in the code ends a winner that takes longer.
ClaimAges(o) ==
  /\ claim[o] = "recent"
  /\ opStatus[o] = "PENDING"
  /\ claim' = [claim EXCEPT ![o] = "old"]
  /\ disturbed' = IF \E r \in Syncers : Winner(r, o)
                    THEN disturbed \cup {o} ELSE disturbed
  /\ UNCHANGED <<opStatus, opResult, saleVars, shopVars, syncVars, crashes>>

\* The request dies with its process or its connection.
Crash(r) ==
  /\ pc[r] # "idle"
  /\ crashes < MaxCrashes
  /\ crashes' = crashes + 1
  /\ disturbed' = IF pc[r] \in Engine THEN disturbed \cup {op[r]} ELSE disturbed
  /\ Finish(r)
  /\ UNCHANGED <<opVars, saleVars, shopVars>>

\* cancelOrder on an order the engine has not had paid yet.  Without PosSale
\* row its units go to the tenant's global pool.
CancelOrder(s) ==
  /\ saleStatus[s] = "PENDING"
  /\ saleStatus' = [saleStatus EXCEPT ![s] = "CANCELLED"]
  /\ UNCHANGED <<saleOp, recorded, opVars, shopVars, syncVars, faultVars>>

\* An online sale takes a unit; a manager changes the price.
SellElsewhere ==
  /\ stock > 0
  /\ stock' = stock - 1
  /\ UNCHANGED <<price, device, opVars, saleVars, syncVars, faultVars>>

\* A manager puts a unit into the store's pool.  Bound: an order id for each.
Restock ==
  /\ stock + Cardinality({s \in Sales : saleStatus[s] # "none"}) < Cardinality(Sales)
  /\ stock' = stock + 1
  /\ UNCHANGED <<price, device, opVars, saleVars, syncVars, faultVars>>

SetPrice ==
  /\ price' \in Prices \ {price}
  /\ UNCHANGED <<stock, device, opVars, saleVars, syncVars, faultVars>>

\* PosDeviceService.transition: suspend, resume, retire.
DeviceTransition ==
  /\ \/ device = "ACTIVE" /\ device' = "SUSPENDED"
     \/ device = "SUSPENDED" /\ device' = "ACTIVE"
     \/ device \in {"ACTIVE", "SUSPENDED"} /\ device' = "RETIRED"
  /\ UNCHANGED <<stock, price, opVars, saleVars, syncVars, faultVars>>

Step(r) ==
  \/ Authority(r) \/ ValidatePrice(r) \/ ValidateStock(r) \/ PersistRejection(r)
  \/ Claim(r) \/ Await(r) \/ ClearClaim(r)
  \/ BeginEngine(r) \/ CreateOrder(r) \/ CreatePayment(r) \/ CapturePayment(r)
  \/ RecordSale(r) \/ Finalize(r)

Environment ==
  \/ \E o \in Ops : RecordIntent(o) \/ ClaimAges(o)
  \/ \E s \in Sales : CancelOrder(s)
  \/ SellElsewhere \/ Restock \/ SetPrice \/ DeviceTransition

Next ==
  \/ \E r \in Syncers : Step(r) \/ Crash(r) \/ \E o \in Ops : BeginSync(r, o)
  \/ Environment

\* Handlers keep running, time passes, and the device pushes an intent again
\* until it has an answer ("at-least-once delivery").
Fairness ==
  /\ \A r \in Syncers : WF_vars(Step(r))
  /\ \A o \in Ops : WF_vars(ClaimAges(o))
  /\ \A o \in Ops : SF_vars(\E r \in Syncers : BeginSync(r, o))

Spec == Init /\ [][Next]_vars
FairSpec == Spec /\ Fairness

-----------------------------------------------------------------------------
(* Properties *)

Live(s, o) == saleOp[s] = o /\ saleStatus[s] \in {"PENDING", "PAID"}

\* A result, once persisted, is the answer to every later sync: neither a
\* late rejection nor a late winner of a taken-over claim replaces it.
ResultIsFinal ==
  [][\A o \in Ops : opStatus[o] \in {"ACCEPTED", "REJECTED"} =>
       opStatus'[o] = opStatus[o] /\ opResult'[o] = opResult[o]]_vars

\* The order an ACCEPTED intent points at was created for that intent, is
\* PAID and has its provenance row, however the engine runs interleaved with
\* cancellations, crashes and other runs for the same intent.
AcceptedIsPaid ==
  \A o \in Ops : opStatus[o] = "ACCEPTED" =>
    /\ opResult[o] \in recorded
    /\ saleOp[opResult[o]] = o
    /\ saleStatus[opResult[o]] = "PAID"

\* As long as no winner has died, thrown or outstayed the five minutes with the
\* claim in hand, the claim alone keeps an intent from being sold twice.
ClaimSellsOnce ==
  \A o \in Ops \ disturbed : \A s, t \in Sales :
    Live(s, o) /\ Live(t, o) => s = t

\* An intent the device keeps pushing gets a result, unless its device stops
\* being ACTIVE: no crash or engine failure leaves a claim that blocks it.
RetriesSettle ==
  \A o \in Ops :
    opStatus[o] = "PENDING" ~> (opStatus[o] # "PENDING" \/ device # "ACTIVE")

\* The class comment, for every intent: "exactly-once execution", stale claims
\* included ("the sale engine is itself atomic, so no partial sale can exist --
\* the claim is simply re-taken").
SoldOnce ==
  \A o \in Ops : \A s, t \in Sales :
    /\ saleOp[s] = o /\ saleStatus[s] = "PAID"
    /\ saleOp[t] = o /\ saleStatus[t] = "PAID"
    => s = t

\* The comment at the final update: that it finds the intent settled "should
\* be impossible for the claim winner".
WinnerFinalizes ==
  \A r \in Syncers : pc[r] = "finalize" => opStatus[op[r]] = "PENDING"
=============================================================================

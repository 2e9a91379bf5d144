---------------------------- MODULE PosSyncProof ----------------------------
(***************************************************************************)
(* Theorems about PosSync: a persisted result is final, an ACCEPTED one is *)
(* true, and the claim keeps an intent from being sold twice until a winner *)
(* of it fails; for any number of requests, intents, orders and crashes.   *)
(***************************************************************************)
EXTENDS PosSync, TLAPS

-----------------------------------------------------------------------------
(* Type correctness *)

\* A request at work has an intent; a claim winner that has created an order
\* has one that is its intent's.
Selling == {"pay", "capture", "record", "finalize"}
Working ==
  \A r \in Syncers :
    /\ pc[r] # "idle" => op[r] \in Ops
    /\ pc[r] \in Selling => sale[r] \in Sales

Typed == TypeOK /\ Working

LEMMA InitTyped == Init => Typed
  BY IntentAssumption, SupplyAssumption, CrashAssumption
  DEF Init, Typed, TypeOK, Working, Labels, Engine, Selling

LEMMA FinishTyped ==
  ASSUME Typed, NEW r \in Syncers, Finish(r)
  PROVE  /\ pc' \in [Syncers -> Labels]
         /\ op' \in [Syncers -> Ops \cup {NoOp}]
         /\ sale' \in [Syncers -> Sales \cup {NoSale}]
         /\ Working'
  BY DEF Typed, TypeOK, Working, Finish, Goto, Labels, Engine, Selling

LEMMA ReadTyped ==
  ASSUME Typed, NEW r \in Syncers, NEW label \in Labels, pc[r] # "idle",
         label \in Selling => pc[r] \in Selling, Read(r, label)
  PROVE  Typed'
  BY DEF Typed, TypeOK, Working, Read, Goto, opVars, saleVars, shopVars, faultVars

LEMMA AnswerTyped ==
  ASSUME Typed, NEW r \in Syncers, Answer(r)
  PROVE  Typed'
  BY FinishTyped DEF Answer, Typed, TypeOK, opVars, saleVars, shopVars, faultVars

LEMMA ThrowTyped ==
  ASSUME Typed, NEW r \in Syncers, pc[r] # "idle", EngineThrows(r)
  PROVE  Typed'
  <1>1. op[r] \in Ops
    BY DEF Typed, Working
  <1> QED
    BY <1>1, FinishTyped DEF EngineThrows, Typed, TypeOK, opVars, saleVars, shopVars

\* A request that decides, then claims or waits.
LEMMA SyncTyped ==
  ASSUME Typed, NEW r \in Syncers,
         \/ Authority(r) \/ ValidatePrice(r) \/ ValidateStock(r)
         \/ PersistRejection(r) \/ Claim(r) \/ Await(r) \/ ClearClaim(r)
  PROVE  Typed'
  <1> USE DEF Labels, Engine, Selling
  <1>1. CASE Authority(r)
    BY <1>1, ReadTyped, AnswerTyped DEF Authority
  <1>2. CASE ValidatePrice(r) \/ ValidateStock(r)
    BY <1>2, ReadTyped DEF ValidatePrice, ValidateStock
  <1>3. CASE PersistRejection(r)
    BY <1>3, FinishTyped
    DEF PersistRejection, Typed, TypeOK, saleVars, shopVars, faultVars
  <1>4. CASE Claim(r)
    <2>1. CASE Claimable(op[r])
      BY <1>4, <2>1
      DEF Claim, Goto, Typed, TypeOK, Working, saleVars, shopVars, faultVars, Read
    <2> QED
      BY <1>4, <2>1, ReadTyped DEF Claim
  <1>5. CASE Await(r)
    BY <1>5, ReadTyped, AnswerTyped DEF Await
  <1>6. CASE ClearClaim(r)
    BY <1>6, FinishTyped DEF ClearClaim, Typed, TypeOK, saleVars, shopVars, faultVars
  <1> QED
    BY <1>1, <1>2, <1>3, <1>4, <1>5, <1>6

\* The claim winner.
LEMMA EngineTyped ==
  ASSUME Typed, NEW r \in Syncers,
         \/ BeginEngine(r) \/ CreateOrder(r) \/ CreatePayment(r)
         \/ CapturePayment(r) \/ RecordSale(r) \/ Finalize(r)
  PROVE  Typed'
  <1> USE DEF Labels, Engine, Selling
  <1>1. CASE BeginEngine(r)
    BY <1>1, ReadTyped, ThrowTyped DEF BeginEngine
  <1>2. CASE CreateOrder(r)
    <2>1. CASE HasUnits(Demand[op[r]]) /\ pc' = [pc EXCEPT ![r] = "pay"]
      <3>1. op[r] \in Ops /\ Demand[op[r]] \in Nat
        BY <1>2, IntentAssumption DEF CreateOrder, Typed, Working
      <3>2. stock' \in Nat
        BY <1>2, <2>1, <3>1 DEF CreateOrder, HasUnits, Typed, TypeOK, Read, shopVars
      <3> QED
        BY <1>2, <2>1, <3>1, <3>2
        DEF CreateOrder, Goto, Typed, TypeOK, Working, Read, opVars, faultVars
    <2> QED
      BY <1>2, <2>1, ReadTyped DEF CreateOrder, Goto
  <1>3. CASE CreatePayment(r)
    BY <1>3, ReadTyped, ThrowTyped DEF CreatePayment, AfterPayment
  <1>4. CASE CapturePayment(r)
    <2>1. CASE saleStatus[sale[r]] = "PENDING"
      BY <1>4, <2>1 DEF CapturePayment, EngineThrows, Goto, Typed, TypeOK, Working,
        opVars, shopVars, faultVars
    <2> QED
      BY <1>4, <2>1, ThrowTyped DEF CapturePayment
  <1>5. CASE RecordSale(r)
    BY <1>5 DEF RecordSale, Goto, Typed, TypeOK, Working, opVars, shopVars, faultVars
  <1>6. CASE Finalize(r)
    <2>1. CASE opStatus[op[r]] = "PENDING"
      BY <1>6, <2>1, FinishTyped
      DEF Finalize, Answer, Typed, TypeOK, Working, saleVars, shopVars, faultVars
    <2> QED
      BY <1>6, <2>1, AnswerTyped DEF Finalize
  <1> QED
    BY <1>1, <1>2, <1>3, <1>4, <1>5, <1>6

LEMMA CrashTyped ==
  ASSUME Typed, NEW r \in Syncers, Crash(r)
  PROVE  Typed'
  <1>1. op[r] \in Ops
    BY DEF Crash, Typed, Working
  <1>2. crashes' \in 0..MaxCrashes
    BY CrashAssumption DEF Crash, Typed, TypeOK
  <1> QED
    BY <1>1, <1>2, FinishTyped DEF Crash, Typed, TypeOK, opVars, saleVars, shopVars

LEMMA EnvironmentTyped ==
  ASSUME Typed, Environment
  PROVE  Typed'
  <1> USE DEF Typed, TypeOK, Working, opVars, saleVars, shopVars, syncVars, faultVars
  <1>1. CASE \E o \in Ops : RecordIntent(o) \/ ClaimAges(o)
    BY <1>1 DEF RecordIntent, ClaimAges
  <1>2. CASE \E s \in Sales : CancelOrder(s)
    BY <1>2 DEF CancelOrder
  <1>3. CASE SellElsewhere \/ Restock \/ SetPrice \/ DeviceTransition
    BY <1>3 DEF SellElsewhere, Restock, SetPrice, DeviceTransition
  <1> QED
    BY <1>1, <1>2, <1>3 DEF Environment

LEMMA NextTyped == Typed /\ [Next]_vars => Typed'
  <1> SUFFICES ASSUME Typed, [Next]_vars PROVE Typed'
    OBVIOUS
  <1>1. CASE UNCHANGED vars
    BY <1>1 DEF vars, opVars, saleVars, shopVars, syncVars, faultVars,
      Typed, TypeOK, Working
  <1>2. ASSUME NEW r \in Syncers, NEW o \in Ops, BeginSync(r, o) PROVE Typed'
    BY <1>2 DEF BeginSync, Goto, Typed, TypeOK, Working, Labels, Engine, Selling,
      opVars, saleVars, shopVars, faultVars
  <1> QED
    BY <1>1, <1>2, SyncTyped, EngineTyped, CrashTyped, EnvironmentTyped DEF Next, Step

\* Every reachable state is type-correct.
THEOREM TypeCorrect == Spec => []TypeOK
  <1>1. Typed => TypeOK
    BY DEF Typed
  <1> QED
    BY <1>1, InitTyped, NextTyped, PTL DEF Spec

LEMMA AlwaysTyped == Spec => []Typed
  BY InitTyped, NextTyped, PTL DEF Spec

-----------------------------------------------------------------------------
(* Results are final *)

\* The only writers of a result are the rejection and the final update, and
\* both ask for the intent to be PENDING.
LEMMA ResultStep ==
  ASSUME Typed, Next, NEW o \in Ops, opStatus[o] \in {"ACCEPTED", "REJECTED"}
  PROVE  opStatus'[o] = opStatus[o] /\ opResult'[o] = opResult[o]
  <1> USE DEF opVars
  <1>1. ASSUME NEW r \in Syncers, PersistRejection(r) PROVE opStatus'[o] = opStatus[o]
    BY <1>1 DEF PersistRejection, Open, Typed, TypeOK
  <1>2. ASSUME NEW r \in Syncers, Finalize(r)
        PROVE  opStatus'[o] = opStatus[o] /\ opResult'[o] = opResult[o]
    BY <1>2 DEF Finalize, Answer, Typed, TypeOK
  <1>3. ASSUME NEW r \in Syncers, Step(r), ~PersistRejection(r), ~Finalize(r)
        PROVE  UNCHANGED <<opStatus, opResult>>
    BY <1>3 DEF Step, Authority, ValidatePrice, ValidateStock, Claim, Await,
      ClearClaim, BeginEngine, CreateOrder, CreatePayment, CapturePayment,
      RecordSale, Read, Answer, EngineThrows
  <1>4. ASSUME NEW q \in Ops, RecordIntent(q) PROVE opStatus'[o] = opStatus[o]
    BY <1>4 DEF RecordIntent, Typed, TypeOK
  <1>5. ASSUME Next, ~\E r \in Syncers : Step(r) PROVE UNCHANGED opResult
    BY <1>5 DEF Next, Crash, BeginSync, Environment, RecordIntent, ClaimAges,
      CancelOrder, SellElsewhere, Restock, SetPrice, DeviceTransition
  <1>6. ASSUME ~\E r \in Syncers : Step(r), ~\E q \in Ops : RecordIntent(q)
        PROVE  UNCHANGED opStatus
    BY <1>6 DEF Next, Crash, BeginSync, Environment, ClaimAges,
      CancelOrder, SellElsewhere, Restock, SetPrice, DeviceTransition
  <1>7. ASSUME NEW r \in Syncers, PersistRejection(r) PROVE UNCHANGED opResult
    BY <1>7 DEF PersistRejection
  <1> QED
    BY <1>1, <1>2, <1>3, <1>4, <1>5, <1>6, <1>7

\* A result, once persisted, is never replaced: not by a late rejection, not
\* by a winner whose claim was taken away.
THEOREM ResultsStay == Spec => ResultIsFinal
  <1>1. Typed /\ [Next]_vars =>
          [\A o \in Ops : opStatus[o] \in {"ACCEPTED", "REJECTED"} =>
             opStatus'[o] = opStatus[o] /\ opResult'[o] = opResult[o]]_vars
    BY ResultStep
  <1> QED
    BY <1>1, AlwaysTyped, PTL DEF Spec, ResultIsFinal

-----------------------------------------------------------------------------
(* An ACCEPTED result is true *)

\* What a claim winner holds is an order of its intent; past the capture it is
\* PAID and stays so, past RecordSale it has its provenance row.
SaleInv ==
  \A r \in Syncers :
    /\ pc[r] \in Selling =>
         saleOp[sale[r]] = op[r] /\ saleStatus[sale[r]] # "none"
    /\ pc[r] \in {"record", "finalize"} => saleStatus[sale[r]] = "PAID"
    /\ pc[r] = "finalize" => sale[r] \in recorded

Truthful == SaleInv /\ AcceptedIsPaid

\* Orders only move on: no step forgets one, changes its intent, takes back a
\* payment or a provenance row.
OrdersMoveOn ==
  /\ \A s \in Sales : saleStatus[s] # "none" =>
       saleOp'[s] = saleOp[s] /\ saleStatus'[s] # "none"
  /\ \A s \in Sales : saleStatus[s] = "PAID" => saleStatus'[s] = "PAID"
  /\ recorded \subseteq recorded'

LEMMA OrdersKept ==
  ASSUME Typed, Next
  PROVE  OrdersMoveOn
  <1> USE DEF OrdersMoveOn, saleVars
  <1>1. ASSUME NEW r \in Syncers, CreateOrder(r) PROVE OrdersMoveOn
    <2>1. CASE Read(r, "soldout")
      BY <2>1 DEF Read
    <2>2. CASE ~Read(r, "soldout")
      <3>1. PICK s \in Sales :
              /\ saleStatus[s] = "none"
              /\ saleStatus' = [saleStatus EXCEPT ![s] = "PENDING"]
              /\ saleOp' = [saleOp EXCEPT ![s] = op[r]]
        BY <1>1, <2>2 DEF CreateOrder
      <3> QED
        BY <1>1, <2>2, <3>1 DEF CreateOrder, Typed, TypeOK
    <2> QED
      BY <2>1, <2>2
  <1>2. ASSUME NEW r \in Syncers, CapturePayment(r) PROVE OrdersMoveOn
    BY <1>2 DEF CapturePayment, EngineThrows, Typed, TypeOK, Working, Selling
  <1>3. ASSUME NEW r \in Syncers, RecordSale(r) PROVE OrdersMoveOn
    BY <1>3 DEF RecordSale
  <1>4. ASSUME NEW r \in Syncers, Step(r), ~CreateOrder(r), ~CapturePayment(r),
               ~RecordSale(r)
        PROVE  UNCHANGED saleVars
    BY <1>4 DEF Step, Authority, ValidatePrice, ValidateStock, PersistRejection,
      Claim, Await, ClearClaim, BeginEngine, CreatePayment, Finalize, Read, Answer,
      EngineThrows
  <1>5. ASSUME NEW s \in Sales, CancelOrder(s) PROVE OrdersMoveOn
    BY <1>5 DEF CancelOrder, Typed, TypeOK
  <1>6. ASSUME ~\E r \in Syncers : Step(r), ~\E s \in Sales : CancelOrder(s)
        PROVE  UNCHANGED saleVars
    BY <1>6 DEF Next, Crash, BeginSync, Environment, RecordIntent, ClaimAges,
      SellElsewhere, Restock, SetPrice, DeviceTransition
  <1> QED
    BY <1>1, <1>2, <1>3, <1>4, <1>5, <1>6

\* A request that does not get further in the engine keeps SaleInv: it stands
\* outside the engine, or nothing of it has changed.
LEMMA SaleKept ==
  ASSUME Typed, Truthful, OrdersMoveOn, NEW r \in Syncers,
         \/ pc'[r] \notin Selling
         \/ pc'[r] = pc[r] /\ op'[r] = op[r] /\ sale'[r] = sale[r]
  PROVE  /\ pc'[r] \in Selling =>
              saleOp'[sale'[r]] = op'[r] /\ saleStatus'[sale'[r]] # "none"
         /\ pc'[r] \in {"record", "finalize"} => saleStatus'[sale'[r]] = "PAID"
         /\ pc'[r] = "finalize" => sale'[r] \in recorded'
  <1>1. CASE pc'[r] \notin Selling
    BY <1>1 DEF Selling
  <1>2. CASE pc'[r] \in Selling
    <2>1. /\ pc'[r] = pc[r] /\ op'[r] = op[r] /\ sale'[r] = sale[r]
          /\ sale[r] \in Sales
      BY <1>2 DEF Typed, Working
    <2> QED
      BY <1>2, <2>1 DEF Truthful, SaleInv, OrdersMoveOn, Selling
  <1> QED
    BY <1>1, <1>2

\* A step of one request leaves where the others stand alone.
LEMMA OnlyOwn ==
  ASSUME Typed, NEW r \in Syncers, NEW q \in Syncers \ {r},
         Step(r) \/ Crash(r) \/ \E o \in Ops : BeginSync(r, o)
  PROVE  pc'[q] = pc[q] /\ op'[q] = op[q] /\ sale'[q] = sale[q]
  <1> USE DEF Typed, TypeOK, Read, Answer, EngineThrows, Finish, Goto
  <1>1. CASE Crash(r) \/ \E o \in Ops : BeginSync(r, o)
    BY <1>1 DEF Crash, BeginSync
  <1>2. CASE Authority(r) \/ ValidatePrice(r) \/ ValidateStock(r) \/ PersistRejection(r)
    BY <1>2 DEF Authority, ValidatePrice, ValidateStock, PersistRejection
  <1>3. CASE Claim(r) \/ Await(r) \/ ClearClaim(r) \/ BeginEngine(r)
    BY <1>3 DEF Claim, Await, ClearClaim, BeginEngine
  <1>4. CASE CreateOrder(r)
    BY <1>4 DEF CreateOrder
  <1>5. CASE CreatePayment(r) \/ CapturePayment(r)
    BY <1>5 DEF CreatePayment, CapturePayment
  <1>6. CASE RecordSale(r) \/ Finalize(r)
    BY <1>6 DEF RecordSale, Finalize
  <1> QED
    BY <1>1, <1>2, <1>3, <1>4, <1>5, <1>6 DEF Step

\* Each stage of the engine hands its order to the next.
LEMMA WinnerStep ==
  ASSUME Typed, Truthful, OrdersMoveOn, NEW r \in Syncers,
         Step(r) \/ Crash(r) \/ \E o \in Ops : BeginSync(r, o)
  PROVE  /\ pc'[r] \in Selling =>
              saleOp'[sale'[r]] = op'[r] /\ saleStatus'[sale'[r]] # "none"
         /\ pc'[r] \in {"record", "finalize"} => saleStatus'[sale'[r]] = "PAID"
         /\ pc'[r] = "finalize" => sale'[r] \in recorded'
  <1> USE DEF Typed, TypeOK
  <1>0. (pc[r] \in Selling => sale[r] \in Sales) /\ (pc[r] # "idle" => op[r] \in Ops)
    BY DEF Working
  <1>1. ASSUME Finish(r) PROVE pc'[r] \notin Selling
    BY <1>1 DEF Finish, Goto, Selling
  <1>2. CASE Crash(r) \/ \E o \in Ops : BeginSync(r, o)
    <2>1. pc'[r] \notin Selling
      BY <1>1, <1>2 DEF Crash, BeginSync, Goto, Selling
    <2> QED
      BY <2>1, SaleKept
  <1>3. CASE Authority(r) \/ ValidatePrice(r) \/ ValidateStock(r) \/ PersistRejection(r)
             \/ Claim(r) \/ Await(r) \/ ClearClaim(r) \/ BeginEngine(r) \/ Finalize(r)
    <2>1. pc'[r] \notin Selling
      BY <1>1, <1>3 DEF Authority, ValidatePrice, ValidateStock, PersistRejection,
        Claim, Await, ClearClaim, BeginEngine, Finalize, Read, Answer, EngineThrows,
        Goto, Selling
    <2> QED
      BY <2>1, SaleKept
  <1>4. CASE CreateOrder(r)
    <2>1. CASE Read(r, "soldout")
      <3>1. pc'[r] \notin Selling
        BY <2>1 DEF Read, Goto, Selling
      <3> QED
        BY <3>1, SaleKept
    <2>2. CASE ~Read(r, "soldout")
      <3>1. PICK s \in Sales :
              /\ saleStatus' = [saleStatus EXCEPT ![s] = "PENDING"]
              /\ saleOp' = [saleOp EXCEPT ![s] = op[r]]
              /\ sale' = [sale EXCEPT ![r] = s]
        BY <1>4, <2>2 DEF CreateOrder
      <3>2. pc'[r] = "pay" /\ op'[r] = op[r]
        BY <1>4, <2>2 DEF CreateOrder, Goto
      <3> QED
        BY <3>1, <3>2
    <2> QED
      BY <2>1, <2>2
  <1>5. CASE CreatePayment(r)
    <2>1. CASE EngineThrows(r)
      BY <1>1, <2>1, SaleKept DEF EngineThrows
    <2>2. CASE Read(r, AfterPayment)
      <3>1. /\ pc[r] = "pay" /\ pc'[r] = "capture" /\ op'[r] = op[r]
            /\ sale'[r] = sale[r] /\ saleOp' = saleOp /\ saleStatus' = saleStatus
        BY <1>5, <2>2 DEF CreatePayment, Read, Goto, AfterPayment, saleVars
      <3> QED
        BY <3>1 DEF Truthful, SaleInv, Selling
    <2> QED
      BY <1>5, <2>1, <2>2 DEF CreatePayment
  <1>6. CASE CapturePayment(r)
    <2>1. CASE EngineThrows(r)
      BY <1>1, <2>1, SaleKept DEF EngineThrows
    <2>2. CASE ~EngineThrows(r)
      <3>1. /\ pc[r] = "capture" /\ pc'[r] = "record" /\ op'[r] = op[r]
            /\ sale'[r] = sale[r] /\ saleOp' = saleOp
            /\ saleStatus' = [saleStatus EXCEPT ![sale[r]] = "PAID"]
        BY <1>6, <2>2 DEF CapturePayment, Goto
      <3> QED
        BY <1>0, <3>1 DEF Truthful, SaleInv, Selling
    <2> QED
      BY <2>1, <2>2
  <1>7. CASE RecordSale(r)
    <2>1. /\ pc[r] = "record" /\ pc'[r] = "finalize" /\ op'[r] = op[r]
          /\ sale'[r] = sale[r] /\ saleOp' = saleOp /\ saleStatus' = saleStatus
          /\ recorded' = recorded \cup {sale[r]}
      BY <1>7 DEF RecordSale, Goto
    <2> QED
      BY <2>1 DEF Truthful, SaleInv, Selling
  <1> QED
    BY <1>2, <1>3, <1>4, <1>5, <1>6, <1>7 DEF Step

\* Only the final update accepts, and it points at the winner's order.
LEMMA AcceptStep ==
  ASSUME Typed, Truthful, OrdersMoveOn, Next, NEW o \in Ops, opStatus'[o] = "ACCEPTED"
  PROVE  /\ opResult'[o] \in recorded'
         /\ saleOp'[opResult'[o]] = o
         /\ saleStatus'[opResult'[o]] = "PAID"
  <1>1. CASE opStatus[o] = "ACCEPTED"
    <2>1. opResult'[o] = opResult[o]
      BY <1>1, ResultStep
    <2>2. /\ opResult[o] \in recorded /\ saleOp[opResult[o]] = o
          /\ saleStatus[opResult[o]] = "PAID" /\ opResult[o] \in Sales
      BY <1>1 DEF Truthful, AcceptedIsPaid, Typed, TypeOK
    <2> QED
      BY <2>1, <2>2 DEF OrdersMoveOn
  <1>2. CASE opStatus[o] # "ACCEPTED"
    <2>1. PICK r \in Syncers : Finalize(r) /\ op[r] = o
      <3>1. ASSUME NEW r \in Syncers, Finalize(r) PROVE op[r] = o
        BY <1>2, <3>1 DEF Finalize, Answer, opVars, Typed, TypeOK
      <3>2. ASSUME NEW r \in Syncers, PersistRejection(r) PROVE FALSE
        BY <1>2, <3>2 DEF PersistRejection, Typed, TypeOK
      <3>3. ASSUME NEW q \in Ops, RecordIntent(q) PROVE FALSE
        BY <1>2, <3>3 DEF RecordIntent, Typed, TypeOK
      <3>4. ASSUME NEW r \in Syncers, Step(r), ~PersistRejection(r), ~Finalize(r)
            PROVE  opStatus' = opStatus
        BY <3>4 DEF Step, Authority, ValidatePrice, ValidateStock, Claim, Await,
          ClearClaim, BeginEngine, CreateOrder, CreatePayment, CapturePayment,
          RecordSale, Read, Answer, EngineThrows, opVars
      <3>5. ASSUME ~\E r \in Syncers : Step(r), ~\E q \in Ops : RecordIntent(q)
            PROVE  opStatus' = opStatus
        BY <3>5 DEF Next, Crash, BeginSync, Environment, ClaimAges, CancelOrder,
          SellElsewhere, Restock, SetPrice, DeviceTransition, opVars
      <3> QED
        BY <1>2, <3>1, <3>2, <3>3, <3>4, <3>5
    <2>2. /\ opResult'[o] = sale[r] /\ saleOp' = saleOp /\ saleStatus' = saleStatus
          /\ recorded' = recorded /\ pc[r] = "finalize"
      BY <1>2, <2>1 DEF Finalize, Answer, opVars, saleVars, Typed, TypeOK
    <2> QED
      BY <2>1, <2>2 DEF Truthful, SaleInv, Selling
  <1> QED
    BY <1>1, <1>2

LEMMA TruthfulStep == Typed /\ Truthful /\ [Next]_vars => Truthful'
  <1> SUFFICES ASSUME Typed, Truthful, [Next]_vars PROVE Truthful'
    OBVIOUS
  <1>1. CASE UNCHANGED vars
    BY <1>1 DEF vars, opVars, saleVars, shopVars, syncVars, faultVars, Truthful,
      SaleInv, AcceptedIsPaid
  <1>2. CASE Next
    <2>1. OrdersMoveOn
      BY <1>2, OrdersKept
    <2>2. AcceptedIsPaid'
      BY <1>2, <2>1, AcceptStep DEF AcceptedIsPaid
    <2>3. CASE \E r \in Syncers : Step(r) \/ Crash(r) \/ \E o \in Ops : BeginSync(r, o)
      <3>1. PICK r \in Syncers : Step(r) \/ Crash(r) \/ \E o \in Ops : BeginSync(r, o)
        BY <2>3
      <3>2. \A q \in Syncers \ {r} :
              pc'[q] = pc[q] /\ op'[q] = op[q] /\ sale'[q] = sale[q]
        BY <3>1, OnlyOwn
      <3>3. SaleInv'
        BY <2>1, <3>1, <3>2, SaleKept, WinnerStep DEF SaleInv
      <3> QED
        BY <2>2, <3>3 DEF Truthful
    <2>4. CASE Environment
      <3>1. UNCHANGED syncVars
        BY <2>4 DEF Environment, RecordIntent, ClaimAges, CancelOrder, SellElsewhere,
          Restock, SetPrice, DeviceTransition
      <3>2. SaleInv'
        BY <2>1, <3>1, SaleKept DEF SaleInv, syncVars
      <3> QED
        BY <2>2, <3>2 DEF Truthful
    <2> QED
      BY <1>2, <2>3, <2>4 DEF Next
  <1> QED
    BY <1>1, <1>2

\* The order an ACCEPTED intent points at is PAID, recorded, and was created
\* for that intent: however claims, crashes and cancellations interleave.
THEOREM AcceptedTrue == Spec => []AcceptedIsPaid
  <1>1. Init => Truthful
    BY DEF Init, Truthful, SaleInv, AcceptedIsPaid, Selling
  <1>2. Truthful => AcceptedIsPaid
    BY DEF Truthful
  <1> QED
    BY <1>1, <1>2, TruthfulStep, AlwaysTyped, PTL DEF Spec
-----------------------------------------------------------------------------
(* The claim alone keeps an undisturbed intent from being sold twice *)

\* What the claim of an intent that no winner has left behind still says.
Unsold(o) == \A s \in Sales : ~Live(s, o)
Idle(o) == \A r \in Syncers : ~Winner(r, o)
ClaimOK(o) ==
  \* Nobody sells before the claim, and a claim without a winner has a result.
  /\ opStatus[o] = "none" => claim[o] = "null"
  /\ opStatus[o] \in {"none", "PENDING"} /\ claim[o] = "null" => Idle(o) /\ Unsold(o)
  /\ opStatus[o] = "PENDING" /\ claim[o] # "null" =>
       claim[o] = "recent" /\ \E r \in Syncers : Winner(r, o)
  \* So no waiter has found it stale.
  /\ \A r \in Syncers : pc[r] = "clear" /\ op[r] = o => opStatus[o] \notin {"none", "PENDING"}
  \* One winner, whose order is the only one.
  /\ \A q, r \in Syncers : Winner(q, o) /\ Winner(r, o) => q = r
  /\ \A r \in Syncers : Winner(r, o) =>
       /\ pc[r] \in {"engine", "order", "soldout"} => Unsold(o)
       /\ pc[r] \in {"pay", "capture", "record", "finalize"} =>
            \A s \in Sales : Live(s, o) => s = sale[r]
  /\ \A s, t \in Sales : Live(s, o) /\ Live(t, o) => s = t
SoleInv == \A o \in Ops \ disturbed : ClaimOK(o)

LEMMA InitSole == Init => SoleInv
  BY DEF Init, SoleInv, ClaimOK, Unsold, Idle, Live, Winner, Engine

\* A step that is nothing to the winners of an intent and creates no order for it.
LEMMA Bystander ==
  ASSUME NEW o \in Ops, ClaimOK(o), opStatus'[o] = opStatus[o], claim'[o] = claim[o],
         \A s \in Sales : Live(s, o)' => Live(s, o),
         \A q \in Syncers :
           /\ Winner(q, o)' <=> Winner(q, o)
           /\ Winner(q, o) => pc'[q] = pc[q] /\ sale'[q] = sale[q]
           /\ pc'[q] = "clear" /\ op'[q] = o => opStatus[o] \notin {"none", "PENDING"}
  PROVE  ClaimOK(o)'
  BY DEF ClaimOK, Unsold, Idle

\* A winner that goes from one statement of the engine to the next.
LEMMA WinnerMoves ==
  ASSUME NEW o \in Ops, ClaimOK(o), NEW r \in Syncers, Winner(r, o), Winner(r, o)',
         opStatus'[o] = opStatus[o], claim'[o] = claim[o],
         \A q \in Syncers \ {r} : pc'[q] = pc[q] /\ op'[q] = op[q] /\ sale'[q] = sale[q],
         pc'[r] \in {"engine", "order", "soldout"} => Unsold(o)',
         pc'[r] \in Selling => \A s \in Sales : Live(s, o)' => s = sale'[r]
  PROVE  ClaimOK(o)'
  <1>1. \A q \in Syncers \ {r} : ~Winner(q, o)'
    BY DEF ClaimOK, Winner
  <1>2. \A q \in Syncers \ {r} : pc'[q] = "clear" /\ op'[q] = o
          => opStatus[o] \notin {"none", "PENDING"}
    BY DEF ClaimOK
  <1>3. pc'[r] # "clear" /\ pc'[r] \in Engine
    BY DEF Winner, Engine
  <1>4. \A s, t \in Sales : Live(s, o)' /\ Live(t, o)' => s = t
    BY <1>3 DEF Engine, Selling, Unsold
  <1>5. opStatus[o] = "none" => FALSE
    BY DEF ClaimOK, Idle
  <1>6. opStatus[o] = "PENDING" => claim[o] = "recent"
    BY DEF ClaimOK, Idle
  <1> QED
    BY <1>1, <1>2, <1>3, <1>4, <1>5, <1>6 DEF ClaimOK, Idle, Selling

\* Once the intent has its result, the claim no longer matters: a step may end
\* a winner or the wait of anyone.
LEMMA Settled ==
  ASSUME NEW o \in Ops, ClaimOK(o), opStatus'[o] \notin {"none", "PENDING"},
         \A s \in Sales : Live(s, o)' => Live(s, o),
         \A q \in Syncers :
           Winner(q, o)' => Winner(q, o) /\ pc'[q] = pc[q] /\ sale'[q] = sale[q]
  PROVE  ClaimOK(o)'
  BY DEF ClaimOK, Unsold, Idle

\* What happens to the other requests, and outside of the sync requests.
LEMMA OthersStay ==
  ASSUME Typed, NEW r \in Syncers, Step(r) \/ Crash(r) \/ \E o \in Ops : BeginSync(r, o)
  PROVE  /\ \A q \in Syncers \ {r} : pc'[q] = pc[q] /\ op'[q] = op[q] /\ sale'[q] = sale[q]
         /\ \A o \in Ops : \A q \in Syncers \ {r} : Winner(q, o)' <=> Winner(q, o)
         /\ pc[r] # "idle" => op[r] \in Ops
  BY OnlyOwn DEF Winner, Typed, Working

\* A request that has not won the claim and does not win it now.
LEMMA SeekerKeeps ==
  ASSUME Typed, NEW r \in Syncers, Step(r) \/ Crash(r) \/ \E p \in Ops : BeginSync(r, p),
         NEW o \in Ops, ClaimOK(o), ~Winner(r, o), ~Winner(r, o)',
         UNCHANGED <<opStatus, claim, saleOp, saleStatus>>,
         pc'[r] = "clear" /\ op'[r] = o => opStatus[o] \notin {"none", "PENDING"}
  PROVE  ClaimOK(o)'
  <1>1. \A s \in Sales : Live(s, o)' <=> Live(s, o)
    BY DEF Live
  <1>2. \A q \in Syncers \ {r} : pc'[q] = "clear" /\ op'[q] = o
          => opStatus[o] \notin {"none", "PENDING"}
    BY OthersStay DEF ClaimOK
  <1> QED
    BY <1>1, <1>2, OthersStay, Bystander

LEMMA SeekSole ==
  ASSUME Typed, NEW r \in Syncers,
         \/ Authority(r) \/ ValidatePrice(r) \/ ValidateStock(r) \/ Await(r)
         \/ \E p \in Ops : BeginSync(r, p),
         NEW o \in Ops, ClaimOK(o)
  PROVE  ClaimOK(o)'
  <1>1. /\ UNCHANGED <<opStatus, claim, saleOp, saleStatus>>
        /\ pc[r] \notin Engine /\ pc'[r] \notin Engine
    BY DEF Authority, ValidatePrice, ValidateStock, Await, BeginSync, Read, Answer, Finish,
      Goto, opVars, saleVars, Engine, Typed, TypeOK
  <1>2. pc'[r] = "clear" /\ op'[r] = o => opStatus[o] \notin {"none", "PENDING"}
    <2>1. SUFFICES ASSUME pc'[r] = "clear", op'[r] = o PROVE FALSE
      OBVIOUS
    <2>2. Expired(op[r]) /\ op[r] = o
      BY <2>1 DEF Authority, ValidatePrice, ValidateStock, Await, BeginSync, Read, Answer,
        Finish, Goto, Typed, TypeOK
    <2> QED
      BY <2>1, <2>2 DEF Expired, ClaimOK
  <1>3. Step(r) \/ Crash(r) \/ \E p \in Ops : BeginSync(r, p)
    BY DEF Step
  <1> QED
    BY <1>1, <1>2, <1>3, SeekerKeeps DEF Winner

LEMMA ClaimSole ==
  ASSUME Typed, NEW r \in Syncers, Claim(r), NEW o \in Ops, ClaimOK(o)
  PROVE  ClaimOK(o)'
  <1>1. Step(r)
    BY DEF Step
  <1>2. pc[r] = "claim" /\ op[r] \in Ops /\ op'[r] = op[r] /\ ~Winner(r, o)
    BY DEF Claim, Read, Typed, Working, Winner, Engine
  <1>3. CASE Claimable(op[r]) /\ op[r] = o
    <2>1. /\ claim'[o] = "recent" /\ pc'[r] = "engine" /\ opStatus'[o] = "PENDING"
          /\ opStatus[o] = "PENDING" /\ claim[o] = "null"
          /\ UNCHANGED <<saleOp, saleStatus>>
      BY <1>2, <1>3 DEF Claim, Claimable, Goto, Read, saleVars, Typed, TypeOK
    <2>2. Idle(o) /\ Unsold(o)
      BY <2>1 DEF ClaimOK
    <2>3. Unsold(o)' /\ \A q \in Syncers \ {r} : ~Winner(q, o)'
      BY <1>1, <2>1, <2>2, OthersStay DEF Unsold, Live, Idle
    <2>4. Winner(r, o)'
      BY <1>2, <1>3, <2>1 DEF Winner, Engine
    <2>5. \A q \in Syncers : ~(pc'[q] = "clear" /\ op'[q] = o)
      BY <1>1, <2>1, OthersStay DEF ClaimOK
    <2> QED
      BY <2>1, <2>3, <2>4, <2>5 DEF ClaimOK, Unsold
  <1>4. CASE Claimable(op[r]) /\ op[r] # o
    <2>1. claim'[o] = claim[o] /\ opStatus'[o] = opStatus[o] /\ UNCHANGED <<saleOp, saleStatus>>
      BY <1>2, <1>4 DEF Claim, Read, saleVars, opVars, Typed, TypeOK
    <2>2. ~Winner(r, o)' /\ ~(pc'[r] = "clear" /\ op'[r] = o)
      BY <1>2, <1>4 DEF Winner
    <2>3. \A q \in Syncers \ {r} : pc'[q] = "clear" /\ op'[q] = o
            => opStatus[o] \notin {"none", "PENDING"}
      BY <1>1, OthersStay DEF ClaimOK
    <2>4. \A s \in Sales : Live(s, o)' <=> Live(s, o)
      BY <2>1 DEF Live
    <2> QED
      BY <1>1, <1>2, <2>1, <2>2, <2>3, <2>4, OthersStay, Bystander
  <1>5. CASE ~Claimable(op[r])
    <2>1. UNCHANGED <<opStatus, claim, saleOp, saleStatus>> /\ pc'[r] = "await"
      BY <1>5 DEF Claim, Read, Goto, opVars, saleVars, Typed, TypeOK
    <2> QED
      BY <1>1, <1>2, <2>1, SeekerKeeps DEF Winner, Engine
  <1> QED
    BY <1>3, <1>4, <1>5

\* A rejection settles the intent, or finds it settled; so does the final update.
LEMMA ResultSole ==
  ASSUME Typed, NEW r \in Syncers, PersistRejection(r) \/ Finalize(r), NEW o \in Ops, ClaimOK(o)
  PROVE  ClaimOK(o)'
  <1>1. Step(r) /\ pc[r] # "idle" /\ pc'[r] = "idle" /\ UNCHANGED <<claim, saleOp, saleStatus>>
    BY DEF Step, PersistRejection, Finalize, Answer, Finish, Goto, saleVars, opVars, Typed, TypeOK
  <1>2. ~Winner(r, o)'
    BY <1>1 DEF Winner, Engine
  <1>3. \A s \in Sales : Live(s, o)' <=> Live(s, o)
    BY <1>1 DEF Live
  <1>4. CASE op[r] # o
    <2>1. opStatus'[o] = opStatus[o] /\ ~Winner(r, o)
      BY <1>4, <1>1, OthersStay
      DEF PersistRejection, Finalize, Answer, opVars, Typed, TypeOK, Winner
    <2>2. \A q \in Syncers : pc'[q] = "clear" /\ op'[q] = o
            => opStatus[o] \notin {"none", "PENDING"}
      BY <1>1, OthersStay DEF ClaimOK
    <2> QED
      BY <1>1, <1>2, <1>3, <2>1, <2>2, OthersStay, Bystander
  <1>5. CASE op[r] = o /\ opStatus[o] # "none"
    <2>1. opStatus'[o] \notin {"none", "PENDING"}
      BY <1>5 DEF PersistRejection, Open, Finalize, Answer, opVars, Typed, TypeOK
    <2> QED
      BY <1>1, <1>2, <1>3, <2>1, OthersStay, Settled
  <1>6. CASE op[r] = o /\ opStatus[o] = "none"
    <2>1. UNCHANGED <<opStatus, claim, saleOp, saleStatus>>
      BY <1>1, <1>6 DEF PersistRejection, Open, Finalize, Answer, opVars, Typed, TypeOK
    <2>2. ~Winner(r, o)
      BY <1>6 DEF ClaimOK, Idle
    <2> QED
      BY <1>1, <1>2, <2>1, <2>2, SeekerKeeps
  <1> QED
    BY <1>4, <1>5, <1>6

\* A waiter that clears a claim has waited for a disturbed intent or a settled one.
LEMMA ClearSole ==
  ASSUME Typed, NEW r \in Syncers, ClearClaim(r), NEW o \in Ops, ClaimOK(o)
  PROVE  ClaimOK(o)'
  <1>1. /\ Step(r) /\ pc[r] = "clear" /\ pc'[r] = "idle" /\ op[r] \in Ops
        /\ UNCHANGED <<opStatus, saleOp, saleStatus>>
    BY DEF Step, ClearClaim, Finish, Goto, saleVars, Typed, TypeOK, Working
  <1>2. claim'[o] = claim[o]
    BY <1>1 DEF ClearClaim, ClaimOK, Typed, TypeOK
  <1>3. ~Winner(r, o) /\ ~Winner(r, o)'
    BY <1>1 DEF Winner, Engine
  <1>4. \A q \in Syncers : pc'[q] = "clear" /\ op'[q] = o => opStatus[o] \notin {"none", "PENDING"}
    BY <1>1, OthersStay DEF ClaimOK
  <1>5. \A s \in Sales : Live(s, o)' <=> Live(s, o)
    BY <1>1 DEF Live
  <1> QED
    BY <1>1, <1>2, <1>3, <1>4, <1>5, OthersStay, Bystander

\* A winner that throws or dies leaves its intent disturbed.
LEMMA LeaveSole ==
  ASSUME Typed, NEW r \in Syncers, Crash(r) \/ (pc[r] # "idle" /\ EngineThrows(r)),
         Step(r) \/ Crash(r), NEW o \in Ops \ disturbed', ClaimOK(o)
  PROVE  ClaimOK(o)'
  <1>1. UNCHANGED <<opStatus, claim, saleOp, saleStatus>> /\ pc'[r] = "idle"
    BY DEF Crash, EngineThrows, Finish, Goto, opVars, saleVars, Typed, TypeOK
  <1>2. ~Winner(r, o) /\ ~Winner(r, o)'
    BY <1>1 DEF Crash, EngineThrows, Winner, Engine
  <1> QED
    BY <1>1, <1>2, SeekerKeeps

\* Another intent's winner, at work on an order that is not this intent's.
LEMMA AlienSole ==
  ASSUME Typed, NEW r \in Syncers, Step(r), NEW o \in Ops, ClaimOK(o),
         pc[r] \in Engine, op[r] # o, op'[r] = op[r], pc'[r] # "clear",
         UNCHANGED <<opStatus, claim>>, \A s \in Sales : Live(s, o)' => Live(s, o)
  PROVE  ClaimOK(o)'
  <1>1. ~Winner(r, o) /\ ~Winner(r, o)'
    BY DEF Winner
  <1>2. \A q \in Syncers : pc'[q] = "clear" /\ op'[q] = o => opStatus[o] \notin {"none", "PENDING"}
    BY OthersStay DEF ClaimOK
  <1> QED
    BY <1>1, <1>2, OthersStay, Bystander

\* The steps of the winner that neither create its order nor end its run.
LEMMA WorkSole ==
  ASSUME Typed, SaleInv, NEW r \in Syncers,
         BeginEngine(r) \/ CreatePayment(r) \/ CapturePayment(r) \/ RecordSale(r),
         ~EngineThrows(r), NEW o \in Ops, ClaimOK(o)
  PROVE  ClaimOK(o)'
  <1>1. /\ Step(r) /\ pc[r] \in Engine /\ pc'[r] \in Engine
        /\ op'[r] = op[r] /\ sale'[r] = sale[r] /\ UNCHANGED <<opStatus, claim, saleOp>>
    BY DEF Step, BeginEngine, CreatePayment, CapturePayment, RecordSale, Read, Goto, Engine,
      AfterPayment, opVars, saleVars, Typed, TypeOK
  <1>2. \A s \in Sales : Live(s, o)' => Live(s, o)
    BY <1>1 DEF BeginEngine, CreatePayment, CapturePayment, RecordSale, Read, saleVars, Live,
      Typed, TypeOK
  <1>3. CASE op[r] # o
    BY <1>1, <1>2, <1>3, AlienSole DEF Engine
  <1>4. CASE op[r] = o
    <2>1. Winner(r, o) /\ Winner(r, o)'
      BY <1>1, <1>4 DEF Winner
    <2>2. \/ pc[r] = "engine" /\ pc'[r] = "order"
          \/ pc[r] \in Selling /\ pc'[r] \in Selling
      BY DEF BeginEngine, CreatePayment, CapturePayment, RecordSale, Read, Goto, AfterPayment,
        Selling, Typed, TypeOK
    <2>3. pc'[r] \in {"engine", "order", "soldout"} => Unsold(o)'
      BY <1>2, <2>1, <2>2 DEF ClaimOK, Unsold, Selling
    <2>4. pc'[r] \in Selling => \A s \in Sales : Live(s, o)' => s = sale'[r]
      BY <1>1, <1>2, <2>1, <2>2 DEF ClaimOK, Selling
    <2> QED
      BY <1>1, <2>1, <2>3, <2>4, OthersStay, WinnerMoves
  <1> QED
    BY <1>3, <1>4

LEMMA OrderSole ==
  ASSUME Typed, NEW r \in Syncers, CreateOrder(r), NEW o \in Ops, ClaimOK(o)
  PROVE  ClaimOK(o)'
  <1>1. /\ Step(r) /\ pc[r] = "order" /\ op'[r] = op[r] /\ op[r] \in Ops
        /\ UNCHANGED <<opStatus, claim>>
    BY DEF Step, CreateOrder, Read, opVars, Typed, Working
  <1>2. CASE Read(r, "soldout")
    <2>1. pc'[r] = "soldout" /\ sale'[r] = sale[r] /\ UNCHANGED <<saleOp, saleStatus>>
      BY <1>2 DEF Read, Goto, saleVars, Typed, TypeOK
    <2>2. \A s \in Sales : Live(s, o)' <=> Live(s, o)
      BY <2>1 DEF Live
    <2>3. CASE op[r] = o
      <3>1. Winner(r, o) /\ Winner(r, o)' /\ Unsold(o)
        BY <1>1, <2>1, <2>3 DEF Winner, Engine, ClaimOK
      <3> QED
        BY <1>1, <2>1, <2>2, <3>1, OthersStay, WinnerMoves DEF Unsold, Selling
    <2> QED
      BY <1>1, <2>1, <2>2, <2>3, AlienSole DEF Engine
  <1>3. CASE ~Read(r, "soldout")
    <2>1. PICK s \in Sales :
            /\ saleStatus[s] = "none"
            /\ saleStatus' = [saleStatus EXCEPT ![s] = "PENDING"]
            /\ saleOp' = [saleOp EXCEPT ![s] = op[r]]
            /\ sale' = [sale EXCEPT ![r] = s]
      BY <1>3 DEF CreateOrder
    <2>2. pc'[r] = "pay" /\ sale'[r] = s
      BY <1>3, <2>1 DEF CreateOrder, Goto, Typed, TypeOK
    <2>3. \A t \in Sales \ {s} : Live(t, o)' <=> Live(t, o)
      BY <2>1 DEF Live, Typed, TypeOK
    <2>4. CASE op[r] = o
      <3>1. Winner(r, o) /\ Winner(r, o)' /\ Unsold(o)
        BY <1>1, <2>2, <2>4 DEF Winner, Engine, ClaimOK
      <3>2. \A t \in Sales : Live(t, o)' => t = sale'[r]
        BY <2>2, <2>3, <3>1 DEF Unsold
      <3> QED
        BY <1>1, <2>2, <3>1, <3>2, OthersStay, WinnerMoves
    <2>5. CASE op[r] # o
      <3>1. ~Live(s, o)'
        BY <2>1, <2>5 DEF Live, Typed, TypeOK
      <3> QED
        BY <1>1, <2>2, <2>3, <2>5, <3>1, AlienSole DEF Engine
    <2> QED
      BY <2>4, <2>5
  <1> QED
    BY <1>2, <1>3

LEMMA AroundSole ==
  ASSUME Typed, Environment, NEW o \in Ops \ disturbed', ClaimOK(o)
  PROVE  ClaimOK(o)'
  <1>1. UNCHANGED syncVars
    BY DEF Environment, RecordIntent, ClaimAges, CancelOrder, SellElsewhere, Restock,
      SetPrice, DeviceTransition
  <1>2. \A q \in Syncers :
          /\ Winner(q, o)' <=> Winner(q, o)
          /\ pc'[q] = pc[q] /\ op'[q] = op[q] /\ sale'[q] = sale[q]
    BY <1>1 DEF syncVars, Winner
  <1>3. \A s \in Sales : Live(s, o)' => Live(s, o)
    BY DEF Environment, RecordIntent, ClaimAges, CancelOrder, SellElsewhere, Restock,
      SetPrice, DeviceTransition, Live, saleVars, Typed, TypeOK
  <1>4. ASSUME NEW p \in Ops, RecordIntent(p) PROVE ClaimOK(o)'
    <2>1. CASE p = o
      <3>1. /\ opStatus[o] = "none" /\ opStatus'[o] = "PENDING" /\ claim'[o] = claim[o]
            /\ claim[o] = "null" /\ Idle(o) /\ Unsold(o)
        BY <1>4, <2>1 DEF RecordIntent, ClaimOK, Typed, TypeOK
      <3>2. \A q \in Syncers : ~(pc'[q] = "clear" /\ op'[q] = o)
        BY <1>2, <3>1 DEF ClaimOK
      <3> QED
        BY <1>2, <1>3, <3>1, <3>2 DEF ClaimOK, Idle, Unsold
    <2>2. CASE p # o
      <3>1. opStatus'[o] = opStatus[o] /\ claim'[o] = claim[o]
        BY <1>4, <2>2 DEF RecordIntent, Typed, TypeOK
      <3> QED
        BY <1>2, <1>3, <3>1, Bystander DEF ClaimOK
    <2> QED
      BY <2>1, <2>2
  <1>5. ASSUME NEW p \in Ops, ClaimAges(p) PROVE ClaimOK(o)'
    <2>1. p # o
      BY <1>5 DEF ClaimAges, ClaimOK
    <2>2. opStatus'[o] = opStatus[o] /\ claim'[o] = claim[o]
      BY <1>5, <2>1 DEF ClaimAges, Typed, TypeOK
    <2> QED
      BY <1>2, <1>3, <2>2, Bystander DEF ClaimOK
  <1>6. CASE UNCHANGED <<opStatus, claim>>
    BY <1>2, <1>3, <1>6, Bystander DEF ClaimOK
  <1>7. (\E p \in Ops : RecordIntent(p) \/ ClaimAges(p)) \/ UNCHANGED <<opStatus, claim>>
    BY DEF Environment, CancelOrder, SellElsewhere, Restock, SetPrice, DeviceTransition, opVars
  <1> QED
    BY <1>4, <1>5, <1>6, <1>7

LEMMA SoleStep == Typed /\ Truthful /\ SoleInv /\ [Next]_vars => SoleInv'
  <1> SUFFICES ASSUME Typed, Truthful, SoleInv, [Next]_vars, NEW o \in Ops \ disturbed'
               PROVE  ClaimOK(o)'
    BY DEF SoleInv
  <1>1. disturbed \subseteq disturbed'
    BY DEF Next, Step, Authority, ValidatePrice, ValidateStock, PersistRejection, Claim, Await,
      ClearClaim, BeginEngine, CreateOrder, CreatePayment, CapturePayment, RecordSale, Finalize,
      Crash, BeginSync, Environment, RecordIntent, ClaimAges, CancelOrder, SellElsewhere,
      Restock, SetPrice, DeviceTransition, Read, Answer, EngineThrows, vars, faultVars
  <1>2. ClaimOK(o)
    BY <1>1 DEF SoleInv
  <1>3. CASE UNCHANGED vars
    BY <1>2, <1>3 DEF vars, opVars, saleVars, syncVars, ClaimOK, Unsold, Idle, Live, Winner
  <1>4. CASE Environment
    BY <1>2, <1>4, AroundSole
  <1>5. ASSUME NEW r \in Syncers, Step(r) \/ Crash(r) \/ \E p \in Ops : BeginSync(r, p)
        PROVE  ClaimOK(o)'
    <2>1. CASE Crash(r)
      BY <1>2, <2>1, LeaveSole
    <2>2. CASE BeginEngine(r) \/ CreatePayment(r) \/ CapturePayment(r) \/ RecordSale(r)
      <3>1. Step(r) /\ pc[r] # "idle"
        BY <2>2 DEF Step, BeginEngine, CreatePayment, CapturePayment, RecordSale
      <3> QED
        BY <1>2, <2>2, <3>1, WorkSole, LeaveSole DEF Truthful
    <2> QED
      BY <1>2, <1>5, <2>1, <2>2, SeekSole, ClaimSole, ResultSole, ClearSole, OrderSole DEF Step
  <1> QED
    BY <1>3, <1>4, <1>5 DEF Next

\* While no winner of an intent's claim has died, thrown or outstayed the five
\* minutes, at most one order of the intent is PENDING or PAID: however many
\* syncs race for it, and although the last waiter clears a claim unseen.
THEOREM ClaimIsSole == Spec => []ClaimSellsOnce
  <1>1. Init => Truthful
    BY DEF Init, Truthful, SaleInv, AcceptedIsPaid, Selling
  <1>2. Typed /\ Truthful /\ SoleInv /\ [Next]_vars => Truthful' /\ SoleInv'
    BY TruthfulStep, SoleStep
  <1>3. SoleInv => ClaimSellsOnce
    BY DEF SoleInv, ClaimOK, ClaimSellsOnce
  <1> QED
    BY <1>1, <1>2, <1>3, InitSole, AlwaysTyped, PTL DEF Spec
=============================================================================

---------------------------- MODULE OrdersProof -----------------------------
(***************************************************************************)
(* Proofs about Orders, for any number of requests, orders, payments,      *)
(* variants and stores, any quantities and any mix of requests.            *)
(***************************************************************************)
EXTENDS OrdersLedger, Sums

\* What a request at a label works on.
WellShaped(r, label) ==
  /\ r.kind \in SaleKinds =>
       r.order \in OrderIds /\ r.payment \in PaymentIds /\ r.pool \in Stores
  /\ label = "decrement" =>
       r.kind \in SaleKinds \cup {"checkout"} /\ r.order \in OrderIds
  /\ label \in {"payRead", "payCheck", "payInsert"} =>
       /\ r.kind \in SaleKinds \cup {"pay"}
       /\ r.order \in OrderIds /\ r.payment \in PaymentIds
  /\ label \in {"captureRead", "captureMark", "captureOrder"} =>
       r.kind \in {"cashSale", "capture"} /\ r.payment \in PaymentIds
  /\ label = "failMark" => r.payment \in PaymentIds
  /\ label = "saleRecord" => r.kind \in SaleKinds
  /\ label \in CancelTx \cup {"cancelMark"} =>
       r.kind = "cancel" /\ r.order \in OrderIds
  /\ label = "restockCreate" => r.item \in Variants
  /\ label \in {"adjust", "adjustFind", "adjustCreate", "adjustRetry"} =>
       r.item \in Variants
  /\ label \in {"adjustCreate", "adjustRetry"} => r.delta >= 0

ClientsOK ==
  /\ pc \in [Clients -> Labels]
  /\ req \in [Clients -> Requests]
  /\ held \in [Clients -> SUBSET Variants]
  /\ \A c \in Clients : WellShaped(req[c], pc[c])

Typed == TypeOK /\ ClientsOK

-----------------------------------------------------------------------------
(* Type correctness *)

LEMMA ConstantTypes ==
  /\ OrderLines = [Variants -> Quantities]
  /\ NoLines \in OrderLines
  /\ NoRequest \in Requests
  /\ WellShaped(NoRequest, "idle")
  /\ Quantities \subseteq Nat
  /\ Deltas \subseteq Int
  /\ Stores \subseteq Pools
  /\ Global \in Pools
  /\ Opening \in [Pools -> [Variants -> Nat]]
  <1>1. NoLines \in OrderLines
    BY QuantityAssumption DEF NoLines, OrderLines
  <1>2. NoRequest \in Requests
    BY <1>1 DEF NoRequest, Requests, Kinds, Pools
  <1>3. WellShaped(NoRequest, "idle")
    BY DEF WellShaped, NoRequest, SaleKinds, CancelTx
  <1> QED
    BY <1>1, <1>2, <1>3, QuantityAssumption, DeltaAssumption, OpeningAssumption
    DEF OrderLines, Pools

LEMMA InitTyped == Init => Typed
  <1> SUFFICES ASSUME Init PROVE Typed
    OBVIOUS
  <1> USE ConstantTypes DEF Init
  <1>1. stock \in [Pools -> [Variants -> Int]] /\ supplied \in [Pools -> [Variants -> Int]]
    OBVIOUS
  <1>2. rows \subseteq Pools \X Variants
    OBVIOUS
  <1>3. ClientsOK
    BY DEF Labels, ClientsOK
  <1> QED
    BY <1>1, <1>2, <1>3 DEF TypeOK, ClientsOK, Typed

\* The three ways an action moves its request on.
LEMMA MoveKeepsClients ==
  ASSUME ClientsOK, NEW c \in Clients, NEW label \in Labels,
         WellShaped(req[c], label), UNCHANGED <<req, held>>,
         pc' = [pc EXCEPT ![c] = label]
  PROVE  ClientsOK'
  BY DEF ClientsOK

LEMMA AssignKeepsClients ==
  ASSUME ClientsOK, NEW c \in Clients, NEW label \in Labels,
         NEW r \in Requests, NEW H \in SUBSET Variants,
         WellShaped(r, label),
         pc' = [pc EXCEPT ![c] = label],
         req' = [req EXCEPT ![c] = r],
         held' = [held EXCEPT ![c] = H]
  PROVE  ClientsOK'
  BY DEF ClientsOK

LEMMA FinishKeepsClients ==
  ASSUME ClientsOK, NEW c \in Clients, Finish(c)
  PROVE  ClientsOK'
  <1>1. "idle" \in Labels
    BY DEF Labels
  <1> QED
    BY <1>1, AssignKeepsClients, ConstantTypes DEF Finish, Goto

LEMMA RefuseTyped ==
  ASSUME Typed, NEW c \in Clients, Refuse(c)
  PROVE  Typed'
  BY FinishKeepsClients
  DEF Typed, TypeOK, ClientsOK, Refuse, orderVars, payVars, stockVars

LEMMA AdvanceTyped ==
  ASSUME Typed, NEW c \in Clients, NEW label \in Labels,
         WellShaped(req[c], label), Advance(c, label)
  PROVE  Typed'
  BY MoveKeepsClients
  DEF Typed, TypeOK, ClientsOK, Advance, Goto, orderVars, payVars, stockVars

LEMMA BeginTyped ==
  ASSUME Typed, NEW c \in Clients, NEW label \in Labels,
         NEW r \in Requests, WellShaped(r, label), Begin(c, label, r)
  PROVE  Typed'
  <1>1. held' = [held EXCEPT ![c] = held[c]]
    BY DEF Begin, Typed, TypeOK
  <1>2. ClientsOK'
    BY <1>1, AssignKeepsClients DEF Begin, Goto, Typed, TypeOK
  <1> QED
    BY <1>2 DEF Typed, TypeOK, ClientsOK, Begin, orderVars, payVars, stockVars

LEMMA StartTyped ==
  ASSUME Typed, NEW c \in Clients, Start(c)
  PROVE  Typed'
  <1> USE ConstantTypes
  <1>1. CASE BeginCheckout(c)
    <2>1. PICK lines \in OrderLines, o \in OrderIds :
            Begin(c, "decrement", [NoRequest EXCEPT
              !.kind = "checkout", !.order = o, !.lines = lines])
      BY <1>1 DEF BeginCheckout
    <2> DEFINE r == [NoRequest EXCEPT
              !.kind = "checkout", !.order = o, !.lines = lines]
    <2>2. r \in Requests /\ WellShaped(r, "decrement") /\ "decrement" \in Labels
      BY DEF NoRequest, Requests, Kinds, WellShaped, SaleKinds, CancelTx, Labels, StockTx
    <2> QED
      BY <2>1, <2>2, BeginTyped
  <1>2. CASE BeginSale(c)
    <2>1. PICK kind \in SaleKinds, s \in Stores, lines \in OrderLines,
               o \in OrderIds, p \in PaymentIds :
            Begin(c, "decrement", [NoRequest EXCEPT
              !.kind = kind, !.order = o, !.payment = p, !.pool = s,
              !.lines = lines])
      BY <1>2 DEF BeginSale
    <2> DEFINE r == [NoRequest EXCEPT
              !.kind = kind, !.order = o, !.payment = p, !.pool = s,
              !.lines = lines]
    <2>2. r \in Requests /\ WellShaped(r, "decrement") /\ "decrement" \in Labels
      BY DEF NoRequest, Requests, Kinds, WellShaped, SaleKinds, CancelTx, Labels, StockTx
    <2> QED
      BY <2>1, <2>2, BeginTyped
  <1>3. CASE BeginPayment(c)
    <2>1. PICK o \in OrderIds, p \in PaymentIds :
            Begin(c, "payRead", [NoRequest EXCEPT
              !.kind = "pay", !.order = o, !.payment = p])
      BY <1>3 DEF BeginPayment
    <2> DEFINE r == [NoRequest EXCEPT !.kind = "pay", !.order = o, !.payment = p]
    <2>2. r \in Requests /\ WellShaped(r, "payRead") /\ "payRead" \in Labels
      BY DEF NoRequest, Requests, Kinds, WellShaped, SaleKinds, CancelTx, Labels
    <2> QED
      BY <2>1, <2>2, BeginTyped
  <1>4. CASE BeginCapture(c)
    <2>1. PICK p \in PaymentIds :
            Begin(c, "captureRead", [NoRequest EXCEPT
              !.kind = "capture", !.payment = p])
      BY <1>4 DEF BeginCapture
    <2> DEFINE r == [NoRequest EXCEPT !.kind = "capture", !.payment = p]
    <2>2. r \in Requests /\ WellShaped(r, "captureRead") /\ "captureRead" \in Labels
      BY DEF NoRequest, Requests, Kinds, WellShaped, SaleKinds, CancelTx, Labels
    <2> QED
      BY <2>1, <2>2, BeginTyped
  <1>5. CASE BeginFail(c)
    <2>1. PICK p \in PaymentIds :
            Begin(c, "failMark", [NoRequest EXCEPT !.kind = "fail", !.payment = p])
      BY <1>5 DEF BeginFail
    <2> DEFINE r == [NoRequest EXCEPT !.kind = "fail", !.payment = p]
    <2>2. r \in Requests /\ WellShaped(r, "failMark") /\ "failMark" \in Labels
      BY DEF NoRequest, Requests, Kinds, WellShaped, SaleKinds, CancelTx, Labels
    <2> QED
      BY <2>1, <2>2, BeginTyped
  <1>6. CASE BeginCancel(c)
    <2>1. PICK o \in OrderIds :
            Begin(c, "cancelMark", [NoRequest EXCEPT !.kind = "cancel", !.order = o])
      BY <1>6 DEF BeginCancel
    <2> DEFINE r == [NoRequest EXCEPT !.kind = "cancel", !.order = o]
    <2>2. r \in Requests /\ WellShaped(r, "cancelMark") /\ "cancelMark" \in Labels
      BY DEF NoRequest, Requests, Kinds, WellShaped, SaleKinds, CancelTx, Labels
    <2> QED
      BY <2>1, <2>2, BeginTyped
  <1>7. CASE BeginAdjust(c)
    <2>1. PICK pool \in Pools, v \in Variants, d \in Deltas :
            Begin(c, "adjust", [NoRequest EXCEPT
              !.kind = "adjust", !.pool = pool, !.item = v, !.delta = d])
      BY <1>7 DEF BeginAdjust
    <2> DEFINE r == [NoRequest EXCEPT
              !.kind = "adjust", !.pool = pool, !.item = v, !.delta = d]
    <2>2. r \in Requests /\ WellShaped(r, "adjust") /\ "adjust" \in Labels
      BY DEF NoRequest, Requests, Kinds, WellShaped, SaleKinds, CancelTx, Labels
    <2> QED
      BY <2>1, <2>2, BeginTyped
  <1> QED
    BY <1>1, <1>2, <1>3, <1>4, <1>5, <1>6, <1>7 DEF Start

\* Where createOrder, createPayment and capturePayment lead a request.
LEMMA PlaceTyped ==
  ASSUME Typed, NEW c \in Clients, PlaceOrder(c)
  PROVE  Typed'
  <1> USE ConstantTypes
  <1> DEFINE r == req[c]
  <1>1. r \in Requests /\ WellShaped(r, "decrement")
    BY DEF PlaceOrder, Typed, ClientsOK
  <1>2. ClientsOK'
    <2>1. CASE r.kind \in SaleKinds
      <3>1. WellShaped(r, "payRead") /\ "payRead" \in Labels
        BY <2>1, <1>1 DEF WellShaped, CancelTx, Labels
      <3>2. req' = [req EXCEPT ![c] = r] /\ held' = [held EXCEPT ![c] = {}]
        BY <2>1 DEF PlaceOrder, Typed, ClientsOK
      <3> QED
        BY <2>1, <1>1, <3>1, <3>2, AssignKeepsClients
        DEF PlaceOrder, Goto, Typed
    <2>2. CASE r.kind \notin SaleKinds
      BY <2>2, FinishKeepsClients DEF PlaceOrder, Typed
    <2> QED
      BY <2>1, <2>2
  <1>3. r.lines \in OrderLines /\ r.pool \in Pools
    BY <1>1 DEF Requests
  <1>3a. \A v \in Variants : r.lines[v] \in Nat
    <2>1. \A f \in [Variants -> Quantities], v \in Variants : f[v] \in Nat
      OBVIOUS
    <2> QED
      BY <1>3, <2>1
  <1>4. stock' \in [Pools -> [Variants -> Int]]
    BY <1>3, <1>3a DEF PlaceOrder, Typed, TypeOK
  <1>5. /\ orderStatus' \in [OrderIds -> {"none", "PENDING", "PAID", "CANCELLED"}]
        /\ orderLines' \in [OrderIds -> OrderLines]
        /\ orderPool' \in [OrderIds -> Pools]
    BY <1>3 DEF PlaceOrder, Typed, TypeOK
  <1> QED
    BY <1>2, <1>4, <1>5 DEF PlaceOrder, Typed, TypeOK, ClientsOK, payVars

LEMMA CapturedKeepsClients ==
  ASSUME ClientsOK, NEW c \in Clients, Captured(c),
         pc[c] \in {"captureRead", "captureOrder"}
  PROVE  ClientsOK'
  <1>1. CASE Goto(c, "saleRecord") /\ UNCHANGED <<req, held>> /\ req[c].kind = "cashSale"
    <2>1. WellShaped(req[c], "saleRecord") /\ "saleRecord" \in Labels
      BY <1>1 DEF ClientsOK, WellShaped, SaleKinds, CancelTx, Labels
    <2> QED
      BY <1>1, <2>1, MoveKeepsClients DEF Goto
  <1>2. CASE Finish(c)
    BY <1>2, FinishKeepsClients
  <1> QED
    BY <1>1, <1>2 DEF Captured

LEMMA PaymentTyped ==
  ASSUME Typed, NEW c \in Clients,
         \/ PayRead(c) \/ PayCheck(c) \/ PayInsert(c)
         \/ CaptureRead(c) \/ CaptureMark(c) \/ CaptureOrder(c)
         \/ FailMark(c) \/ SaleRecord(c)
  PROVE  Typed'
  <1> USE ConstantTypes
  <1> DEFINE r == req[c]
  <1>0. /\ r \in Requests /\ WellShaped(r, pc[c]) /\ ClientsOK
        /\ {"payCheck", "payInsert", "captureRead", "captureMark",
            "captureOrder", "saleRecord"} \subseteq Labels
    BY DEF Typed, ClientsOK, Labels
  <1>1. CASE PayRead(c)
    <2>1. CASE Advance(c, "payCheck")
      <3>1. WellShaped(r, "payCheck")
        BY <1>0, <1>1 DEF PayRead, WellShaped, CancelTx
      <3> QED
        BY <2>1, <3>1, <1>0, AdvanceTyped
    <2> QED
      BY <1>1, <2>1, RefuseTyped DEF PayRead
  <1>2. CASE PayCheck(c)
    <2>1. CASE Advance(c, "payInsert")
      <3>1. WellShaped(r, "payInsert")
        BY <1>0, <1>2 DEF PayCheck, WellShaped, CancelTx
      <3> QED
        BY <2>1, <3>1, <1>0, AdvanceTyped
    <2> QED
      BY <1>2, <2>1, RefuseTyped DEF PayCheck
  <1>3. CASE PayInsert(c)
    <2>1. /\ payStatus' \in [PaymentIds -> {"none", "PROCESSING", "CAPTURED", "FAILED"}]
          /\ payOrder' \in [PaymentIds -> OrderIds \cup {NoId}]
      BY <1>0, <1>3 DEF PayInsert, Typed, TypeOK, Requests
    <2>2. ClientsOK'
      <3>1. CASE Goto(c, AfterPayment(r.kind)) /\ UNCHANGED <<req, held>> /\ r.kind \in SaleKinds
        <4>1. WellShaped(r, AfterPayment(r.kind)) /\ AfterPayment(r.kind) \in Labels
          BY <3>1, <1>0 DEF WellShaped, SaleKinds, CancelTx, AfterPayment
        <4> QED
          BY <3>1, <4>1, <1>0, MoveKeepsClients DEF Goto
      <3>2. CASE Finish(c)
        BY <3>2, <1>0, FinishKeepsClients
      <3> QED
        BY <1>3, <3>1, <3>2 DEF PayInsert
    <2> QED
      BY <1>3, <2>1, <2>2 DEF PayInsert, Typed, TypeOK, ClientsOK, orderVars, stockVars
  <1>4. CASE CaptureRead(c)
    <2>1. ClientsOK'
      <3>1. CASE Goto(c, "captureMark") /\ UNCHANGED <<req, held>>
        <4>1. WellShaped(r, "captureMark")
          BY <1>0, <1>4 DEF CaptureRead, WellShaped, CancelTx
        <4> QED
          BY <3>1, <4>1, <1>0, MoveKeepsClients DEF Goto
      <3> QED
        BY <1>0, <1>4, <3>1, CapturedKeepsClients, FinishKeepsClients DEF CaptureRead
    <2> QED
      BY <1>4, <2>1 DEF CaptureRead, Typed, TypeOK, ClientsOK, orderVars, payVars, stockVars
  <1>5. CASE CaptureMark(c)
    <2>1. CASE Advance(c, "captureOrder")
      <3>1. WellShaped(r, "captureOrder")
        BY <1>0, <1>5 DEF CaptureMark, WellShaped, CancelTx
      <3> QED
        BY <2>1, <3>1, <1>0, AdvanceTyped
    <2> QED
      BY <1>5, <2>1, RefuseTyped DEF CaptureMark
  <1>6. CASE CaptureOrder(c)
    <2>1. CASE Refuse(c)
      BY <2>1, RefuseTyped
    <2>2. CASE Captured(c) /\ ~Refuse(c)
      <3>1. ClientsOK'
        BY <1>0, <1>6, <2>2, CapturedKeepsClients DEF CaptureOrder
      <3> QED
        BY <1>6, <2>2, <3>1 DEF CaptureOrder, Typed, TypeOK, ClientsOK, stockVars
    <2> QED
      BY <1>6, <2>1, <2>2 DEF CaptureOrder
  <1>7. CASE FailMark(c)
    <2>1. CASE Refuse(c)
      BY <2>1, RefuseTyped
    <2>2. CASE Finish(c) /\ ~Refuse(c)
      BY <1>0, <1>7, <2>2, FinishKeepsClients
      DEF FailMark, Typed, TypeOK, ClientsOK, orderVars, stockVars
    <2> QED
      BY <1>7, <2>1, <2>2 DEF FailMark
  <1>8. CASE SaleRecord(c)
    <2>1. r.pool \in Stores
      BY <1>0, <1>8 DEF SaleRecord, WellShaped
    <2> QED
      BY <1>0, <1>8, <2>1, FinishKeepsClients
      DEF SaleRecord, Typed, TypeOK, ClientsOK, orderVars, payVars, stockVars
  <1> QED
    BY <1>1, <1>2, <1>3, <1>4, <1>5, <1>6, <1>7, <1>8

LEMMA StockTyped ==
  ASSUME Typed, NEW c \in Clients,
         \/ Decrement(c) \/ InsufficientStock(c)
         \/ CancelMark(c) \/ CancelPool(c) \/ Restock(c) \/ RestockMissing(c)
         \/ RestockCreate(c) \/ CancelCommit(c)
  PROVE  Typed'
  <1> USE ConstantTypes
  <1> DEFINE r == req[c]
  <1>0. /\ r \in Requests /\ WellShaped(r, pc[c]) /\ ClientsOK
        /\ {"cancelPool", "restock", "restockCreate"} \subseteq Labels
    BY DEF Typed, ClientsOK, Labels, CancelTx
  <1>1. CASE Decrement(c)
    BY <1>1 DEF Decrement, Remaining, Typed, TypeOK, ClientsOK, orderVars, payVars, stockVars
  <1>2. CASE InsufficientStock(c)
    BY <1>2, RefuseTyped DEF InsufficientStock
  <1>3. CASE CancelMark(c)
    <2>1. CASE Advance(c, "cancelPool")
      <3>1. WellShaped(r, "cancelPool")
        BY <1>0, <1>3 DEF CancelMark, WellShaped, CancelTx
      <3> QED
        BY <2>1, <3>1, <1>0, AdvanceTyped
    <2> QED
      BY <1>3, <2>1, RefuseTyped DEF CancelMark
  <1>4. CASE CancelPool(c)
    <2> DEFINE s == [r EXCEPT !.pool = RestockPool(r.order), !.lines = orderLines[r.order]]
    <2>1. r.order \in OrderIds
      BY <1>0, <1>4 DEF CancelPool, WellShaped, CancelTx
    <2>2. RestockPool(r.order) \in Pools /\ orderLines[r.order] \in OrderLines
      BY <2>1 DEF Typed, TypeOK, RestockPool, Pools
    <2>3. s \in Requests
      BY <1>0, <2>2 DEF Requests
    <2>4. WellShaped(s, "restock")
      BY <1>0, <1>4 DEF CancelPool, WellShaped, CancelTx, SaleKinds, Requests
    <2>5. req' = [req EXCEPT ![c] = s] /\ held' = [held EXCEPT ![c] = held[c]]
      BY <1>0, <1>4 DEF CancelPool, ClientsOK
    <2>6. held[c] \in SUBSET Variants
      BY <1>0 DEF ClientsOK
    <2>7. ClientsOK'
      BY <1>0, <1>4, <2>3, <2>4, <2>5, <2>6, AssignKeepsClients DEF CancelPool, Goto
    <2> QED
      BY <1>4, <2>7 DEF CancelPool, Typed, TypeOK, ClientsOK, orderVars, payVars, stockVars
  <1>5. CASE Restock(c)
    BY <1>5 DEF Restock, Remaining, Typed, TypeOK, ClientsOK, orderVars, payVars, stockVars
  <1>6. CASE RestockMissing(c)
    <2>1. PICK v \in Variants : req' = [req EXCEPT ![c].item = v]
      BY <1>6 DEF RestockMissing, Remaining
    <2> DEFINE s == [r EXCEPT !.item = v]
    <2>2. s \in Requests
      BY <1>0 DEF Requests
    <2>3. WellShaped(s, "restockCreate")
      BY <1>0, <1>6 DEF RestockMissing, WellShaped, CancelTx, SaleKinds, Requests
    <2>4. req' = [req EXCEPT ![c] = s] /\ held' = [held EXCEPT ![c] = held[c]]
      BY <1>0, <1>6, <2>1 DEF RestockMissing, ClientsOK
    <2>5. held[c] \in SUBSET Variants
      BY <1>0 DEF ClientsOK
    <2>6. ClientsOK'
      BY <1>0, <1>6, <2>2, <2>3, <2>4, <2>5, AssignKeepsClients DEF RestockMissing, Goto
    <2> QED
      BY <1>6, <2>6 DEF RestockMissing, Typed, TypeOK, ClientsOK, orderVars, payVars, stockVars
  <1>7. CASE RestockCreate(c)
    <2>1. CASE Refuse(c)
      BY <2>1, RefuseTyped
    <2>2. CASE ~Refuse(c)
      <3> DEFINE s == [r EXCEPT !.item = NoId]
                 H == held[c] \cup {r.item}
      <3>1. s \in Requests
        BY <1>0 DEF Requests
      <3>2. WellShaped(s, "restock") /\ r.item \in Variants
        BY <1>0, <1>7 DEF RestockCreate, WellShaped, CancelTx, SaleKinds, Requests
      <3>3. /\ req' = [req EXCEPT ![c] = s]
            /\ held' = [held EXCEPT ![c] = H]
            /\ pc' = [pc EXCEPT ![c] = "restock"]
        BY <1>0, <1>7, <2>2 DEF RestockCreate, ClientsOK, Goto
      <3>4. H \in SUBSET Variants
        BY <1>0, <3>2 DEF ClientsOK
      <3>5. ClientsOK'
        BY <1>0, <3>1, <3>2, <3>3, <3>4, AssignKeepsClients
      <3> QED
        BY <1>7, <2>2, <3>5 DEF RestockCreate, Typed, TypeOK, ClientsOK, orderVars, payVars,
           stockVars
    <2> QED
      BY <2>1, <2>2
  <1>8. CASE CancelCommit(c)
    <2>1. r.lines \in OrderLines /\ r.pool \in Pools
      BY <1>0 DEF Requests
    <2>2. \A v \in Variants : r.lines[v] \in Nat
      <3>1. \A f \in [Variants -> Quantities], v \in Variants : f[v] \in Nat
        OBVIOUS
      <3> QED
        BY <2>1, <3>1
    <2>3. stock' \in [Pools -> [Variants -> Int]]
      BY <1>8, <2>1, <2>2 DEF CancelCommit, Restocked, Typed, TypeOK
    <2>4. rows' \subseteq Pools \X Variants
      BY <1>0, <1>8, <2>1 DEF CancelCommit, Typed, TypeOK
    <2>5. orderStatus' \in [OrderIds -> {"none", "PENDING", "PAID", "CANCELLED"}]
      BY <1>8 DEF CancelCommit, Typed, TypeOK
    <2>6. ClientsOK'
      BY <1>0, <1>8, FinishKeepsClients DEF CancelCommit
    <2> QED
      BY <1>8, <2>3, <2>4, <2>5, <2>6 DEF CancelCommit, Typed, TypeOK, ClientsOK, payVars
  <1> QED
    BY <1>1, <1>2, <1>3, <1>4, <1>5, <1>6, <1>7, <1>8

LEMMA ApplyDeltaTyped ==
  ASSUME Typed, NEW c \in Clients, ApplyDelta(c),
         req[c].item \in Variants, rows' \subseteq Pools \X Variants
  PROVE  Typed'
  <1> DEFINE r == req[c]
  <1>1. r \in Requests
    BY DEF Typed, ClientsOK
  <1>1a. r.delta \in Int /\ r.pool \in Pools
    <2>1. r.delta \in Deltas \cup {0} /\ r.pool \in Pools
      BY <1>1 DEF Requests
    <2>2. \A d \in Deltas \cup {0} : d \in Int
      BY DeltaAssumption
    <2> QED
      BY <2>1, <2>2
  <1>2. /\ stock' \in [Pools -> [Variants -> Int]]
        /\ supplied' \in [Pools -> [Variants -> Int]]
    BY <1>1, <1>1a DEF ApplyDelta, Typed, TypeOK
  <1>3. ClientsOK'
    BY FinishKeepsClients DEF ApplyDelta, Typed
  <1> QED
    BY <1>2, <1>3 DEF ApplyDelta, Typed, TypeOK, ClientsOK, orderVars, payVars

LEMMA AdjustTyped ==
  ASSUME Typed, NEW c \in Clients,
         Adjust(c) \/ AdjustFind(c) \/ AdjustCreate(c) \/ AdjustRetry(c)
  PROVE  Typed'
  <1> DEFINE r == req[c]
  <1>0. /\ r \in Requests /\ WellShaped(r, pc[c]) /\ rows \subseteq Pools \X Variants
        /\ {"adjustFind", "adjustCreate", "adjustRetry"} \subseteq Labels
        /\ pc[c] \in {"adjust", "adjustCreate", "adjustRetry"} => r.item \in Variants
    BY DEF Typed, TypeOK, ClientsOK, Labels, WellShaped
  <1>1. CASE Adjust(c)
    <2>1. CASE Advance(c, "adjustFind")
      <3>1. WellShaped(r, "adjustFind")
        BY <1>0, <1>1 DEF Adjust, WellShaped, CancelTx
      <3> QED
        BY <2>1, <3>1, <1>0, AdvanceTyped
    <2> QED
      BY <1>0, <1>1, <2>1, ApplyDeltaTyped DEF Adjust
  <1>2. CASE AdjustFind(c)
    <2>1. CASE Advance(c, "adjustCreate") /\ r.delta >= 0
      <3>1. WellShaped(r, "adjustCreate")
        BY <1>0, <1>2, <2>1 DEF AdjustFind, WellShaped, CancelTx
      <3> QED
        BY <2>1, <3>1, <1>0, AdvanceTyped
    <2> QED
      BY <1>2, <2>1, RefuseTyped DEF AdjustFind
  <1>3. CASE AdjustCreate(c)
    <2>1. CASE Advance(c, "adjustRetry")
      <3>1. WellShaped(r, "adjustRetry")
        BY <1>0, <1>3 DEF AdjustCreate, WellShaped, CancelTx
      <3> QED
        BY <2>1, <3>1, <1>0, AdvanceTyped
    <2>2. CASE ApplyDelta(c) /\ rows' = rows \cup {<<r.pool, r.item>>}
      <3>1. r.pool \in Pools /\ r.item \in Variants
        BY <1>0, <1>3 DEF AdjustCreate, WellShaped, Requests
      <3>2. rows' \subseteq Pools \X Variants
        BY <1>0, <2>2, <3>1
      <3> QED
        BY <2>2, <3>2, ApplyDeltaTyped
    <2> QED
      BY <1>3, <2>1, <2>2 DEF AdjustCreate
  <1>4. CASE AdjustRetry(c)
    BY <1>0, <1>4, ApplyDeltaTyped DEF AdjustRetry
  <1> QED
    BY <1>1, <1>2, <1>3, <1>4

LEMMA NextTyped == Typed /\ [Next]_vars => Typed'
  <1> SUFFICES ASSUME Typed, [Next]_vars PROVE Typed'
    OBVIOUS
  <1>1. CASE UNCHANGED vars
    BY <1>1 DEF vars, orderVars, payVars, stockVars, clientVars, Typed, TypeOK, ClientsOK
  <1>2. ASSUME NEW c \in Clients, Start(c) \/ Step(c) \/ Rollback(c)
        PROVE  Typed'
    BY <1>2, StartTyped, PlaceTyped, PaymentTyped, StockTyped, AdjustTyped, RefuseTyped
    DEF Step, Rollback
  <1> QED
    BY <1>1, <1>2 DEF Next

LEMMA AlwaysTyped == Spec => []Typed
  BY InitTyped, NextTyped, PTL DEF Spec

\* Every state of every behaviour has the types the schema gives its rows,
\* and no action takes a request's record apart.
THEOREM TypeCorrect == Spec => []TypeOK
  <1>1. Typed => TypeOK
    BY DEF Typed
  <1> QED
    BY <1>1, AlwaysTyped, PTL

-----------------------------------------------------------------------------
(* Row locks *)

\* A request changes nobody else's pc, record or staged rows.
LEMMA OnlyOwn ==
  ASSUME Typed, NEW c \in Clients, Start(c) \/ Step(c) \/ Rollback(c),
         NEW d \in Clients \ {c}
  PROVE  pc'[d] = pc[d] /\ req'[d] = req[d] /\ held'[d] = held[d]
  <1> USE DEF Typed, TypeOK, Goto, Finish, Refuse, Advance
  <1>1. CASE Start(c)
    BY <1>1 DEF Start, Begin, BeginCheckout, BeginSale, BeginPayment,
      BeginCapture, BeginFail, BeginCancel, BeginAdjust
  <1>2. CASE Rollback(c)
    BY <1>2 DEF Rollback
  <1>3. CASE Decrement(c) \/ InsufficientStock(c) \/ PlaceOrder(c)
    BY <1>3 DEF Decrement, InsufficientStock, PlaceOrder
  <1>4. CASE PayRead(c) \/ PayCheck(c) \/ PayInsert(c) \/ FailMark(c) \/ SaleRecord(c)
    BY <1>4 DEF PayRead, PayCheck, PayInsert, FailMark, SaleRecord
  <1>5. CASE CaptureRead(c) \/ CaptureMark(c) \/ CaptureOrder(c)
    BY <1>5 DEF CaptureRead, CaptureMark, CaptureOrder, Captured
  <1>6. CASE CancelMark(c) \/ CancelPool(c) \/ Restock(c)
    BY <1>6 DEF CancelMark, CancelPool, Restock
  <1>7. CASE RestockMissing(c) \/ RestockCreate(c) \/ CancelCommit(c)
    BY <1>7 DEF RestockMissing, RestockCreate, CancelCommit
  <1>8. CASE Adjust(c) \/ AdjustFind(c) \/ AdjustCreate(c) \/ AdjustRetry(c)
    BY <1>8 DEF Adjust, AdjustFind, AdjustCreate, AdjustRetry, ApplyDelta
  <1> QED
    BY <1>1, <1>2, <1>3, <1>4, <1>5, <1>6, <1>7, <1>8 DEF Step

\* The order row a cancellation has written is still PENDING for everyone
\* else, and no two open cancellations have written the same one.
OrderLocks ==
  \A c \in Clients : pc[c] \in CancelTx =>
    /\ orderStatus[req[c].order] = "PENDING"
    /\ \A d \in Clients \ {c} : pc[d] \in CancelTx => req[d].order # req[c].order

\* The same for the payment row a capture has written.
PaymentLocks ==
  \A c \in Clients : pc[c] = "captureOrder" =>
    /\ payStatus[req[c].payment] = "PROCESSING"
    /\ \A d \in Clients \ {c} :
         pc[d] = "captureOrder" => req[d].payment # req[c].payment

\* Steps that leave the locks of c as they are, or release them.
LEMMA OrderLocksFrame ==
  ASSUME OrderLocks, NEW c \in Clients, UNCHANGED orderStatus,
         \A d \in Clients \ {c} : pc'[d] = pc[d] /\ req'[d] = req[d],
         \/ pc'[c] \notin CancelTx
         \/ pc[c] \in CancelTx /\ req'[c].order = req[c].order
  PROVE  OrderLocks'
  BY DEF OrderLocks

\* Steps after which c has no lock, and that wrote no order locked by another.
LEMMA OrderLocksOther ==
  ASSUME OrderLocks, NEW c \in Clients, pc'[c] \notin CancelTx,
         \A d \in Clients \ {c} : pc'[d] = pc[d] /\ req'[d] = req[d],
         \A d \in Clients \ {c} : pc[d] \in CancelTx =>
           orderStatus'[req[d].order] = orderStatus[req[d].order]
  PROVE  OrderLocks'
  BY DEF OrderLocks

LEMMA OrderLocksStep ==
  ASSUME Typed, OrderLocks, NEW c \in Clients, Start(c) \/ Step(c) \/ Rollback(c)
  PROVE  OrderLocks'
  <1> USE DEF Typed, TypeOK, Goto, Finish, Refuse, Advance, CancelTx
  <1>0. \A d \in Clients \ {c} : pc'[d] = pc[d] /\ req'[d] = req[d]
    BY OnlyOwn
  <1>a. \A d \in Clients : pc[d] \in CancelTx => req[d].order \in OrderIds
    BY DEF ClientsOK, WellShaped
  <1>1. ASSUME pc'[c] \notin CancelTx, UNCHANGED orderStatus
        PROVE  OrderLocks'
    BY <1>0, <1>1, OrderLocksFrame
  <1>b. ASSUME pc[c] \in CancelTx, req'[c].order = req[c].order, UNCHANGED orderStatus
        PROVE  OrderLocks'
    BY <1>0, <1>b, OrderLocksFrame
  <1>2. CASE Start(c)
    <2>1. UNCHANGED orderStatus
      BY <1>2 DEF Start, Begin, BeginCheckout, BeginSale, BeginPayment,
        BeginCapture, BeginFail, BeginCancel, BeginAdjust, orderVars
    <2>2. pc'[c] \notin CancelTx
      BY <1>2 DEF Start, Begin, BeginCheckout, BeginSale, BeginPayment,
        BeginCapture, BeginFail, BeginCancel, BeginAdjust
    <2> QED
      BY <1>1, <2>1, <2>2
  <1>3. CASE Refuse(c)
    BY <1>1, <1>3 DEF orderVars
  <1>4. CASE Decrement(c)
    BY <1>1, <1>4 DEF Decrement, orderVars
  <1>5. CASE PlaceOrder(c)
    <2>1. orderStatus[req[c].order] = "none" /\ pc'[c] \notin CancelTx
      BY <1>5 DEF PlaceOrder
    <2>2. \A d \in Clients : pc[d] \in CancelTx => req[d].order # req[c].order
      BY <2>1 DEF OrderLocks
    <2>3. orderStatus' = [orderStatus EXCEPT ![req[c].order] = "PENDING"]
      BY <1>5 DEF PlaceOrder
    <2>4. \A d \in Clients \ {c} : pc[d] \in CancelTx =>
            orderStatus'[req[d].order] = orderStatus[req[d].order]
      BY <1>a, <2>2, <2>3
    <2> QED
      BY <1>0, <2>1, <2>4, OrderLocksOther
  <1>6. CASE PayRead(c) \/ PayCheck(c)
    BY <1>1, <1>3, <1>6 DEF PayRead, PayCheck, orderVars
  <1>7. CASE PayInsert(c)
    BY <1>1, <1>7 DEF PayInsert, AfterPayment, orderVars
  <1>8. CASE CaptureRead(c) \/ CaptureMark(c)
    BY <1>1, <1>3, <1>8 DEF CaptureRead, CaptureMark, Captured, orderVars
  <1>9. CASE CaptureOrder(c)
    <2>1. CASE ~Refuse(c)
      <3> DEFINE o == payOrder[req[c].payment]
      <3>1. \A d \in Clients \ {c} : pc[d] \in CancelTx => req[d].order # o
        BY <1>9, <2>1 DEF CaptureOrder, OrderBusy
      <3>2. pc'[c] \notin CancelTx /\ orderStatus' = [orderStatus EXCEPT ![o] = "PAID"]
        BY <1>9, <2>1 DEF CaptureOrder, Captured
      <3>3. \A d \in Clients \ {c} : pc[d] \in CancelTx =>
              orderStatus'[req[d].order] = orderStatus[req[d].order]
        BY <1>a, <3>1, <3>2
      <3> QED
        BY <1>0, <3>2, <3>3, OrderLocksOther
    <2> QED
      BY <1>3, <2>1
  <1>10. CASE FailMark(c)
    BY <1>1, <1>3, <1>10 DEF FailMark, orderVars
  <1>11. CASE SaleRecord(c)
    BY <1>1, <1>11 DEF SaleRecord, orderVars
  <1>12. CASE CancelMark(c)
    <2>1. CASE Advance(c, "cancelPool") /\ Cancellable(req[c].order) /\ ~OrderBusy(c, req[c].order)
      BY <1>0, <2>1 DEF OrderLocks, Cancellable, OrderBusy, orderVars
    <2> QED
      BY <1>3, <1>12, <2>1 DEF CancelMark
  <1>13. CASE CancelPool(c)
    <2>1. req'[c].order = req[c].order /\ UNCHANGED orderStatus /\ pc[c] \in CancelTx
      BY <1>13 DEF CancelPool, ClientsOK, Requests, orderVars
    <2> QED
      BY <1>b, <2>1
  <1>14. CASE Restock(c)
    BY <1>b, <1>14 DEF Restock, orderVars
  <1>18. CASE RestockMissing(c)
    <2>1. PICK v : req' = [req EXCEPT ![c].item = v]
      BY <1>18 DEF RestockMissing
    <2>2. req'[c].order = req[c].order
      BY <2>1 DEF ClientsOK, Requests
    <2> QED
      BY <1>b, <1>18, <2>2 DEF RestockMissing, orderVars
  <1>15. CASE RestockCreate(c)
    <2>1. CASE ~Refuse(c)
      <3>1. req'[c].order = req[c].order /\ UNCHANGED orderStatus /\ pc[c] \in CancelTx
        BY <1>15, <2>1 DEF RestockCreate, ClientsOK, Requests, orderVars
      <3> QED
        BY <1>b, <3>1
    <2> QED
      BY <1>3, <2>1
  <1>16. CASE CancelCommit(c)
    BY <1>0, <1>16 DEF CancelCommit, OrderLocks
  <1>17. CASE Adjust(c) \/ AdjustFind(c) \/ AdjustCreate(c) \/ AdjustRetry(c)
    BY <1>1, <1>3, <1>17 DEF Adjust, AdjustFind, AdjustCreate, AdjustRetry, ApplyDelta, orderVars
  <1> QED
    BY <1>2, <1>3, <1>4, <1>5, <1>6, <1>7, <1>8, <1>9, <1>10, <1>11, <1>12,
       <1>13, <1>14, <1>15, <1>16, <1>17, <1>18
    DEF Step, Rollback, InsufficientStock

\* Steps after which c has no lock, and that wrote no payment locked by another.
LEMMA PaymentLocksOther ==
  ASSUME PaymentLocks, NEW c \in Clients, pc'[c] # "captureOrder",
         \A d \in Clients \ {c} : pc'[d] = pc[d] /\ req'[d] = req[d],
         \A d \in Clients \ {c} : pc[d] = "captureOrder" =>
           payStatus'[req[d].payment] = payStatus[req[d].payment]
  PROVE  PaymentLocks'
  BY DEF PaymentLocks

LEMMA PaymentLocksStep ==
  ASSUME Typed, PaymentLocks, NEW c \in Clients, Start(c) \/ Step(c) \/ Rollback(c)
  PROVE  PaymentLocks'
  <1> USE DEF Typed, TypeOK, Goto, Finish, Refuse, Advance
  <1>0. \A d \in Clients \ {c} : pc'[d] = pc[d] /\ req'[d] = req[d]
    BY OnlyOwn
  <1>a. \A d \in Clients : pc[d] = "captureOrder" => req[d].payment \in PaymentIds
    BY DEF ClientsOK, WellShaped
  <1>1. ASSUME pc'[c] # "captureOrder", UNCHANGED payStatus
        PROVE  PaymentLocks'
    BY <1>0, <1>1, PaymentLocksOther
  <1>b. ASSUME pc'[c] # "captureOrder", NEW p \in PaymentIds, NEW s,
               \A d \in Clients \ {c} : pc[d] = "captureOrder" => req[d].payment # p,
               payStatus' = [payStatus EXCEPT ![p] = s]
        PROVE  PaymentLocks'
    <2>1. \A d \in Clients \ {c} : pc[d] = "captureOrder" =>
            payStatus'[req[d].payment] = payStatus[req[d].payment]
      BY <1>a, <1>b
    <2> QED
      BY <1>0, <1>b, <2>1, PaymentLocksOther
  <1>2. CASE Start(c)
    BY <1>1, <1>2 DEF Start, Begin, BeginCheckout, BeginSale, BeginPayment,
      BeginCapture, BeginFail, BeginCancel, BeginAdjust, payVars
  <1>3. CASE Refuse(c)
    BY <1>1, <1>3 DEF payVars
  <1>4. CASE Decrement(c) \/ PlaceOrder(c)
    BY <1>1, <1>4 DEF Decrement, PlaceOrder, payVars
  <1>5. CASE PayRead(c) \/ PayCheck(c)
    BY <1>1, <1>3, <1>5 DEF PayRead, PayCheck, payVars
  <1>6. CASE PayInsert(c)
    <2>1. \A d \in Clients : pc[d] = "captureOrder" => req[d].payment # req[c].payment
      BY <1>6 DEF PayInsert, PaymentLocks
    <2>2. req[c].payment \in PaymentIds
      BY <1>6 DEF PayInsert, ClientsOK, WellShaped
    <2>3. /\ pc'[c] # "captureOrder"
          /\ payStatus' = [payStatus EXCEPT ![req[c].payment] = "PROCESSING"]
      BY <1>6 DEF PayInsert, AfterPayment
    <2> QED
      BY <2>1, <2>2, <2>3, <1>b
  <1>7. CASE CaptureRead(c)
    BY <1>1, <1>7 DEF CaptureRead, Captured, payVars
  <1>8. CASE CaptureMark(c)
    <2>1. CASE /\ payStatus[req[c].payment] = "PROCESSING"
               /\ ~PaymentBusy(c, req[c].payment)
               /\ Advance(c, "captureOrder")
      BY <1>0, <2>1 DEF PaymentLocks, PaymentBusy, payVars
    <2> QED
      BY <1>3, <1>8, <2>1 DEF CaptureMark
  <1>9. CASE CaptureOrder(c)
    <2>1. CASE ~Refuse(c)
      <3>1. /\ pc'[c] # "captureOrder"
            /\ payStatus' = [payStatus EXCEPT ![req[c].payment] = "CAPTURED"]
        BY <1>9, <2>1 DEF CaptureOrder, Captured
      <3>2. \A d \in Clients \ {c} :
              pc[d] = "captureOrder" => req[d].payment # req[c].payment
        BY <1>9 DEF CaptureOrder, PaymentLocks
      <3> QED
        BY <1>9, <1>a, <1>b, <3>1, <3>2 DEF CaptureOrder
    <2> QED
      BY <1>3, <2>1
  <1>10. CASE FailMark(c)
    <2>1. CASE ~Refuse(c)
      <3>1. /\ pc'[c] # "captureOrder"
            /\ payStatus' = [payStatus EXCEPT ![req[c].payment] = "FAILED"]
        BY <1>10, <2>1 DEF FailMark
      <3>2. \A d \in Clients \ {c} :
              pc[d] = "captureOrder" => req[d].payment # req[c].payment
        BY <1>10, <2>1 DEF FailMark, PaymentBusy
      <3>3. req[c].payment \in PaymentIds
        BY <1>10 DEF FailMark, ClientsOK, WellShaped
      <3> QED
        BY <1>b, <3>1, <3>2, <3>3
    <2> QED
      BY <1>3, <2>1
  <1>11. CASE SaleRecord(c) \/ CancelPool(c) \/ Restock(c) \/ RestockMissing(c)
    BY <1>1, <1>11 DEF SaleRecord, CancelPool, Restock, RestockMissing, payVars
  <1>12. CASE CancelMark(c) \/ RestockCreate(c) \/ CancelCommit(c)
    BY <1>1, <1>3, <1>12 DEF CancelMark, RestockCreate, CancelCommit, payVars
  <1>13. CASE Adjust(c) \/ AdjustFind(c) \/ AdjustCreate(c) \/ AdjustRetry(c)
    BY <1>1, <1>3, <1>13 DEF Adjust, AdjustFind, AdjustCreate, AdjustRetry, ApplyDelta, payVars
  <1> QED
    BY <1>2, <1>3, <1>4, <1>5, <1>6, <1>7, <1>8, <1>9, <1>10, <1>11, <1>12, <1>13
    DEF Step, Rollback, InsufficientStock

\* The locks of every reachable state.
Locks == Typed /\ OrderLocks /\ PaymentLocks

LEMMA LocksStep == Locks /\ [Next]_vars => Locks'
  <1> SUFFICES ASSUME Locks, [Next]_vars PROVE Locks'
    OBVIOUS
  <1>1. CASE UNCHANGED vars
    BY <1>1, NextTyped
    DEF Locks, OrderLocks, PaymentLocks, vars, orderVars, payVars, clientVars
  <1>2. ASSUME NEW c \in Clients, Start(c) \/ Step(c) \/ Rollback(c)
        PROVE  Locks'
    BY <1>2, NextTyped, OrderLocksStep, PaymentLocksStep DEF Locks
  <1> QED
    BY <1>1, <1>2 DEF Next

LEMMA AlwaysLocks == Spec => []Locks
  <1>1. Init => Locks
    BY InitTyped DEF Init, Locks, OrderLocks, PaymentLocks, CancelTx
  <1> QED
    BY <1>1, LocksStep, PTL DEF Spec

-----------------------------------------------------------------------------
(* Orders and their money *)

\* The only ways a committed order or payment ever changes.
Places(o, lines) ==
  /\ orderStatus[o] = "none"
  /\ orderStatus' = [orderStatus EXCEPT ![o] = "PENDING"]
  /\ orderLines' = [orderLines EXCEPT ![o] = lines]
  /\ UNCHANGED <<payStatus, payOrder>>

Inserts(p, o) ==
  /\ payStatus[p] = "none"
  /\ payStatus' = [payStatus EXCEPT ![p] = "PROCESSING"]
  /\ payOrder' = [payOrder EXCEPT ![p] = o]
  /\ UNCHANGED <<orderStatus, orderLines>>

Captures(p) ==
  /\ payStatus[p] = "PROCESSING"
  /\ orderStatus[payOrder[p]] = "PENDING"
  /\ payStatus' = [payStatus EXCEPT ![p] = "CAPTURED"]
  /\ orderStatus' = [orderStatus EXCEPT ![payOrder[p]] = "PAID"]
  /\ UNCHANGED <<orderLines, payOrder>>

Fails(p) ==
  /\ payStatus[p] = "PROCESSING"
  /\ payStatus' = [payStatus EXCEPT ![p] = "FAILED"]
  /\ UNCHANGED <<orderStatus, orderLines, payOrder>>

Cancels(o) ==
  /\ orderStatus[o] = "PENDING"
  /\ orderStatus' = [orderStatus EXCEPT ![o] = "CANCELLED"]
  /\ UNCHANGED <<orderLines, payStatus, payOrder>>

PayStep ==
  \/ UNCHANGED <<orderStatus, orderLines, payStatus, payOrder>>
  \/ \E p \in PaymentIds : Captures(p) \/ Fails(p)
  \/ \E p \in PaymentIds, o \in OrderIds : Inserts(p, o)

MoneyStep ==
  \/ PayStep
  \/ \E o \in OrderIds : Places(o, orderLines'[o]) \/ Cancels(o)

\* The locks make the writes of a commit conditional on what it commits over.
LEMMA EveryPayStep ==
  ASSUME Locks, NEW c \in Clients, Start(c) \/ Step(c) \/ Rollback(c),
         ~PlaceOrder(c), ~CancelCommit(c)
  PROVE  PayStep
  <1> DEFINE r == req[c]
             Same == UNCHANGED <<orderStatus, orderLines, payStatus, payOrder>>
  <1>0. /\ Typed /\ OrderLocks /\ PaymentLocks /\ TypeOK /\ WellShaped(r, pc[c])
    BY DEF Locks, Typed, ClientsOK
  <1>1. CASE Same
    BY <1>1 DEF PayStep
  <1>2. CASE Start(c)
    <2>1. Same
      BY <1>2 DEF Start, Begin, BeginCheckout, BeginSale, BeginPayment,
        BeginCapture, BeginFail, BeginCancel, BeginAdjust, orderVars, payVars
    <2> QED
      BY <1>1, <2>1
  <1>3. CASE Refuse(c)
    BY <1>1, <1>3 DEF Refuse, orderVars, payVars
  <1>4. CASE Decrement(c) \/ PayRead(c) \/ PayCheck(c) \/ SaleRecord(c)
    <2>1. Same
      BY <1>4 DEF Decrement, PayRead, PayCheck, SaleRecord, Advance, Refuse,
        orderVars, payVars
    <2> QED
      BY <1>1, <2>1
  <1>5. CASE PayInsert(c)
    <2>1. r.order \in OrderIds /\ r.payment \in PaymentIds
      BY <1>0, <1>5 DEF PayInsert, WellShaped
    <2>2. Inserts(r.payment, r.order)
      BY <1>5 DEF PayInsert, Inserts, orderVars
    <2> QED
      BY <2>1, <2>2 DEF PayStep
  <1>6. CASE CaptureRead(c) \/ CaptureMark(c)
    <2>1. Same
      BY <1>6 DEF CaptureRead, CaptureMark, Captured, Advance, Refuse,
        orderVars, payVars
    <2> QED
      BY <1>1, <2>1
  <1>7. CASE CaptureOrder(c)
    <2>1. CASE ~Refuse(c)
      <3>1. r.payment \in PaymentIds /\ payStatus[r.payment] = "PROCESSING"
        BY <1>0, <1>7 DEF CaptureOrder, WellShaped, PaymentLocks
      <3>2. Captures(r.payment)
        BY <1>7, <2>1, <3>1 DEF CaptureOrder, Captures, Payable
      <3> QED
        BY <3>1, <3>2 DEF PayStep
    <2> QED
      BY <1>3, <2>1
  <1>8. CASE FailMark(c)
    <2>1. CASE ~Refuse(c)
      <3>1. r.payment \in PaymentIds /\ Fails(r.payment)
        BY <1>0, <1>8, <2>1 DEF FailMark, Fails, Failable, WellShaped, orderVars
      <3> QED
        BY <3>1 DEF PayStep
    <2> QED
      BY <1>3, <2>1
  <1>9. CASE CancelMark(c) \/ CancelPool(c) \/ Restock(c) \/ RestockMissing(c)
              \/ RestockCreate(c)
    <2>1. Same
      BY <1>9 DEF CancelMark, CancelPool, Restock, RestockMissing, RestockCreate,
        Advance, Refuse, orderVars, payVars
    <2> QED
      BY <1>1, <2>1
  <1>10. CASE Adjust(c) \/ AdjustFind(c) \/ AdjustCreate(c) \/ AdjustRetry(c)
    <2>1. Same
      BY <1>10 DEF Adjust, AdjustFind, AdjustCreate, AdjustRetry, ApplyDelta,
        Advance, Refuse, orderVars, payVars
    <2> QED
      BY <1>1, <2>1
  <1> QED
    BY <1>2, <1>3, <1>4, <1>5, <1>6, <1>7, <1>8, <1>9, <1>10
    DEF Step, Rollback, InsufficientStock

LEMMA EveryMoneyStep ==
  ASSUME Locks, NEW c \in Clients, Start(c) \/ Step(c) \/ Rollback(c)
  PROVE  MoneyStep
  <1> DEFINE r == req[c]
  <1>0. /\ TypeOK /\ WellShaped(r, pc[c]) /\ OrderLocks
    BY DEF Locks, Typed, ClientsOK
  <1>1. CASE PlaceOrder(c)
    <2>1. r.order \in OrderIds
      BY <1>0, <1>1 DEF PlaceOrder, WellShaped
    <2>2. orderLines'[r.order] = r.lines
      BY <1>0, <1>1, <2>1 DEF PlaceOrder, TypeOK
    <2>3. Places(r.order, orderLines'[r.order])
      BY <1>1, <2>2 DEF PlaceOrder, Places, payVars
    <2> QED
      BY <2>1, <2>3 DEF MoneyStep
  <1>2. CASE CancelCommit(c)
    <2>1. r.order \in OrderIds /\ orderStatus[r.order] = "PENDING"
      BY <1>0, <1>2 DEF CancelCommit, WellShaped, OrderLocks, CancelTx
    <2>2. Cancels(r.order)
      BY <1>2, <2>1 DEF CancelCommit, Cancels, payVars
    <2> QED
      BY <2>1, <2>2 DEF MoneyStep
  <1> QED
    BY <1>1, <1>2, EveryPayStep DEF MoneyStep

LEMMA NextIsMoneyStep == Locks /\ [Next]_vars => MoneyStep
  <1>1. ASSUME Locks, UNCHANGED vars PROVE MoneyStep
    BY <1>1 DEF vars, orderVars, payVars, MoneyStep, PayStep
  <1> QED
    BY <1>1, EveryMoneyStep DEF Next

\* PaidExactlyOnce is not inductive by itself: a payment must belong to an
\* order for its capture to reach one.
Owned ==
  \A p \in PaymentIds : payStatus[p] # "none" => payOrder[p] \in OrderIds

PaidInv == Owned /\ PaidExactlyOnce

LEMMA MoneyStepKeepsPaid ==
  ASSUME TypeOK, PaidInv, MoneyStep PROVE PaidInv'
  <1> USE DEF TypeOK, PaidInv, Owned, PaidExactlyOnce
  <1>1. CASE UNCHANGED <<orderStatus, orderLines, payStatus, payOrder>>
    BY <1>1
  <1>2. ASSUME NEW o \in OrderIds, Places(o, orderLines'[o])
        PROVE  PaidInv'
    BY <1>2 DEF Places
  <1>3. ASSUME NEW o \in OrderIds, Cancels(o)
        PROVE  PaidInv'
    BY <1>3 DEF Cancels
  <1>4. ASSUME NEW p \in PaymentIds, Captures(p)
        PROVE  PaidInv'
    BY <1>4 DEF Captures
  <1>5. ASSUME NEW p \in PaymentIds, Fails(p)
        PROVE  PaidInv'
    BY <1>5 DEF Fails
  <1>6. ASSUME NEW p \in PaymentIds, NEW o \in OrderIds, Inserts(p, o)
        PROVE  PaidInv'
    BY <1>6 DEF Inserts
  <1> QED
    BY <1>1, <1>2, <1>3, <1>4, <1>5, <1>6 DEF MoneyStep, PayStep

LEMMA AlwaysPaid == Spec => []PaidInv
  <1>1. Init => PaidInv
    BY DEF Init, PaidInv, Owned, PaidExactlyOnce
  <1>2. Locks => TypeOK
    BY DEF Locks, Typed
  <1>3. PaidInv /\ UNCHANGED vars => PaidInv'
    BY DEF vars, orderVars, payVars, PaidInv, Owned, PaidExactlyOnce
  <1>4. Locks /\ PaidInv /\ [Next]_vars => PaidInv'
    BY <1>2, <1>3, NextIsMoneyStep, MoneyStepKeepsPaid
  <1> QED
    BY <1>1, <1>4, AlwaysLocks, PTL DEF Spec

\* Whatever captures, failures and cancellations race each other, an order is
\* PAID exactly when one, and only one, of its payments is CAPTURED.
THEOREM PaidOnce == Spec => []PaidExactlyOnce
  <1>1. PaidInv => PaidExactlyOnce
    BY DEF PaidInv
  <1> QED
    BY <1>1, AlwaysPaid, PTL

\* A settled order or payment stays as it is, whatever stale status a handler
\* read before it wrote.
THEOREM SettledStays == Spec => SettledIsFinal
  <1> DEFINE Kept ==
        /\ \A o \in OrderIds :
             /\ orderStatus[o] \in {"PAID", "CANCELLED"}
                  => orderStatus'[o] = orderStatus[o]
             /\ orderStatus[o] # "none" => orderLines'[o] = orderLines[o]
        /\ \A p \in PaymentIds :
             payStatus[p] \in {"CAPTURED", "FAILED"}
               => payStatus'[p] = payStatus[p] /\ payOrder'[p] = payOrder[p]
  <1>1. ASSUME TypeOK, MoneyStep PROVE Kept
    <2> USE DEF TypeOK
    <2>1. CASE UNCHANGED <<orderStatus, orderLines, payStatus, payOrder>>
      BY <2>1
    <2>2. ASSUME NEW o \in OrderIds, NEW lines, Places(o, lines) PROVE Kept
      <3>1. \A x \in OrderIds : orderStatus[x] # "none" => x # o
        BY <2>2 DEF Places
      <3>2. \A x \in OrderIds :
              x # o => orderStatus'[x] = orderStatus[x] /\ orderLines'[x] = orderLines[x]
        BY <2>2 DEF Places
      <3> QED
        BY <2>2, <3>1, <3>2 DEF Places
    <2>3. ASSUME NEW o \in OrderIds, Cancels(o) PROVE Kept
      BY <2>3 DEF Cancels
    <2>4. ASSUME NEW p \in PaymentIds, Captures(p) PROVE Kept
      <3>1. \A x \in OrderIds :
              orderStatus[x] \in {"PAID", "CANCELLED"} => x # payOrder[p]
        BY <2>4 DEF Captures
      <3> QED
        BY <2>4, <3>1 DEF Captures
    <2>5. ASSUME NEW p \in PaymentIds, Fails(p) PROVE Kept
      BY <2>5 DEF Fails
    <2>6. ASSUME NEW p \in PaymentIds, NEW o \in OrderIds, Inserts(p, o) PROVE Kept
      BY <2>6 DEF Inserts
    <2> QED
      BY <1>1, <2>1, <2>2, <2>3, <2>4, <2>5, <2>6 DEF MoneyStep, PayStep
  <1>2. Locks => TypeOK
    BY DEF Locks, Typed
  <1>3. Locks /\ [Next]_vars => [Kept]_vars
    BY <1>1, <1>2, NextIsMoneyStep
  <1> QED
    BY <1>3, AlwaysLocks, PTL DEF Spec, SettledIsFinal

-----------------------------------------------------------------------------
(* Cash sales *)

\* The payment a cash sale is about to capture is the one of its order.
CashInv ==
  /\ CashSaleIsPaid
  /\ \A c \in Clients :
       /\ req[c].kind = "cashSale"
       /\ pc[c] \in {"captureRead", "captureMark", "captureOrder"}
       => /\ payOrder[req[c].payment] = req[c].order
          /\ payStatus[req[c].payment] # "none"

\* What was paid stays paid, and payments keep their order.
LEMMA MoneyStays ==
  ASSUME TypeOK, MoneyStep
  PROVE  /\ \A o \in OrderIds : orderStatus[o] = "PAID" => orderStatus'[o] = "PAID"
         /\ \A p \in PaymentIds : payStatus[p] # "none" =>
              payStatus'[p] # "none" /\ payOrder'[p] = payOrder[p]
  <1> DEFINE Stays ==
        /\ \A o \in OrderIds : orderStatus[o] = "PAID" => orderStatus'[o] = "PAID"
        /\ \A p \in PaymentIds : payStatus[p] # "none" =>
             payStatus'[p] # "none" /\ payOrder'[p] = payOrder[p]
  <1> USE DEF TypeOK
  <1>1. CASE UNCHANGED <<orderStatus, orderLines, payStatus, payOrder>>
    BY <1>1
  <1>2. ASSUME NEW o \in OrderIds, NEW lines, Places(o, lines) PROVE Stays
    BY <1>2 DEF Places
  <1>3. ASSUME NEW o \in OrderIds, Cancels(o) PROVE Stays
    BY <1>3 DEF Cancels
  <1>4. ASSUME NEW p \in PaymentIds, Captures(p) PROVE Stays
    BY <1>4 DEF Captures
  <1>5. ASSUME NEW p \in PaymentIds, Fails(p) PROVE Stays
    BY <1>5 DEF Fails
  <1>6. ASSUME NEW p \in PaymentIds, NEW o \in OrderIds, Inserts(p, o) PROVE Stays
    BY <1>6 DEF Inserts
  <1> QED
    BY <1>1, <1>2, <1>3, <1>4, <1>5, <1>6 DEF MoneyStep, PayStep

\* Steps that leave the request at no label CashInv speaks of, or at one of
\* them with the same record.
LEMMA CashFrame ==
  ASSUME Locks, CashInv, NEW c \in Clients, Start(c) \/ Step(c) \/ Rollback(c),
         \/ req'[c].kind # "cashSale"
         \/ pc'[c] \notin {"captureRead", "captureMark", "captureOrder", "saleRecord"}
         \/ /\ req'[c] = req[c]
            /\ {pc[c], pc'[c]} \subseteq {"captureRead", "captureMark", "captureOrder"}
         \/ /\ pc'[c] = "saleRecord"
            /\ orderStatus'[req'[c].order] = "PAID"
  PROVE  CashInv'
  <1>0. /\ Typed /\ TypeOK
        /\ \A d \in Clients : WellShaped(req[d], pc[d])
    BY DEF Locks, Typed, ClientsOK
  <1>1. \A d \in Clients \ {c} : pc'[d] = pc[d] /\ req'[d] = req[d]
    BY <1>0, OnlyOwn
  <1>2. MoneyStep
    BY EveryMoneyStep
  <1>3. /\ \A o \in OrderIds : orderStatus[o] = "PAID" => orderStatus'[o] = "PAID"
        /\ \A p \in PaymentIds : payStatus[p] # "none" =>
             payStatus'[p] # "none" /\ payOrder'[p] = payOrder[p]
    BY <1>0, <1>2, MoneyStays
  <1>4. \A d \in Clients : req[d].kind = "cashSale" =>
          req[d].order \in OrderIds /\ req[d].payment \in PaymentIds
    BY <1>0 DEF WellShaped, SaleKinds
  <1>5. CashSaleIsPaid'
    BY <1>1, <1>3, <1>4 DEF CashInv, CashSaleIsPaid
  <1> QED
    BY <1>1, <1>3, <1>4, <1>5 DEF CashInv

LEMMA CashStep ==
  ASSUME Locks, PaidInv, CashInv, NEW c \in Clients,
         Start(c) \/ Step(c) \/ Rollback(c)
  PROVE  CashInv'
  <1> DEFINE r == req[c]
             Quiet == pc'[c] \notin {"captureRead", "captureMark", "captureOrder", "saleRecord"}
  <1>0. /\ TypeOK /\ ClientsOK /\ Typed /\ r \in Requests /\ WellShaped(r, pc[c])
        /\ pc \in [Clients -> Labels] /\ req \in [Clients -> Requests]
    BY DEF Locks, Typed, ClientsOK
  <1>1. CASE Quiet
    BY <1>1, CashFrame
  <1>2. CASE Finish(c)
    <2>1. Quiet
      BY <1>0, <1>2 DEF Finish, Goto
    <2> QED
      BY <1>1, <2>1
  <1>3. CASE Start(c)
    <2>1. CASE BeginCapture(c)
      <3>1. req'[c].kind = "capture"
        BY <1>0, <2>1 DEF BeginCapture, Begin, NoRequest
      <3> QED
        BY <3>1, CashFrame
    <2>2. CASE ~BeginCapture(c)
      <3>1. Quiet
        BY <1>0, <1>3, <2>2 DEF Start, Begin, BeginCheckout, BeginSale, BeginPayment,
          BeginFail, BeginCancel, BeginAdjust, Goto
      <3> QED
        BY <1>1, <3>1
    <2> QED
      BY <2>1, <2>2
  <1>4. CASE Decrement(c) \/ PayRead(c) \/ PayCheck(c) \/ CancelPool(c)
             \/ CancelMark(c) \/ Restock(c) \/ RestockMissing(c)
    <2>1. Quiet
      BY <1>0, <1>4 DEF Decrement, PayRead, PayCheck, CancelPool, CancelMark, Restock,
        RestockMissing, Advance, Refuse, Finish, Goto
    <2> QED
      BY <1>1, <2>1
  <1>5. CASE PlaceOrder(c)
    <2>1. Quiet
      BY <1>0, <1>5 DEF PlaceOrder, Finish, Goto
    <2> QED
      BY <1>1, <2>1
  <1>6. CASE PayInsert(c)
    <2>1. r.payment \in PaymentIds /\ r.order \in OrderIds
      BY <1>0, <1>6 DEF PayInsert, WellShaped
    <2>2. CASE r.kind = "cashSale"
      <3>1. /\ pc'[c] = "captureRead" /\ req'[c] = r
            /\ payOrder'[r.payment] = r.order
            /\ payStatus'[r.payment] = "PROCESSING"
        BY <1>0, <1>6, <2>1, <2>2 DEF PayInsert, AfterPayment, SaleKinds, Goto, TypeOK
      <3>2. \A d \in Clients \ {c} : pc'[d] = pc[d] /\ req'[d] = req[d]
        BY <1>0, OnlyOwn
      <3>3. MoneyStep
        BY EveryMoneyStep
      <3>4. /\ \A o \in OrderIds : orderStatus[o] = "PAID" => orderStatus'[o] = "PAID"
            /\ \A p \in PaymentIds : payStatus[p] # "none" =>
                 payStatus'[p] # "none" /\ payOrder'[p] = payOrder[p]
        BY <1>0, <3>3, MoneyStays
      <3>5. \A d \in Clients : req[d].kind = "cashSale" =>
              req[d].order \in OrderIds /\ req[d].payment \in PaymentIds
        BY <1>0 DEF ClientsOK, WellShaped, SaleKinds
      <3> QED
        BY <3>1, <3>2, <3>4, <3>5 DEF CashInv, CashSaleIsPaid
    <2>3. CASE r.kind # "cashSale"
      <3>1. req'[c].kind # "cashSale"
        BY <1>0, <1>6, <2>3 DEF PayInsert, Finish, NoRequest
      <3> QED
        BY <3>1, CashFrame
    <2> QED
      BY <2>2, <2>3
  <1>7. CASE CaptureRead(c)
    <2>1. CASE payStatus[r.payment] = "CAPTURED" /\ r.kind = "cashSale"
                 /\ Goto(c, "saleRecord") /\ UNCHANGED <<req, held>>
      <3>1. r.payment \in PaymentIds /\ r.order \in OrderIds
        BY <1>0, <2>1 DEF WellShaped, SaleKinds
      <3>2. payOrder[r.payment] = r.order
        BY <1>7, <2>1 DEF CashInv, CaptureRead
      <3>3. orderStatus[r.order] = "PAID"
        BY <2>1, <3>1, <3>2 DEF PaidInv, PaidExactlyOnce
      <3>4. /\ pc'[c] = "saleRecord" /\ req'[c] = r
            /\ orderStatus'[r.order] = "PAID"
        BY <1>0, <1>7, <2>1, <3>3 DEF CaptureRead, Goto, orderVars
      <3> QED
        BY <3>4, CashFrame
    <2>2. CASE Goto(c, "captureMark") /\ UNCHANGED <<req, held>>
      <3>1. pc'[c] = "captureMark" /\ pc[c] = "captureRead" /\ req'[c] = req[c]
        BY <1>0, <1>7, <2>2 DEF CaptureRead, Goto
      <3> QED
        BY <3>1, CashFrame
    <2> QED
      BY <1>2, <1>7, <2>1, <2>2 DEF CaptureRead, Captured
  <1>8. CASE CaptureMark(c)
    <2>1. CASE Advance(c, "captureOrder")
      <3>1. pc'[c] = "captureOrder" /\ pc[c] = "captureMark" /\ req'[c] = req[c]
        BY <1>0, <1>8, <2>1 DEF CaptureMark, Advance, Goto
      <3> QED
        BY <3>1, CashFrame
    <2> QED
      BY <1>2, <1>8, <2>1 DEF CaptureMark, Refuse
  <1>9. CASE CaptureOrder(c)
    <2>1. CASE /\ orderStatus' = [orderStatus EXCEPT ![payOrder[r.payment]] = "PAID"]
               /\ r.kind = "cashSale" /\ Goto(c, "saleRecord") /\ UNCHANGED <<req, held>>
      <3>1. r.order \in OrderIds /\ payOrder[r.payment] = r.order
        BY <1>0, <1>9, <2>1 DEF CaptureOrder, CashInv, WellShaped, SaleKinds
      <3>2. /\ pc'[c] = "saleRecord" /\ req'[c] = r
            /\ orderStatus'[r.order] = "PAID"
        BY <1>0, <2>1, <3>1 DEF Goto, TypeOK
      <3> QED
        BY <3>2, CashFrame
    <2> QED
      BY <1>2, <1>9, <2>1 DEF CaptureOrder, Captured, Refuse
  <1>10. CASE FailMark(c) \/ SaleRecord(c) \/ CancelCommit(c) \/ InsufficientStock(c)
              \/ Rollback(c) \/ AdjustRetry(c)
    BY <1>2, <1>10 DEF FailMark, SaleRecord, CancelCommit, InsufficientStock, Rollback,
      Refuse, AdjustRetry, ApplyDelta
  <1>11. CASE RestockCreate(c) \/ Adjust(c) \/ AdjustFind(c) \/ AdjustCreate(c)
    <2>1. Quiet
      BY <1>0, <1>11 DEF RestockCreate, Adjust, AdjustFind, AdjustCreate, ApplyDelta,
        Advance, Refuse, Finish, Goto
    <2> QED
      BY <1>1, <2>1
  <1> QED
    BY <1>3, <1>4, <1>5, <1>6, <1>7, <1>8, <1>9, <1>10, <1>11 DEF Step

\* createSale writes the PosSale row of a cash sale only for a PAID order,
\* though nothing but the order of its four transactions ties the two.
THEOREM CashSalePaid == Spec => []CashSaleIsPaid
  <1>1. Init => CashInv
    BY DEF Init, CashInv, CashSaleIsPaid, NoRequest
  <1>2. Locks /\ PaidInv /\ CashInv /\ [Next]_vars => CashInv'
    <2>1. CashInv /\ UNCHANGED vars => CashInv'
      BY DEF vars, orderVars, payVars, clientVars, CashInv, CashSaleIsPaid
    <2> QED
      BY <2>1, CashStep DEF Next
  <1>3. CashInv => CashSaleIsPaid
    BY DEF CashInv
  <1> QED
    BY <1>1, <1>2, <1>3, AlwaysPaid, AlwaysLocks, PTL DEF Spec

-----------------------------------------------------------------------------
(* Stock *)

\* The rows open transactions have written: only transactions that write rows
\* hold some, no row is held twice, and a decrement's rows have its units.
HeldInv ==
  /\ \A c \in Clients : pc[c] \notin StockTx => held[c] = {}
  /\ \A c \in Clients : \A d \in Clients \ {c} : \A v \in held[c] \cap held[d] :
       req[c].pool # req[d].pool
  /\ \A c \in Clients : \A v \in held[c] :
       pc[c] = "decrement" => HasUnits(req[c].pool, v, req[c].lines[v])

StockInv == HeldInv /\ NeverOversold

\* c releases what it holds; no row another request holds is changed.
LEMMA HeldReleased ==
  ASSUME Typed, HeldInv, NEW c \in Clients, held'[c] = {},
         \A d \in Clients \ {c} :
           pc'[d] = pc[d] /\ req'[d] = req[d] /\ held'[d] = held[d],
         \A d \in Clients \ {c} : \A v \in held[d] :
           /\ stock'[req[d].pool][v] = stock[req[d].pool][v]
           /\ <<req[d].pool, v>> \in rows => <<req[d].pool, v>> \in rows'
  PROVE  HeldInv'
  BY DEF HeldInv, HasUnits

\* c keeps what it holds, or holds nothing, and no row changes.
LEMMA HeldKept ==
  ASSUME Typed, HeldInv, NEW c \in Clients, held'[c] = held[c], UNCHANGED <<rows, stock>>,
         \A d \in Clients \ {c} :
           pc'[d] = pc[d] /\ req'[d] = req[d] /\ held'[d] = held[d],
         \/ held[c] = {}
         \/ /\ pc'[c] \in StockTx
            /\ req'[c].pool = req[c].pool
            /\ pc'[c] = "decrement" => pc[c] = "decrement" /\ req'[c] = req[c]
  PROVE  HeldInv'
  BY DEF HeldInv, HasUnits

\* c writes one more row, which nobody holds.
LEMMA HeldMore ==
  ASSUME Typed, HeldInv, NEW c \in Clients, NEW v \in Variants, UNCHANGED <<rows, stock>>,
         held'[c] = held[c] \cup {v}, ~RowBusy(c, req[c].pool, v),
         pc'[c] \in StockTx, req'[c].pool = req[c].pool,
         pc'[c] = "decrement" =>
           pc[c] = "decrement" /\ req'[c] = req[c]
             /\ HasUnits(req[c].pool, v, req[c].lines[v]),
         \A d \in Clients \ {c} :
           pc'[d] = pc[d] /\ req'[d] = req[d] /\ held'[d] = held[d]
  PROVE  HeldInv'
  BY DEF HeldInv, HasUnits, RowBusy

\* A pool changes only in rows the request holds: nobody else holds those.
LEMMA OthersUntouched ==
  ASSUME Typed, HeldInv, NEW c \in Clients, NEW pool \in Pools,
         NEW row \in [Variants -> Int], req[c].pool = pool,
         stock' = [stock EXCEPT ![pool] = row],
         \A v \in Variants : v \in held[c] \/ row[v] = stock[pool][v],
         NEW d \in Clients \ {c}, NEW v \in held[d]
  PROVE  stock'[req[d].pool][v] = stock[req[d].pool][v]
  <1>1. /\ v \in Variants /\ req[d].pool \in Pools
        /\ stock \in [Pools -> [Variants -> Int]]
    BY DEF Typed, TypeOK, ClientsOK, Requests
  <1>2. CASE req[d].pool # pool
    BY <1>1, <1>2
  <1>3. CASE req[d].pool = pool
    <2>1. v \notin held[c]
      BY <1>3 DEF HeldInv
    <2>2. stock'[pool] = row
      BY <1>1
    <2> QED
      BY <1>1, <1>3, <2>1, <2>2
  <1> QED
    BY <1>2, <1>3

\* Lines ask for natural numbers of units, and what a commit does to one
\* variant of its pool follows from what it holds.
LEMMA LinesNat ==
  ASSUME Typed, NEW c \in Clients
  PROVE  /\ req[c].pool \in Pools
         /\ \A v \in Variants : req[c].lines[v] \in Nat
  <1>1. req[c].pool \in Pools /\ req[c].lines \in [Variants -> Quantities]
    BY DEF Typed, ClientsOK, Requests, OrderLines
  <1>2. \A f \in [Variants -> Quantities], v \in Variants : f[v] \in Nat
    BY QuantityAssumption
  <1> QED
    BY <1>1, <1>2

LEMMA DeltaInt ==
  ASSUME Typed, NEW c \in Clients, req[c].item \in Variants
  PROVE  req[c].delta \in Int /\ stock[req[c].pool][req[c].item] \in Int
  <1>1. req[c].delta \in Deltas \cup {0} /\ req[c].pool \in Pools
    BY DEF Typed, ClientsOK, Requests
  <1>2. \A d \in Deltas \cup {0} : d \in Int
    BY DeltaAssumption
  <1>3. stock \in [Pools -> [Variants -> Int]]
    BY DEF Typed, TypeOK
  <1> QED
    BY <1>1, <1>2, <1>3

\* The WHERE of a guarded increment leaves no less than zero.
LEMMA HasNeededUnits ==
  ASSUME Typed, NEW c \in Clients, req[c].item \in Variants,
         HasUnits(req[c].pool, req[c].item, -req[c].delta)
  PROVE  /\ <<req[c].pool, req[c].item>> \in rows
         /\ stock[req[c].pool][req[c].item] + req[c].delta >= 0
  BY DeltaInt DEF HasUnits

LEMMA NoRowsChange ==
  ASSUME NeverOversold, UNCHANGED <<rows, stock>> PROVE NeverOversold'
  BY DEF NeverOversold

\* A pool's row of units is replaced: the pool stays sound if its row is.
LEMMA PoolReplaced ==
  ASSUME Typed, NeverOversold, NEW pool \in Pools, NEW row \in [Variants -> Int],
         stock' = [stock EXCEPT ![pool] = row], rows \subseteq rows',
         \A v \in Variants : row[v] >= 0 /\ (row[v] > 0 => <<pool, v>> \in rows')
  PROVE  NeverOversold'
  BY DEF Typed, TypeOK, NeverOversold

LEMMA PlaceStock ==
  ASSUME Typed, StockInv, NEW c \in Clients, PlaceOrder(c)
  PROVE  StockInv'
  <1> DEFINE r == req[c]
             row == [v \in Variants |-> stock[r.pool][v] - r.lines[v]]
  <1>0. /\ r.pool \in Pools /\ \A v \in Variants : r.lines[v] \in Nat
        /\ stock \in [Pools -> [Variants -> Int]] /\ HeldInv /\ NeverOversold
    BY LinesNat DEF StockInv, Typed, TypeOK
  <1>1. row \in [Variants -> Int]
    BY <1>0
  <1>2. stock' = [stock EXCEPT ![r.pool] = row] /\ rows' = rows /\ held'[c] = {}
    BY DEF PlaceOrder, Finish, Typed, TypeOK
  <1>3. \A v \in Variants : v \in held[c] \/ r.lines[v] = 0
    BY <1>0 DEF PlaceOrder, Remaining
  <1>4. \A v \in Variants : v \in held[c] \/ row[v] = stock[r.pool][v]
    BY <1>0, <1>3
  <1>5. \A v \in held[c] : HasUnits(r.pool, v, r.lines[v])
    BY <1>0 DEF HeldInv, PlaceOrder
  <1>6. \A v \in Variants : row[v] >= 0 /\ (row[v] > 0 => <<r.pool, v>> \in rows)
    BY <1>0, <1>3, <1>5 DEF HasUnits, NeverOversold
  <1>7. NeverOversold'
    BY <1>0, <1>1, <1>2, <1>6, PoolReplaced
  <1>8. \A d \in Clients \ {c} :
          pc'[d] = pc[d] /\ req'[d] = req[d] /\ held'[d] = held[d]
    BY OnlyOwn DEF Step
  <1>9. \A d \in Clients \ {c} : \A v \in held[d] :
          stock'[req[d].pool][v] = stock[req[d].pool][v]
    BY <1>0, <1>1, <1>2, <1>4, OthersUntouched
  <1> QED
    BY <1>0, <1>2, <1>7, <1>8, <1>9, HeldReleased DEF StockInv

LEMMA CancelStock ==
  ASSUME Typed, StockInv, NEW c \in Clients, CancelCommit(c)
  PROVE  StockInv'
  <1> DEFINE r == req[c]
             row == [v \in Variants |-> stock[r.pool][v] + r.lines[v]]
  <1>0. /\ r.pool \in Pools /\ \A v \in Variants : r.lines[v] \in Nat
        /\ stock \in [Pools -> [Variants -> Int]] /\ HeldInv /\ NeverOversold
    BY LinesNat DEF StockInv, Typed, TypeOK
  <1>1. row \in [Variants -> Int]
    BY <1>0
  <1>2. /\ stock' = [stock EXCEPT ![r.pool] = row]
        /\ rows' = rows \cup {<<r.pool, v>> : v \in held[c]}
        /\ held'[c] = {}
    BY DEF CancelCommit, Restocked, Finish, Typed, TypeOK
  <1>3. \A v \in Variants : v \in held[c] \/ r.lines[v] = 0
    BY <1>0 DEF CancelCommit, Remaining
  <1>4. \A v \in Variants : v \in held[c] \/ row[v] = stock[r.pool][v]
    BY <1>0, <1>3
  <1>5. \A v \in Variants : row[v] >= 0 /\ (row[v] > 0 => <<r.pool, v>> \in rows')
    BY <1>0, <1>2, <1>3 DEF NeverOversold
  <1>6. NeverOversold'
    BY <1>0, <1>1, <1>2, <1>5, PoolReplaced
  <1>7. \A d \in Clients \ {c} :
          pc'[d] = pc[d] /\ req'[d] = req[d] /\ held'[d] = held[d]
    BY OnlyOwn DEF Step
  <1>8. \A d \in Clients \ {c} : \A v \in held[d] :
          stock'[req[d].pool][v] = stock[req[d].pool][v]
    BY <1>0, <1>1, <1>2, <1>4, OthersUntouched
  <1> QED
    BY <1>0, <1>2, <1>6, <1>7, <1>8, HeldReleased DEF StockInv

\* An adjustment of a row nobody holds, to which it does not do any harm.
LEMMA DeltaStock ==
  ASSUME Typed, StockInv, NEW c \in Clients, Adjust(c) \/ AdjustCreate(c) \/ AdjustRetry(c),
         ApplyDelta(c), ~RowBusy(c, req[c].pool, req[c].item), req[c].item \in Variants,
         rows \subseteq rows', <<req[c].pool, req[c].item>> \in rows',
         stock[req[c].pool][req[c].item] + req[c].delta >= 0
  PROVE  StockInv'
  <1> DEFINE r == req[c]
             row == [stock[r.pool] EXCEPT ![r.item] = @ + r.delta]
  <1>0. /\ r.pool \in Pools /\ r.delta \in Int
        /\ stock \in [Pools -> [Variants -> Int]] /\ HeldInv /\ NeverOversold
    BY DeltaInt, LinesNat DEF StockInv, Typed, TypeOK
  <1>1. row \in [Variants -> Int]
    BY <1>0
  <1>2. stock' = [stock EXCEPT ![r.pool] = row] /\ held'[c] = {}
    BY <1>0 DEF ApplyDelta, Finish, Typed, TypeOK
  <1>3. \A v \in Variants : row[v] >= 0 /\ (row[v] > 0 => <<r.pool, v>> \in rows')
    BY <1>0 DEF NeverOversold
  <1>4. NeverOversold'
    BY <1>0, <1>1, <1>2, <1>3, PoolReplaced
  <1>5. \A d \in Clients \ {c} :
          pc'[d] = pc[d] /\ req'[d] = req[d] /\ held'[d] = held[d]
    BY OnlyOwn DEF Step
  <1>6. ASSUME NEW d \in Clients \ {c}, NEW v \in held[d]
        PROVE  stock'[req[d].pool][v] = stock[req[d].pool][v]
    <2>1. v # r.item \/ req[d].pool # r.pool
      BY DEF RowBusy
    <2>2. v \in Variants /\ req[d].pool \in Pools
      BY DEF Typed, ClientsOK, Requests
    <2> QED
      BY <1>0, <1>2, <2>1, <2>2
  <1> QED
    BY <1>0, <1>2, <1>4, <1>5, <1>6, HeldReleased DEF StockInv

LEMMA StockStep ==
  ASSUME Typed, StockInv, NEW c \in Clients, Start(c) \/ Step(c) \/ Rollback(c)
  PROVE  StockInv'
  <1> DEFINE r == req[c]
             Same == UNCHANGED <<rows, stock>>
  <1>0. /\ HeldInv /\ NeverOversold /\ ClientsOK /\ r \in Requests /\ WellShaped(r, pc[c])
        /\ pc \in [Clients -> Labels] /\ req \in [Clients -> Requests]
        /\ held \in [Clients -> SUBSET Variants]
    BY DEF StockInv, Typed, ClientsOK
  <1>a. \A d \in Clients \ {c} :
          pc'[d] = pc[d] /\ req'[d] = req[d] /\ held'[d] = held[d]
    BY OnlyOwn
  <1>b. ASSUME Same, HeldInv' PROVE StockInv'
    BY <1>0, <1>b, NoRowsChange DEF StockInv
  \* The handler returns or throws.
  <1>1. ASSUME Finish(c), Same PROVE StockInv'
    <2>1. held'[c] = {}
      BY <1>0, <1>1 DEF Finish
    <2> QED
      BY <1>0, <1>1, <1>a, <1>b, <2>1, HeldReleased
  \* A request that holds nothing moves on.
  <1>2. ASSUME held[c] = {}, held'[c] = {}, Same PROVE StockInv'
    BY <1>0, <1>2, <1>a, <1>b, HeldKept
  <1>3. CASE Refuse(c)
    BY <1>1, <1>3 DEF Refuse, stockVars
  <1>4. CASE Start(c)
    <2>1. pc[c] = "idle" /\ UNCHANGED held /\ Same
      BY <1>4 DEF Start, Begin, BeginCheckout, BeginSale, BeginPayment, BeginCapture,
        BeginFail, BeginCancel, BeginAdjust, stockVars
    <2>2. held[c] = {}
      BY <1>0, <2>1 DEF HeldInv, StockTx
    <2> QED
      BY <1>2, <2>1, <2>2
  <1>5. CASE Decrement(c)
    <2>1. PICK v \in Remaining(c) :
            /\ HasUnits(r.pool, v, r.lines[v])
            /\ ~RowBusy(c, r.pool, v)
            /\ held' = [held EXCEPT ![c] = @ \cup {v}]
      BY <1>5 DEF Decrement
    <2>2. /\ v \in Variants /\ held'[c] = held[c] \cup {v} /\ Same
          /\ pc'[c] = "decrement" /\ pc[c] = "decrement" /\ req'[c] = r
      BY <1>0, <1>5, <2>1 DEF Decrement, Remaining, stockVars
    <2>3. HeldInv'
      BY <1>0, <1>a, <2>1, <2>2, HeldMore DEF StockTx
    <2> QED
      BY <1>b, <2>2, <2>3
  <1>6. CASE Restock(c)
    <2>1. PICK v \in Remaining(c) :
            ~RowBusy(c, r.pool, v) /\ held' = [held EXCEPT ![c] = @ \cup {v}]
      BY <1>6 DEF Restock
    <2>2. /\ v \in Variants /\ held'[c] = held[c] \cup {v} /\ Same
          /\ pc'[c] = "restock" /\ req'[c] = r
      BY <1>0, <1>6, <2>1 DEF Restock, Remaining, stockVars
    <2>3. HeldInv'
      BY <1>0, <1>a, <2>1, <2>2, HeldMore DEF StockTx
    <2> QED
      BY <1>b, <2>2, <2>3
  <1>7. CASE RestockMissing(c)
    <2>1. PICK v : req' = [req EXCEPT ![c].item = v]
      BY <1>7 DEF RestockMissing
    <2>2. /\ req'[c].pool = r.pool /\ pc'[c] = "restockCreate"
          /\ held'[c] = held[c] /\ Same
      BY <1>0, <1>7, <2>1 DEF RestockMissing, Goto, Requests, stockVars
    <2>3. HeldInv'
      BY <1>0, <1>a, <2>2, HeldKept DEF StockTx
    <2> QED
      BY <1>b, <2>2, <2>3
  <1>8. CASE RestockCreate(c)
    <2>1. CASE ~Refuse(c)
      <3>1. /\ r.item \in Variants /\ ~RowBusy(c, r.pool, r.item) /\ Same
            /\ pc' = [pc EXCEPT ![c] = "restock"]
            /\ held' = [held EXCEPT ![c] = @ \cup {r.item}]
            /\ req' = [req EXCEPT ![c].item = NoId]
        BY <1>0, <1>8, <2>1 DEF RestockCreate, Goto, WellShaped, stockVars
      <3>2. /\ pc'[c] = "restock" /\ held'[c] = held[c] \cup {r.item}
            /\ req'[c].pool = r.pool
        BY <1>0, <3>1 DEF Requests
      <3>3. HeldInv'
        BY <1>0, <1>a, <3>1, <3>2, HeldMore DEF StockTx
      <3> QED
        BY <1>b, <3>1, <3>3
    <2> QED
      BY <1>3, <2>1
  \* Statements of requests that hold no inventory row.
  <1>9. ASSUME pc[c] \notin StockTx, UNCHANGED held \/ Finish(c), Same PROVE StockInv'
    <2>1. held[c] = {}
      BY <1>0, <1>9 DEF HeldInv
    <2> QED
      BY <1>1, <1>2, <1>9, <2>1
  <1>10. CASE PayRead(c) \/ PayCheck(c) \/ PayInsert(c) \/ SaleRecord(c)
    BY <1>9, <1>10 DEF PayRead, PayCheck, PayInsert, SaleRecord, Advance, Refuse,
      StockTx, stockVars
  <1>11. CASE CaptureRead(c) \/ CaptureMark(c) \/ CaptureOrder(c) \/ FailMark(c)
    BY <1>9, <1>11 DEF CaptureRead, CaptureMark, CaptureOrder, Captured, FailMark,
      Advance, Refuse, StockTx, stockVars
  <1>12. CASE CancelMark(c) \/ CancelPool(c) \/ AdjustFind(c)
    BY <1>9, <1>12 DEF CancelMark, CancelPool, AdjustFind, Advance, Refuse,
      StockTx, stockVars
  <1>13. CASE Adjust(c)
    <2>1. CASE Advance(c, "adjustFind")
      BY <1>9, <1>13, <2>1 DEF Adjust, Advance, StockTx, stockVars
    <2>2. CASE ~Advance(c, "adjustFind")
      <3>1. /\ HasUnits(r.pool, r.item, -r.delta) /\ ~RowBusy(c, r.pool, r.item)
            /\ ApplyDelta(c) /\ rows' = rows /\ r.item \in Variants
        BY <1>0, <1>13, <2>2 DEF Adjust, WellShaped
      <3> QED
        BY <1>13, <3>1, DeltaStock, HasNeededUnits
    <2> QED
      BY <2>1, <2>2
  <1>14. CASE AdjustCreate(c)
    <2>1. CASE Advance(c, "adjustRetry")
      BY <1>9, <1>14, <2>1 DEF AdjustCreate, Advance, StockTx, stockVars
    <2>2. CASE ~Advance(c, "adjustRetry")
      <3>1. /\ <<r.pool, r.item>> \notin rows /\ ~RowBusy(c, r.pool, r.item)
            /\ rows' = rows \cup {<<r.pool, r.item>>}
            /\ ApplyDelta(c) /\ r.item \in Variants /\ r.delta >= 0
        BY <1>0, <1>14, <2>2 DEF AdjustCreate, WellShaped
      <3>2. stock[r.pool][r.item] + r.delta >= 0
        <4>1. r.pool \in Pools /\ r.delta \in Int
          <5>1. req[c].item \in Variants
            BY <3>1
          <5>2. req[c].delta \in Int
            BY <5>1, DeltaInt
          <5> QED
            BY <1>0, <5>2 DEF Requests
        <4>2. stock[r.pool][r.item] \in Int /\ stock[r.pool][r.item] >= 0
          BY <1>0, <3>1, <4>1 DEF NeverOversold, Typed, TypeOK
        <4>3. r.delta >= 0
          BY <3>1
        <4> QED
          BY <4>1, <4>2, <4>3
      <3> QED
        BY <1>14, <3>1, <3>2, DeltaStock
    <2> QED
      BY <2>1, <2>2
  <1>15. CASE AdjustRetry(c)
    <2>1. /\ HasUnits(r.pool, r.item, -r.delta) /\ ~RowBusy(c, r.pool, r.item)
          /\ ApplyDelta(c) /\ rows' = rows /\ r.item \in Variants
      BY <1>0, <1>15 DEF AdjustRetry, WellShaped
    <2> QED
      BY <1>15, <2>1, DeltaStock, HasNeededUnits
  <1> QED
    BY <1>3, <1>4, <1>5, <1>6, <1>7, <1>8, <1>10, <1>11, <1>12, <1>13, <1>14, <1>15,
       PlaceStock, CancelStock
    DEF Step, Rollback, InsufficientStock

LEMMA AlwaysStock == Spec => []StockInv
  <1>1. Init => StockInv
    <2>1. Init => HeldInv
      BY DEF Init, HeldInv
    <2>2. Init => NeverOversold
      BY ConstantTypes DEF Init, NeverOversold
    <2> QED
      BY <2>1, <2>2 DEF StockInv
  <1>2. Typed /\ StockInv /\ [Next]_vars => StockInv'
    <2>1. StockInv /\ UNCHANGED vars => StockInv'
      BY DEF vars, stockVars, clientVars, StockInv, HeldInv, HasUnits, NeverOversold
    <2> QED
      BY <2>1, StockStep DEF Next
  <1> QED
    BY <1>1, <1>2, AlwaysTyped, PTL DEF Spec

\* Guarded decrements and adjustments alone keep every pool at or above zero:
\* the CHECK of the schema never has to refuse a commit.
THEOREM StockNeverOversold == Spec => []NeverOversold
  <1>1. StockInv => NeverOversold
    BY DEF StockInv
  <1> QED
    BY <1>1, AlwaysStock, PTL

-----------------------------------------------------------------------------
(* Units *)

LEMMA RowsFinite ==
  IsFiniteSet(Pools) /\ IsFiniteSet(OrderIds) /\ IsFiniteSet(PaymentIds)
  BY RowsAssumption, FS_AddElement DEF Pools

\* The lines of a placed order stay.
LEMMA LinesStay ==
  ASSUME TypeOK, MoneyStep, NEW o \in OrderIds, orderStatus[o] # "none"
  PROVE  orderLines'[o] = orderLines[o]
  <1> USE DEF TypeOK
  <1>1. ASSUME NEW x \in OrderIds, NEW lines, Places(x, lines)
        PROVE  orderLines'[o] = orderLines[o]
    <2>1. x # o
      BY <1>1 DEF Places
    <2> QED
      BY <1>1, <2>1 DEF Places
  <1> QED
    BY <1>1 DEF MoneyStep, PayStep, Captures, Fails, Inserts, Cancels

\* What every request does when it begins.
LEMMA Starts ==
  ASSUME NEW c \in Clients, Start(c)
  PROVE  /\ UNCHANGED stockVars
         /\ \E label \in {"decrement", "payRead", "captureRead", "failMark",
                          "cancelMark", "adjust"} : Goto(c, label)
  <1>1. CASE BeginCheckout(c) \/ BeginSale(c)
    <2>1. PICK r : Begin(c, "decrement", r)
      BY <1>1, Zenon DEF BeginCheckout, BeginSale
    <2> QED
      BY <2>1 DEF Begin
  <1>2. CASE BeginPayment(c) \/ BeginCapture(c) \/ BeginFail(c)
    BY <1>2 DEF BeginPayment, BeginCapture, BeginFail, Begin
  <1>3. CASE BeginCancel(c) \/ BeginAdjust(c)
    BY <1>3 DEF BeginCancel, BeginAdjust, Begin
  <1> QED
    BY <1>1, <1>2, <1>3 DEF Start

\* An open cancellation gives back the lines of its order, which it read under
\* the order's lock.
CancelLines ==
  \A c \in Clients : pc[c] \in {"restock", "restockCreate"} =>
    req[c].lines = orderLines[req[c].order]

LEMMA CancelLinesStep ==
  ASSUME Locks, CancelLines, NEW c \in Clients, Start(c) \/ Step(c) \/ Rollback(c)
  PROVE  CancelLines'
  <1> DEFINE r == req[c]
             Quiet == pc'[c] \notin {"restock", "restockCreate"}
  <1>0. /\ TypeOK /\ ClientsOK /\ Typed /\ OrderLocks /\ r \in Requests
        /\ WellShaped(r, pc[c])
        /\ pc \in [Clients -> Labels] /\ req \in [Clients -> Requests]
    BY DEF Locks, Typed, ClientsOK
  <1>a. \A d \in Clients : pc[d] \in CancelTx =>
          req[d].order \in OrderIds /\ orderLines'[req[d].order] = orderLines[req[d].order]
    <2>1. MoneyStep
      BY EveryMoneyStep
    <2>2. \A d \in Clients : pc[d] \in CancelTx =>
            req[d].order \in OrderIds /\ orderStatus[req[d].order] = "PENDING"
      BY <1>0 DEF ClientsOK, WellShaped, OrderLocks
    <2> QED
      BY <1>0, <2>1, <2>2, LinesStay
  <1>b. \A d \in Clients \ {c} : pc'[d] = pc[d] /\ req'[d] = req[d]
    BY <1>0, OnlyOwn
  <1>c. ASSUME Quiet \/ req'[c].lines = orderLines'[req'[c].order] PROVE CancelLines'
    BY <1>a, <1>b, <1>c DEF CancelLines, CancelTx
  <1>d. ASSUME pc[c] \in {"restock", "restockCreate"},
               req'[c].lines = r.lines, req'[c].order = r.order
        PROVE  CancelLines'
    BY <1>a, <1>c, <1>d DEF CancelLines, CancelTx
  <1>1. CASE Finish(c)
    BY <1>0, <1>1, <1>c DEF Finish, Goto
  <1>2. CASE Start(c)
    <2>1. Quiet
      BY <1>0, <1>2, Starts DEF Goto
    <2> QED
      BY <1>c, <2>1
  <1>3. CASE Decrement(c) \/ PlaceOrder(c) \/ PayRead(c) \/ PayCheck(c) \/ CancelMark(c)
    <2>1. Quiet
      BY <1>0, <1>3 DEF Decrement, PlaceOrder, PayRead, PayCheck, CancelMark, Advance,
        Refuse, Finish, Goto
    <2> QED
      BY <1>c, <2>1
  <1>4. CASE PayInsert(c) \/ CaptureRead(c) \/ CaptureMark(c) \/ CaptureOrder(c)
    <2>1. Quiet
      BY <1>0, <1>4 DEF PayInsert, AfterPayment, CaptureRead, CaptureMark, CaptureOrder,
        Captured, Advance, Refuse, Finish, Goto
    <2> QED
      BY <1>c, <2>1
  <1>5. CASE CancelPool(c)
    <2>1. /\ req'[c].lines = orderLines[r.order] /\ req'[c].order = r.order
          /\ orderLines' = orderLines
      BY <1>0, <1>5 DEF CancelPool, Requests, orderVars
    <2> QED
      BY <1>c, <2>1
  <1>6. CASE Restock(c)
    BY <1>6, <1>d DEF Restock
  <1>7. CASE RestockMissing(c)
    <2>1. PICK v : req' = [req EXCEPT ![c].item = v]
      BY <1>7 DEF RestockMissing
    <2>2. req'[c].lines = r.lines /\ req'[c].order = r.order
      BY <1>0, <2>1 DEF Requests
    <2> QED
      BY <1>7, <1>d, <2>2 DEF RestockMissing
  <1>8. CASE RestockCreate(c)
    <2>1. CASE req' = [req EXCEPT ![c].item = NoId]
      <3>1. req'[c].lines = r.lines /\ req'[c].order = r.order
        BY <1>0, <2>1 DEF Requests
      <3> QED
        BY <1>8, <1>d, <3>1 DEF RestockCreate
    <2> QED
      BY <1>1, <1>8, <2>1 DEF RestockCreate, Refuse
  <1>9. CASE Adjust(c) \/ AdjustFind(c) \/ AdjustCreate(c)
    <2>1. Quiet
      BY <1>0, <1>9 DEF Adjust, AdjustFind, AdjustCreate, ApplyDelta, Advance, Refuse,
        Finish, Goto
    <2> QED
      BY <1>c, <2>1
  <1>10. CASE FailMark(c) \/ SaleRecord(c) \/ CancelCommit(c) \/ InsufficientStock(c)
              \/ Rollback(c) \/ AdjustRetry(c)
    BY <1>1, <1>10 DEF FailMark, SaleRecord, CancelCommit, InsufficientStock, Rollback,
      Refuse, AdjustRetry, ApplyDelta
  <1> QED
    BY <1>2, <1>3, <1>4, <1>5, <1>6, <1>7, <1>8, <1>9, <1>10 DEF Step

\* What a step does to the units of pools and orders.
Takes(o, pool) ==
  /\ Places(o, orderLines'[o])
  /\ orderLines'[o] \in OrderLines
  /\ \A v \in Variants : orderLines'[o][v] <= stock[pool][v]
  /\ stock' = [stock EXCEPT ![pool] =
                 [v \in Variants |-> stock[pool][v] - orderLines'[o][v]]]
  /\ UNCHANGED supplied

GivesBack(o, pool) ==
  /\ Cancels(o)
  /\ stock' = [stock EXCEPT ![pool] =
                 [v \in Variants |-> stock[pool][v] + orderLines[o][v]]]
  /\ UNCHANGED supplied

Adjusts(pool, v, d) ==
  /\ stock' = [stock EXCEPT ![pool][v] = @ + d]
  /\ supplied' = [supplied EXCEPT ![pool][v] = @ + d]
  /\ UNCHANGED <<orderStatus, orderLines, payStatus, payOrder>>

UnitStep ==
  \/ PayStep /\ UNCHANGED <<stock, supplied>>
  \/ \E o \in OrderIds, pool \in Pools : Takes(o, pool) \/ GivesBack(o, pool)
  \/ \E pool \in Pools, v \in Variants, d \in Int : Adjusts(pool, v, d)

\* Only a placement, a cancellation and an adjustment write inventory.
LEMMA EveryStockStep ==
  ASSUME Typed, NEW c \in Clients, Start(c) \/ Step(c) \/ Rollback(c)
  PROVE  \/ UNCHANGED <<stock, supplied>>
         \/ PlaceOrder(c) \/ CancelCommit(c)
         \/ req[c].item \in Variants /\ ApplyDelta(c)
  <1>0. WellShaped(req[c], pc[c])
    BY DEF Typed, ClientsOK
  <1>1. CASE Start(c)
    BY <1>1, Starts DEF stockVars
  <1> USE DEF Refuse, Advance, stockVars
  <1>2. CASE Rollback(c) \/ Decrement(c) \/ InsufficientStock(c) \/ PayRead(c)
             \/ PayCheck(c) \/ PayInsert(c) \/ CaptureRead(c) \/ CaptureMark(c)
    BY <1>2 DEF Rollback, Decrement, InsufficientStock, PayRead, PayCheck, PayInsert,
      CaptureRead, CaptureMark
  <1>3. CASE CaptureOrder(c) \/ FailMark(c) \/ SaleRecord(c) \/ CancelMark(c)
             \/ CancelPool(c) \/ Restock(c) \/ RestockMissing(c) \/ RestockCreate(c)
             \/ AdjustFind(c)
    BY <1>3 DEF CaptureOrder, FailMark, SaleRecord, CancelMark, CancelPool, Restock,
      RestockMissing, RestockCreate, AdjustFind
  <1>4. CASE Adjust(c) \/ AdjustCreate(c) \/ AdjustRetry(c)
    BY <1>0, <1>4 DEF Adjust, AdjustCreate, AdjustRetry, WellShaped
  <1> QED
    BY <1>1, <1>2, <1>3, <1>4 DEF Step

LEMMA EveryUnitStep ==
  ASSUME Locks, StockInv, CancelLines, NEW c \in Clients, Start(c) \/ Step(c) \/ Rollback(c)
  PROVE  UnitStep
  <1> DEFINE r == req[c]
  <1>0. /\ Typed /\ TypeOK /\ WellShaped(r, pc[c]) /\ OrderLocks /\ r \in Requests
        /\ r.pool \in Pools /\ \A v \in Variants : r.lines[v] \in Nat
        /\ HeldInv /\ NeverOversold
    BY LinesNat DEF Locks, Typed, ClientsOK, StockInv
  <1>1. CASE PlaceOrder(c)
    <2>1. r.order \in OrderIds
      BY <1>0, <1>1 DEF PlaceOrder, WellShaped
    <2>2. orderLines'[r.order] = r.lines /\ r.lines \in OrderLines
      BY <1>0, <1>1, <2>1 DEF PlaceOrder, TypeOK, Requests
    <2>3. Places(r.order, orderLines'[r.order])
      BY <1>1, <2>2 DEF PlaceOrder, Places, payVars
    <2>4. \A v \in Variants : r.lines[v] <= stock[r.pool][v]
      <3>1. \A v \in Variants : v \in held[c] \/ r.lines[v] = 0
        BY <1>0, <1>1 DEF PlaceOrder, Remaining
      <3>2. \A v \in held[c] : r.lines[v] <= stock[r.pool][v]
        <4>1. \A v \in held[c] : HasUnits(r.pool, v, r.lines[v])
          BY <1>0, <1>1 DEF HeldInv, PlaceOrder
        <4>2. held[c] \subseteq Variants /\ stock \in [Pools -> [Variants -> Int]]
          BY <1>0 DEF TypeOK
        <4> QED
          BY <1>0, <4>1, <4>2 DEF HasUnits
      <3>3. \A v \in Variants : 0 <= stock[r.pool][v]
        BY <1>0 DEF NeverOversold, TypeOK
      <3> QED
        BY <3>1, <3>2, <3>3
    <2>5. Takes(r.order, r.pool)
      BY <1>1, <2>2, <2>3, <2>4 DEF PlaceOrder, Takes
    <2> QED
      BY <1>0, <2>1, <2>5 DEF UnitStep
  <1>2. CASE CancelCommit(c)
    <2>1. r.order \in OrderIds /\ orderStatus[r.order] = "PENDING"
      BY <1>0, <1>2 DEF CancelCommit, WellShaped, OrderLocks, CancelTx
    <2>2. Cancels(r.order)
      BY <1>2, <2>1 DEF CancelCommit, Cancels, payVars
    <2>3. r.lines = orderLines[r.order]
      BY <1>2 DEF CancelCommit, CancelLines
    <2>4. GivesBack(r.order, r.pool)
      BY <1>2, <2>2, <2>3 DEF CancelCommit, Restocked, GivesBack
    <2> QED
      BY <1>0, <2>1, <2>4 DEF UnitStep
  <1>3. CASE r.item \in Variants /\ ApplyDelta(c)
    <2>1. r.delta \in Int
      BY <1>0, <1>3, DeltaInt
    <2>2. Adjusts(r.pool, r.item, r.delta)
      BY <1>3 DEF ApplyDelta, Adjusts, orderVars, payVars
    <2> QED
      BY <1>0, <1>3, <2>1, <2>2 DEF UnitStep
  <1> QED
    BY <1>0, <1>1, <1>2, <1>3, EveryPayStep, EveryStockStep DEF UnitStep

\* The units of v in all pools, and in the orders of A, of given tables.
InPools(t, v) == SumFunctionOnSet([p \in Pools |-> t[p][v]], Pools)
InOrders(A, t, v) == SumFunctionOnSet([o \in A |-> t[o][v]], A)

LEMMA OnHandIs == \A v : OnHand(v) = InPools(stock, v)
  BY DEF OnHand, InPools, SumFunction

LEMMA LinesAreNat == \A lines \in OrderLines, v \in Variants : lines[v] \in Nat
  BY QuantityAssumption DEF OrderLines

\* Two tables of pools that differ in one row.
OnlyAt(t, u, pool, v) ==
  /\ \A p \in Pools : t[p][v] \in Int /\ u[p][v] \in Int
  /\ \A p \in Pools \ {pool} : t[p][v] = u[p][v]

LEMMA OnePoolChanges ==
  \A t, u, v : \A pool \in Pools : OnlyAt(t, u, pool, v) =>
    /\ InPools(t, v) \in Int
    /\ InPools(u, v) = InPools(t, v) - t[pool][v] + u[pool][v]
  <1> SUFFICES ASSUME NEW t, NEW u, NEW v, NEW pool \in Pools, OnlyAt(t, u, pool, v)
               PROVE  /\ InPools(t, v) \in Int
                      /\ InPools(u, v) = InPools(t, v) - t[pool][v] + u[pool][v]
    OBVIOUS
  <1> DEFINE f == [p \in Pools |-> t[p][v]]
             g == [p \in Pools |-> u[p][v]]
  <1>1. \A p \in Pools : f[p] \in Int /\ g[p] \in Int
    BY DEF OnlyAt
  <1>2. \A p \in Pools \ {pool} : f[p] = g[p]
    BY DEF OnlyAt
  <1>3. f[pool] = t[pool][v] /\ g[pool] = u[pool][v]
    OBVIOUS
  <1>4. InPools(t, v) = SumFunctionOnSet(f, Pools) /\ InPools(u, v) = SumFunctionOnSet(g, Pools)
    BY DEF InPools
  <1> HIDE DEF f, g
  <1>5. SumFunctionOnSet(f, Pools) \in Int
    BY <1>1, RowsFinite, SumStep
  <1>6. SumFunctionOnSet(g, Pools) = SumFunctionOnSet(f, Pools) - f[pool] + g[pool]
    BY <1>1, <1>2, RowsFinite, SumChange
  <1> QED
    BY <1>3, <1>4, <1>5, <1>6

\* Two tables of orders and one order more that counts in the second.
OneMore(A, o, t, u, v) ==
  /\ A \in SUBSET OrderIds /\ o \in OrderIds \ A
  /\ \A x \in A : t[x][v] \in Int /\ u[x][v] = t[x][v]
  /\ u[o][v] \in Int

LEMMA OneOrderMore ==
  \A A, o, t, u, v : OneMore(A, o, t, u, v) =>
    /\ InOrders(A, t, v) \in Int
    /\ InOrders(A \cup {o}, u, v) = InOrders(A, t, v) + u[o][v]
  <1> SUFFICES ASSUME NEW A, NEW o, NEW t, NEW u, NEW v, OneMore(A, o, t, u, v)
               PROVE  /\ InOrders(A, t, v) \in Int
                      /\ InOrders(A \cup {o}, u, v) = InOrders(A, t, v) + u[o][v]
    OBVIOUS
  <1> DEFINE f == [x \in A |-> t[x][v]]
             g == [x \in A \cup {o} |-> u[x][v]]
  <1>1. \A x \in A : f[x] \in Int
    BY DEF OneMore
  <1>2. \A x \in A \cup {o} : g[x] \in Int
    BY DEF OneMore
  <1>3. \A x \in A : g[x] = f[x]
    BY DEF OneMore
  <1>4. g[o] = u[o][v]
    OBVIOUS
  <1>5. IsFiniteSet(A) /\ o \notin A
    BY RowsFinite, FS_Subset DEF OneMore
  <1>6. /\ InOrders(A, t, v) = SumFunctionOnSet(f, A)
        /\ InOrders(A \cup {o}, u, v) = SumFunctionOnSet(g, A \cup {o})
    BY DEF InOrders
  <1> HIDE DEF f, g
  <1>7. SumFunctionOnSet(g, A \cup {o}) = SumFunctionOnSet(g, A) + g[o]
    BY <1>2, <1>5, SumGrows
  <1>8. SumFunctionOnSet(g, A) = SumFunctionOnSet(f, A)
    BY <1>3, <1>5, SumEqual
  <1>9. SumFunctionOnSet(f, A) \in Int
    BY <1>1, <1>5, SumStep
  <1> QED
    BY <1>4, <1>6, <1>7, <1>8, <1>9

\* Units of v in pools, in live orders, and brought in.
Balanced(v) == InPools(stock, v) + InOrders(LiveOrders, orderLines, v) = InPools(supplied, v)

LEMMA ConservedIsBalanced == UnitsConserved <=> \A v \in Variants : Balanced(v)
  BY DEF UnitsConserved, Balanced, OnHand, InPools, InOrders, SumFunction

\* Payments leave an order live.
LEMMA PayKeepsLive ==
  ASSUME TypeOK, PayStep PROVE LiveOrders' = LiveOrders /\ orderLines' = orderLines
  BY DEF TypeOK, PayStep, Captures, Fails, Inserts, LiveOrders

\* What a placement moves from a pool to an order, and a cancellation back.
LEMMA TakesPools ==
  ASSUME TypeOK, TypeOK', NEW o \in OrderIds, NEW pool \in Pools, Takes(o, pool),
         NEW v \in Variants
  PROVE  /\ InPools(stock, v) \in Int /\ orderLines'[o][v] \in Int
         /\ InPools(stock', v) = InPools(stock, v) - orderLines'[o][v]
  <1> DEFINE n == orderLines'[o][v]
  <1>1. n \in Int
    BY LinesAreNat DEF TypeOK
  <1>2. /\ \A p \in Pools : stock[p][v] \in Int /\ stock'[p][v] \in Int
        /\ \A p \in Pools \ {pool} : stock'[p][v] = stock[p][v]
        /\ stock'[pool][v] = stock[pool][v] - n
    BY DEF TypeOK, Takes
  <1>3. InPools(stock, v) \in Int /\ InPools(stock', v) = InPools(stock, v) - n
    <2>1. OnlyAt(stock, stock', pool, v)
      BY <1>2 DEF OnlyAt
    <2>2. /\ InPools(stock, v) \in Int
          /\ InPools(stock', v) = InPools(stock, v) - stock[pool][v] + stock'[pool][v]
      BY ONLY <2>1, OnePoolChanges
    <2> QED
      BY <1>1, <1>2, <2>2
  <1> QED
    BY <1>1, <1>3

LEMMA TakesBalanced ==
  ASSUME TypeOK, TypeOK', NEW o \in OrderIds, NEW pool \in Pools, Takes(o, pool),
         NEW v \in Variants, Balanced(v)
  PROVE  Balanced(v)'
  <1> DEFINE n == orderLines'[o][v]
  <1>1. n \in Int /\ \A x \in OrderIds : orderLines[x][v] \in Int
    BY LinesAreNat DEF TypeOK
  <1>2. InPools(stock, v) \in Int /\ InPools(stock', v) = InPools(stock, v) - n
    BY TakesPools
  <1>3. /\ LiveOrders \subseteq OrderIds /\ o \notin LiveOrders
        /\ LiveOrders' = LiveOrders \cup {o}
    BY DEF Takes, Places, LiveOrders, TypeOK
  <1>4. \A x \in LiveOrders : orderLines'[x] = orderLines[x]
    BY <1>3 DEF Takes, Places, TypeOK
  <1>5. /\ InOrders(LiveOrders, orderLines, v) \in Int
        /\ InOrders(LiveOrders \cup {o}, orderLines', v)
             = InOrders(LiveOrders, orderLines, v) + n
    <2>1. OneMore(LiveOrders, o, orderLines, orderLines', v)
      BY <1>1, <1>3, <1>4 DEF OneMore
    <2> QED
      BY ONLY <2>1, OneOrderMore
  <1>6. InPools(supplied', v) = InPools(supplied, v)
    BY DEF Takes
  <1> HIDE DEF n
  <1>7. InPools(stock', v) + InOrders(LiveOrders', orderLines', v) = InPools(supplied', v)
    BY <1>1, <1>2, <1>3, <1>5, <1>6 DEF Balanced
  <1> QED
    BY <1>7 DEF Balanced, InPools, InOrders

LEMMA GivesBackPools ==
  ASSUME TypeOK, TypeOK', NEW o \in OrderIds, NEW pool \in Pools, GivesBack(o, pool),
         NEW v \in Variants
  PROVE  /\ InPools(stock, v) \in Int /\ orderLines[o][v] \in Int
         /\ InPools(stock', v) = InPools(stock, v) + orderLines[o][v]
  <1> DEFINE n == orderLines[o][v]
  <1>1. n \in Int
    BY LinesAreNat DEF TypeOK
  <1>2. /\ \A p \in Pools : stock[p][v] \in Int /\ stock'[p][v] \in Int
        /\ \A p \in Pools \ {pool} : stock'[p][v] = stock[p][v]
        /\ stock'[pool][v] = stock[pool][v] + n
    BY DEF TypeOK, GivesBack
  <1>3. InPools(stock, v) \in Int /\ InPools(stock', v) = InPools(stock, v) + n
    <2>1. OnlyAt(stock, stock', pool, v)
      BY <1>2 DEF OnlyAt
    <2>2. /\ InPools(stock, v) \in Int
          /\ InPools(stock', v) = InPools(stock, v) - stock[pool][v] + stock'[pool][v]
      BY ONLY <2>1, OnePoolChanges
    <2> QED
      BY <1>1, <1>2, <2>2
  <1> QED
    BY <1>1, <1>3

LEMMA GivesBackBalanced ==
  ASSUME TypeOK, TypeOK', NEW o \in OrderIds, NEW pool \in Pools, GivesBack(o, pool),
         NEW v \in Variants, Balanced(v)
  PROVE  Balanced(v)'
  <1> DEFINE n == orderLines[o][v]
  <1>1. n \in Int /\ \A x \in OrderIds : orderLines[x][v] \in Int
    BY LinesAreNat DEF TypeOK
  <1>2. InPools(stock, v) \in Int /\ InPools(stock', v) = InPools(stock, v) + n
    BY GivesBackPools
  <1>3. /\ LiveOrders' \subseteq OrderIds /\ o \notin LiveOrders'
        /\ LiveOrders = LiveOrders' \cup {o} /\ orderLines' = orderLines
    BY DEF GivesBack, Cancels, LiveOrders, TypeOK
  <1>4. /\ InOrders(LiveOrders', orderLines, v) \in Int
        /\ InOrders(LiveOrders' \cup {o}, orderLines, v)
             = InOrders(LiveOrders', orderLines, v) + n
    <2>1. OneMore(LiveOrders', o, orderLines, orderLines, v)
      BY <1>1, <1>3 DEF OneMore
    <2> QED
      BY ONLY <2>1, OneOrderMore
  <1>5. InPools(supplied', v) = InPools(supplied, v)
    BY DEF GivesBack
  <1> HIDE DEF n
  <1>6. InPools(stock', v) + InOrders(LiveOrders', orderLines', v) = InPools(supplied', v)
    BY <1>1, <1>2, <1>3, <1>4, <1>5 DEF Balanced
  <1> QED
    BY <1>6 DEF Balanced, InPools, InOrders

LEMMA LiveAreInt ==
  ASSUME TypeOK, NEW v \in Variants PROVE InOrders(LiveOrders, orderLines, v) \in Int
  <1> DEFINE f == [o \in LiveOrders |-> orderLines[o][v]]
  <1>1. IsFiniteSet(LiveOrders)
    BY RowsFinite, FS_Subset DEF LiveOrders
  <1>2. \A o \in LiveOrders : f[o] \in Int
    BY LinesAreNat DEF LiveOrders, TypeOK
  <1>3. InOrders(LiveOrders, orderLines, v) = SumFunctionOnSet(f, LiveOrders)
    BY DEF InOrders
  <1> HIDE DEF f
  <1> QED
    BY <1>1, <1>2, <1>3, SumStep

LEMMA AdjustsBalanced ==
  ASSUME TypeOK, TypeOK', NEW pool \in Pools, NEW w \in Variants, NEW d \in Int,
         Adjusts(pool, w, d), NEW v \in Variants, Balanced(v)
  PROVE  Balanced(v)'
  <1> DEFINE e == IF v = w THEN d ELSE 0
  <1>1. /\ \A p \in Pools : stock[p][v] \in Int /\ stock'[p][v] \in Int
        /\ \A p \in Pools \ {pool} : stock'[p][v] = stock[p][v]
        /\ stock'[pool][v] = stock[pool][v] + e
    BY DEF TypeOK, Adjusts
  <1>2. /\ \A p \in Pools : supplied[p][v] \in Int /\ supplied'[p][v] \in Int
        /\ \A p \in Pools \ {pool} : supplied'[p][v] = supplied[p][v]
        /\ supplied'[pool][v] = supplied[pool][v] + e
    BY DEF TypeOK, Adjusts
  <1>3. e \in Int
    OBVIOUS
  <1> HIDE DEF e
  <1>4. InPools(stock, v) \in Int /\ InPools(stock', v) = InPools(stock, v) + e
    <2>1. OnlyAt(stock, stock', pool, v)
      BY <1>1 DEF OnlyAt
    <2>2. /\ InPools(stock, v) \in Int
          /\ InPools(stock', v) = InPools(stock, v) - stock[pool][v] + stock'[pool][v]
      BY ONLY <2>1, OnePoolChanges
    <2> QED
      BY <1>1, <1>3, <2>2
  <1>5. InPools(supplied, v) \in Int /\ InPools(supplied', v) = InPools(supplied, v) + e
    <2>1. OnlyAt(supplied, supplied', pool, v)
      BY <1>2 DEF OnlyAt
    <2>2. /\ InPools(supplied, v) \in Int
          /\ InPools(supplied', v) = InPools(supplied, v) - supplied[pool][v]
                                        + supplied'[pool][v]
      BY ONLY <2>1, OnePoolChanges
    <2> QED
      BY <1>2, <1>3, <2>2
  <1>6. InOrders(LiveOrders', orderLines', v) = InOrders(LiveOrders, orderLines, v)
    BY DEF Adjusts, LiveOrders
  <1>7. InPools(stock', v) + InOrders(LiveOrders', orderLines', v) = InPools(supplied', v)
    BY <1>3, <1>4, <1>5, <1>6, LiveAreInt DEF Balanced
  <1> QED
    BY <1>7 DEF Balanced, InPools, InOrders

LEMMA UnitStepConserves ==
  ASSUME TypeOK, TypeOK', UnitStep, UnitsConserved PROVE UnitsConserved'
  <1> SUFFICES ASSUME NEW v \in Variants PROVE Balanced(v)'
    BY ConservedIsBalanced DEF UnitsConserved, Balanced, OnHand, InPools, InOrders, SumFunction
  <1>1. Balanced(v)
    BY ConservedIsBalanced
  <1>2. CASE PayStep /\ UNCHANGED <<stock, supplied>>
    BY <1>1, <1>2, PayKeepsLive DEF Balanced, InPools, InOrders
  <1> QED
    BY <1>1, <1>2, TakesBalanced, GivesBackBalanced, AdjustsBalanced DEF UnitStep

\* Everything the units rest on.
UnitsInv == Locks /\ PaidInv /\ StockInv /\ CancelLines

LEMMA NextIsUnitStep == UnitsInv /\ [Next]_vars => UnitStep
  <1>1. ASSUME UNCHANGED vars PROVE UnitStep
    BY <1>1 DEF vars, orderVars, payVars, stockVars, UnitStep, PayStep
  <1> QED
    BY <1>1, EveryUnitStep DEF Next, UnitsInv

LEMMA AlwaysCancelLines == Spec => []CancelLines
  <1>1. Init => CancelLines
    BY DEF Init, CancelLines
  <1>2. Locks /\ CancelLines /\ [Next]_vars => CancelLines'
    <2>1. CancelLines /\ UNCHANGED vars => CancelLines'
      BY DEF vars, orderVars, clientVars, CancelLines
    <2> QED
      BY <2>1, CancelLinesStep DEF Next
  <1> QED
    BY <1>1, <1>2, AlwaysLocks, PTL DEF Spec

LEMMA AlwaysUnits == Spec => []UnitsInv
  BY AlwaysLocks, AlwaysPaid, AlwaysStock, AlwaysCancelLines, PTL DEF UnitsInv

\* Whichever requests race and wherever they roll back, every unit adjustments
\* brought in is on hand or in an order that was not cancelled.
THEOREM NoUnitLost == Spec => []UnitsConserved
  <1>1. Init => UnitsConserved
    <2> SUFFICES ASSUME Init, NEW v \in Variants PROVE Balanced(v)
      BY ConservedIsBalanced
    <2>1. LiveOrders = {}
      BY DEF Init, LiveOrders
    <2>2. InOrders(LiveOrders, orderLines, v) = 0
      BY <2>1, SumEmpty DEF InOrders
    <2>3. stock = supplied /\ stock \in [Pools -> [Variants -> Int]]
      BY ConstantTypes DEF Init
    <2>4. InPools(stock, v) \in Int
      <3>1. OnlyAt(stock, stock, Global, v)
        BY <2>3 DEF OnlyAt
      <3> QED
        BY ONLY <3>1, ConstantTypes, OnePoolChanges
    <2> QED
      BY <2>2, <2>3, <2>4 DEF Balanced
  <1>2. UnitsInv /\ UnitsInv' /\ UnitsConserved /\ [Next]_vars => UnitsConserved'
    <2>1. UnitsInv => TypeOK
      BY DEF UnitsInv, Locks, Typed
    <2>2. UnitsInv' => TypeOK'
      BY DEF UnitsInv, Locks, Typed
    <2> QED
      BY <2>1, <2>2, NextIsUnitStep, UnitStepConserves
  <1> QED
    BY <1>1, <1>2, AlwaysUnits, PTL DEF Spec

-----------------------------------------------------------------------------
(* Orders implements Ledger *)

LEMMA OnHandNat ==
  ASSUME NEW t \in [Pools -> [Variants -> Int]], NEW v \in Variants,
         \A p \in Pools : t[p][v] >= 0
  PROVE  InPools(t, v) \in Nat /\ \A p \in Pools : t[p][v] <= InPools(t, v)
  <1> DEFINE f == [p \in Pools |-> t[p][v]]
  <1>1. \A p \in Pools : f[p] \in Nat /\ f[p] = t[p][v]
    OBVIOUS
  <1>2. InPools(t, v) = SumFunctionOnSet(f, Pools)
    BY DEF InPools
  <1> HIDE DEF f
  <1>3. SumFunctionOnSet(f, Pools) \in Nat /\ \A p \in Pools : f[p] <= SumFunctionOnSet(f, Pools)
    BY <1>1, RowsFinite, SumNatural
  <1> QED
    BY <1>1, <1>2, <1>3

LEMMA InitImplements == Init => L!Init
  <1> SUFFICES ASSUME Init PROVE L!Init
    OBVIOUS
  <1>1. [o \in OrderIds |-> Receipts(o)] = [o \in OrderIds |-> 0]
    <2>1. \A o \in OrderIds :
            {p \in PaymentIds : payStatus[p] = "CAPTURED" /\ payOrder[p] = o} = {}
      BY DEF Init
    <2> QED
      BY <2>1, FS_EmptySet DEF Receipts
  <1>2. ASSUME NEW v \in Variants PROVE OnHand(v) \in Nat
    <2>1. stock \in [Pools -> [Variants -> Int]] /\ \A p \in Pools : stock[p][v] >= 0
      BY ConstantTypes DEF Init
    <2>2. InPools(stock, v) \in Nat
      BY <2>1, OnHandNat
    <2> QED
      BY <2>2, OnHandIs
  <1>3. orderStatus = [o \in OrderIds |-> "none"] /\ orderLines = [o \in OrderIds |-> L!None]
    BY DEF Init, NoLines, L!None
  <1> QED
    BY <1>1, <1>2, <1>3 DEF L!Init

\* A table of payments that captures the same ones gives the same receipts.
LEMMA SameReceipts ==
  ASSUME \A p \in PaymentIds : \A o \in OrderIds :
           payStatus'[p] = "CAPTURED" /\ payOrder'[p] = o
             <=> payStatus[p] = "CAPTURED" /\ payOrder[p] = o
  PROVE  \A o \in OrderIds : Receipts(o)' = Receipts(o)
  <1> TAKE o \in OrderIds
  <1>1. {p \in PaymentIds : payStatus'[p] = "CAPTURED" /\ payOrder'[p] = o}
          = {p \in PaymentIds : payStatus[p] = "CAPTURED" /\ payOrder[p] = o}
    OBVIOUS
  <1> QED
    BY <1>1 DEF Receipts

LEMMA CapturedReceipts ==
  ASSUME TypeOK, PaidInv, NEW p \in PaymentIds, Captures(p)
  PROVE  /\ payOrder[p] \in OrderIds
         /\ \A o \in OrderIds : Receipts(o)' = IF o = payOrder[p] THEN 1 ELSE Receipts(o)
  <1>1. payOrder[p] \in OrderIds
    BY DEF Captures, PaidInv, Owned
  <1>2. /\ payStatus' = [payStatus EXCEPT ![p] = "CAPTURED"] /\ payOrder' = payOrder
        /\ payStatus[p] = "PROCESSING" /\ orderStatus[payOrder[p]] = "PENDING"
        /\ payStatus \in [PaymentIds -> {"none", "PROCESSING", "CAPTURED", "FAILED"}]
    BY DEF Captures, TypeOK
  <1>3. ASSUME NEW o \in OrderIds, o = payOrder[p] PROVE Receipts(o)' = 1
    <2>1. \A q \in PaymentIds : ~(payStatus[q] = "CAPTURED" /\ payOrder[q] = o)
      BY <1>2, <1>3 DEF PaidInv, PaidExactlyOnce
    <2>2. {q \in PaymentIds : payStatus'[q] = "CAPTURED" /\ payOrder'[q] = o} = {p}
      BY <1>2, <1>3, <2>1
    <2> QED
      BY <2>2, FS_Singleton DEF Receipts
  <1>4. ASSUME NEW o \in OrderIds, o # payOrder[p] PROVE Receipts(o)' = Receipts(o)
    <2>1. {q \in PaymentIds : payStatus'[q] = "CAPTURED" /\ payOrder'[q] = o}
            = {q \in PaymentIds : payStatus[q] = "CAPTURED" /\ payOrder[q] = o}
      BY <1>2, <1>4
    <2> QED
      BY <2>1 DEF Receipts
  <1> QED
    BY <1>1, <1>3, <1>4

\* Payments: only a capture shows.
LEMMA PayImplements ==
  ASSUME TypeOK, PaidInv, PayStep, UNCHANGED <<stock, supplied>>
  PROVE  [L!Next]_(L!ledger)
  <1>0. [v \in Variants |-> OnHand(v)]' = [v \in Variants |-> OnHand(v)]
    BY DEF OnHand
  <1>1. ASSUME UNCHANGED <<orderStatus, orderLines>>,
               \A o \in OrderIds : Receipts(o)' = Receipts(o)
        PROVE  UNCHANGED L!ledger
    BY <1>0, <1>1 DEF L!ledger
  <1>2. CASE UNCHANGED <<orderStatus, orderLines, payStatus, payOrder>>
    <2>1. \A o \in OrderIds : Receipts(o)' = Receipts(o)
      BY <1>2, SameReceipts
    <2> QED
      BY <1>1, <1>2, <2>1
  <1>3. ASSUME NEW p \in PaymentIds, Captures(p) PROVE [L!Next]_(L!ledger)
    <2> DEFINE o == payOrder[p]
               bar == [x \in OrderIds |-> Receipts(x)]
    <2>1. o \in OrderIds /\ \A x \in OrderIds : Receipts(x)' = IF x = o THEN 1 ELSE Receipts(x)
      BY <1>3, CapturedReceipts
    <2>2. bar' = [bar EXCEPT ![o] = 1]
      BY <2>1
    <2>3. L!Pay(o)
      BY <1>0, <1>3, <2>2 DEF L!Pay, Captures
    <2> QED
      BY <2>1, <2>3 DEF L!Next
  <1>4. ASSUME NEW p \in PaymentIds, Fails(p) PROVE [L!Next]_(L!ledger)
    <2>1. \A o \in OrderIds : Receipts(o)' = Receipts(o)
      BY <1>4, SameReceipts DEF Fails, TypeOK
    <2> QED
      BY <1>1, <1>4, <2>1 DEF Fails
  <1>5. ASSUME NEW p \in PaymentIds, NEW o \in OrderIds, Inserts(p, o)
        PROVE  [L!Next]_(L!ledger)
    <2>1. \A x \in OrderIds : Receipts(x)' = Receipts(x)
      BY <1>5, SameReceipts DEF Inserts, TypeOK
    <2> QED
      BY <1>1, <1>5, <2>1 DEF Inserts
  <1> QED
    BY <1>2, <1>3, <1>4, <1>5 DEF PayStep

LEMMA StepImplements ==
  ASSUME UnitsInv, UnitsInv', UnitStep PROVE [L!Next]_(L!ledger)
  <1> DEFINE bar == [v \in Variants |-> OnHand(v)]
  <1>0. TypeOK /\ TypeOK' /\ PaidInv /\ NeverOversold /\ NeverOversold'
    BY DEF UnitsInv, Locks, Typed, StockInv
  <1>1. \A v \in Variants : OnHand(v) = InPools(stock, v) /\ OnHand(v)' = InPools(stock', v)
    BY DEF OnHand, InPools, SumFunction
  <1>2. ASSUME payStatus' = payStatus, payOrder' = payOrder
        PROVE  [o \in OrderIds |-> Receipts(o)]' = [o \in OrderIds |-> Receipts(o)]
    BY <1>2 DEF Receipts
  <1>3. ASSUME NEW o \in OrderIds, NEW pool \in Pools, Takes(o, pool)
        PROVE  [L!Next]_(L!ledger)
    <2> DEFINE lines == orderLines'[o]
    <2>1. lines \in [Variants -> Quantities]
      BY <1>3 DEF Takes, OrderLines
    <2>2. ASSUME NEW v \in Variants PROVE lines[v] <= OnHand(v)
      <3>1. lines[v] <= stock[pool][v] /\ stock[pool][v] \in Int /\ lines[v] \in Int
        BY <1>0, <1>3, LinesAreNat DEF Takes, TypeOK
      <3>2. stock \in [Pools -> [Variants -> Int]] /\ \A p \in Pools : stock[p][v] >= 0
        BY <1>0 DEF TypeOK, NeverOversold
      <3>3. stock[pool][v] <= InPools(stock, v) /\ InPools(stock, v) \in Nat
        BY <3>2, OnHandNat
      <3> QED
        BY <1>1, <3>1, <3>3
    <2>3. \A v \in Variants : OnHand(v)' = OnHand(v) - lines[v]
      BY <1>0, <1>1, <1>3, TakesPools
    <2>4. bar' = [v \in Variants |-> bar[v] - lines[v]]
      BY <2>3
    <2>5. /\ orderStatus[o] = "none"
          /\ orderStatus' = [orderStatus EXCEPT ![o] = "PENDING"]
          /\ orderLines' = [orderLines EXCEPT ![o] = lines]
          /\ payStatus' = payStatus /\ payOrder' = payOrder
      BY <1>3 DEF Takes, Places
    <2> HIDE DEF lines
    <2>6. L!Place(o, lines)
      BY <1>2, <2>2, <2>4, <2>5 DEF L!Place
    <2> QED
      BY <2>1, <2>6 DEF L!Next
  <1>4. ASSUME NEW o \in OrderIds, NEW pool \in Pools, GivesBack(o, pool)
        PROVE  [L!Next]_(L!ledger)
    <2>1. \A v \in Variants : OnHand(v)' = OnHand(v) + orderLines[o][v]
      BY <1>0, <1>1, <1>4, GivesBackPools
    <2>2. bar' = [v \in Variants |-> bar[v] + orderLines[o][v]]
      BY <2>1
    <2>3. L!Cancel(o)
      BY <1>2, <1>4, <2>2 DEF L!Cancel, GivesBack, Cancels
    <2> QED
      BY <2>3 DEF L!Next
  <1>5. ASSUME NEW pool \in Pools, NEW w \in Variants, NEW d \in Int, Adjusts(pool, w, d)
        PROVE  [L!Next]_(L!ledger)
    <2>1. ASSUME NEW v \in Variants, v # w PROVE OnHand(v)' = OnHand(v)
      <3>1. [p \in Pools |-> stock'[p][v]] = [p \in Pools |-> stock[p][v]]
        BY <1>0, <1>5, <2>1 DEF Adjusts, TypeOK
      <3> QED
        BY <3>1 DEF OnHand
    <2>2. OnHand(w)' \in Nat
      <3>1. stock' \in [Pools -> [Variants -> Int]] /\ \A p \in Pools : stock'[p][w] >= 0
        BY <1>0 DEF TypeOK, NeverOversold
      <3>2. InPools(stock', w) \in Nat
        BY <3>1, OnHandNat
      <3> QED
        BY <1>1, <3>2
    <2>3. bar'[w] \in Nat /\ bar' = [bar EXCEPT ![w] = bar'[w]]
      BY <2>1, <2>2
    <2>4. L!Supply(w)
      BY <1>2, <1>5, <2>3 DEF L!Supply, Adjusts
    <2> QED
      BY <2>4 DEF L!Next
  <1> QED
    BY <1>0, <1>3, <1>4, <1>5, PayImplements DEF UnitStep

\* The concurrent requests, with their locks, stale reads and rollbacks, look
\* like indivisible placements, payments, cancellations and adjustments.
THEOREM OrdersImplementLedger == Spec => ImplementsLedger
  <1>1. UnitsInv /\ UnitsInv' /\ [Next]_vars => [L!Next]_(L!ledger)
    BY NextIsUnitStep, StepImplements
  <1>2. Spec => L!Spec
    BY <1>1, InitImplements, AlwaysUnits, PTL DEF Spec, L!Spec
  <1> QED
    BY <1>2 DEF ImplementsLedger
=============================================================================

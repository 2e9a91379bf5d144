------------------------------- MODULE Orders -------------------------------
(***************************************************************************)
(* Orders, payments, inventory pools and the online POS sale of the        *)
(* business platform (src/src/order, payment, inventory, pos), as          *)
(* concurrent requests against one PostgreSQL database at READ COMMITTED.  *)
(*                                                                         *)
(* A request is a client process.  Each action is one SQL statement, or a  *)
(* run of statements no other request can tell apart from one.  Variables  *)
(* hold the COMMITTED rows; what an open transaction has written but not   *)
(* committed is its request's held, and its pc says which row locks it     *)
(* has.  A guarded updateMany whose WHERE fails on the committed row       *)
(* affects no row at once; one whose WHERE holds waits for the row's lock  *)
(* and evaluates the WHERE again.                                          *)
(***************************************************************************)
EXTENDS Integers, FiniteSets

CONSTANTS
  Clients,     \* concurrent HTTP requests
  OrderIds,    \* ids orders can get: bounds the number of orders
  PaymentIds,  \* ids payments can get
  Variants,    \* product variants
  Stores,      \* stores, each with an inventory pool of its own
  Global,      \* the tenant-global pool (storeId NULL)
  NoId,        \* an id field that is not set
  Quantities,  \* quantities a line may ask for; 0 is "no such line"
  Opening,     \* units each pool starts with; a pool row exists where > 0
  Menu,        \* the kinds of request clients send
  Deltas,      \* deltas an adjustment may ask for
  MaxSupply    \* bound on the units an adjustment may bring a pool up to

ASSUME PoolAssumption == Global \notin Stores
ASSUME IdAssumption ==
  NoId \notin OrderIds \cup PaymentIds \cup Variants \cup Stores
ASSUME QuantityAssumption == Quantities \subseteq Nat /\ 0 \in Quantities
ASSUME OpeningAssumption ==
  Opening \in [Stores \cup {Global} -> [Variants -> Nat]]
ASSUME DeltaAssumption == Deltas \subseteq Int /\ MaxSupply \in Nat

Pools == Stores \cup {Global}
OrderLines == [Variants -> Quantities]
NoLines == [v \in Variants |-> 0]

VARIABLES
  orderStatus,  \* Order.status, "none" while the id is unused
  orderLines,   \* OrderItem.quantity by variant, never updated
  orderPool,    \* history: the pool createOrder took the units from
  posSale,      \* PosSale.storeId of the order, NoId without a PosSale row
  payStatus,    \* Payment.status, "none" while the id is unused
  payOrder,     \* Payment.orderId
  rows,         \* the inventory rows that exist, as <<pool, variant>>
  stock,        \* Inventory.quantityOnHand, 0 where there is no row
  supplied,     \* history: the units opened with and adjusted into each pool
  pc,           \* where each request stands
  req,          \* what each request is working on
  held          \* variants whose pool row the open transaction has written

orderVars == <<orderStatus, orderLines, orderPool>>
payVars == <<payStatus, payOrder>>
stockVars == <<rows, stock, supplied>>
clientVars == <<pc, req, held>>
vars == <<orderVars, posSale, payVars, stockVars, clientVars>>

SaleKinds == {"cashSale", "cardSale"}
Kinds == SaleKinds \cup {"none", "checkout", "cancel", "pay", "capture",
                         "fail", "adjust"}

\* The transaction of cancelOrder, from the statement that locks the order.
CancelTx == {"cancelPool", "restock", "restockCreate"}
\* Where a transaction may hold inventory rows.
StockTx == {"decrement", "restock", "restockCreate"}
Labels == CancelTx \cup StockTx \cup
  {"idle", "payRead", "payCheck", "payInsert", "captureRead", "captureMark",
   "captureOrder", "failMark", "saleRecord", "cancelMark", "adjust",
   "adjustFind", "adjustCreate", "adjustRetry"}

Requests ==
  [kind : Kinds, order : OrderIds \cup {NoId}, payment : PaymentIds \cup {NoId},
   pool : Pools, lines : OrderLines, item : Variants \cup {NoId},
   delta : Deltas \cup {0}]

NoRequest ==
  [kind |-> "none", order |-> NoId, payment |-> NoId, pool |-> Global,
   lines |-> NoLines, item |-> NoId, delta |-> 0]

TypeOK ==
  /\ orderStatus \in [OrderIds -> {"none", "PENDING", "PAID", "CANCELLED"}]
  /\ orderLines \in [OrderIds -> OrderLines]
  /\ orderPool \in [OrderIds -> Pools]
  /\ posSale \in [OrderIds -> Stores \cup {NoId}]
  /\ payStatus \in [PaymentIds -> {"none", "PROCESSING", "CAPTURED", "FAILED"}]
  /\ payOrder \in [PaymentIds -> OrderIds \cup {NoId}]
  /\ rows \subseteq Pools \X Variants
  /\ stock \in [Pools -> [Variants -> Int]]
  /\ supplied \in [Pools -> [Variants -> Int]]
  /\ pc \in [Clients -> Labels]
  /\ req \in [Clients -> Requests]
  /\ held \in [Clients -> SUBSET Variants]

Init ==
  /\ orderStatus = [o \in OrderIds |-> "none"]
  /\ orderLines = [o \in OrderIds |-> NoLines]
  /\ orderPool = [o \in OrderIds |-> Global]
  /\ posSale = [o \in OrderIds |-> NoId]
  /\ payStatus = [p \in PaymentIds |-> "none"]
  /\ payOrder = [p \in PaymentIds |-> NoId]
  /\ rows = {r \in Pools \X Variants : Opening[r[1]][r[2]] > 0}
  /\ stock = Opening
  /\ supplied = Opening
  /\ pc = [c \in Clients |-> "idle"]
  /\ req = [c \in Clients |-> NoRequest]
  /\ held = [c \in Clients |-> {}]

-----------------------------------------------------------------------------
(* Rows, locks and the life of a request *)

\* Lines of the request whose row the transaction has not written yet.
Remaining(c) == {v \in Variants : req[c].lines[v] > 0} \ held[c]

\* Another open transaction has written (or is inserting) this pool row.
RowBusy(c, pool, v) ==
  \E d \in Clients \ {c} : v \in held[d] /\ req[d].pool = pool

OrderBusy(c, o) ==
  \E d \in Clients \ {c} : pc[d] \in CancelTx /\ req[d].order = o

PaymentBusy(c, p) ==
  \E d \in Clients \ {c} : pc[d] = "captureOrder" /\ req[d].payment = p

\* Fault: the WHERE has lost its quantityOnHand >= n.
HasRow(pool, v, n) == <<pool, v>> \in rows
\* The WHERE of the guarded update: a row with at least n units.
HasUnits(pool, v, n) == <<pool, v>> \in rows /\ stock[pool][v] >= n

\* Generated ids are unique: unused, and no other request has drawn them.
Fresh(o) == orderStatus[o] = "none" /\ \A c \in Clients : req[c].order # o
FreshPay(p) == payStatus[p] = "none" /\ \A c \in Clients : req[c].payment # p

Goto(c, label) == pc' = [pc EXCEPT ![c] = label]
Begin(c, label, r) ==
  /\ pc[c] = "idle"
  /\ r.kind \in Menu
  /\ Goto(c, label)
  /\ req' = [req EXCEPT ![c] = r]
  /\ UNCHANGED <<held, orderVars, posSale, payVars, stockVars>>
\* The handler returns or throws; an open transaction's writes are gone with
\* held unless the action that ends it commits them.
Finish(c) ==
  /\ Goto(c, "idle")
  /\ req' = [req EXCEPT ![c] = NoRequest]
  /\ held' = [held EXCEPT ![c] = {}]
\* A throw, after which nothing of the open transaction remains.
Refuse(c) ==
  /\ Finish(c)
  /\ UNCHANGED <<orderVars, posSale, payVars, stockVars>>
\* A statement that only reads, or only takes locks, and goes on.
Advance(c, label) ==
  /\ Goto(c, label)
  /\ UNCHANGED <<req, held, orderVars, posSale, payVars, stockVars>>

-----------------------------------------------------------------------------
(* createOrder: POST /orders with items, and the T1 of a POS sale *)

\* The reads that precede the writes (variants ACTIVE, a price in one
\* currency) refuse without effect; a request that begins has passed them.
BeginCheckout(c) ==
  \E lines \in OrderLines \ {NoLines}, o \in OrderIds :
    /\ Fresh(o)
    /\ Begin(c, "decrement", [NoRequest EXCEPT
         !.kind = "checkout", !.order = o, !.lines = lines])

\* createSale: session and device have been checked (their own component).
BeginSale(c) ==
  \E kind \in SaleKinds, s \in Stores, lines \in OrderLines \ {NoLines},
     o \in OrderIds, p \in PaymentIds :
    /\ Fresh(o)
    /\ FreshPay(p)
    /\ Begin(c, "decrement", [NoRequest EXCEPT
         !.kind = kind, !.order = o, !.payment = p, !.pool = s,
         !.lines = lines])

\* The guarded decrements, in the order the client listed the variants.
Decrement(c) ==
  /\ pc[c] = "decrement"
  /\ \E v \in Remaining(c) :
       /\ HasUnits(req[c].pool, v, req[c].lines[v])
       /\ ~RowBusy(c, req[c].pool, v)
       /\ held' = [held EXCEPT ![c] = @ \cup {v}]
  /\ UNCHANGED <<pc, req, orderVars, posSale, payVars, stockVars>>

\* Fault: an update of no row is tried again.
InsufficientStockRetried(c) ==
  /\ pc[c] = "decrement"
  /\ \E v \in Remaining(c) : ~HasUnits(req[c].pool, v, req[c].lines[v])
  /\ UNCHANGED vars

InsufficientStock(c) ==
  /\ pc[c] = "decrement"
  /\ \E v \in Remaining(c) : ~HasUnits(req[c].pool, v, req[c].lines[v])
  /\ Refuse(c)

\* order.create, the items and COMMIT.
PlaceOrder(c) ==
  LET r == req[c] IN
  /\ pc[c] = "decrement"
  /\ Remaining(c) = {}
  /\ orderStatus[r.order] = "none"
  /\ orderStatus' = [orderStatus EXCEPT ![r.order] = "PENDING"]
  /\ orderLines' = [orderLines EXCEPT ![r.order] = r.lines]
  /\ orderPool' = [orderPool EXCEPT ![r.order] = r.pool]
  /\ stock' = [stock EXCEPT ![r.pool] =
                 [v \in Variants |-> stock[r.pool][v] - r.lines[v]]]
  /\ IF r.kind \in SaleKinds
       THEN /\ Goto(c, "payRead")
            /\ held' = [held EXCEPT ![c] = {}]
            /\ UNCHANGED req
       ELSE Finish(c)
  /\ UNCHANGED <<posSale, payVars, rows, supplied>>
-----------------------------------------------------------------------------
(* createPayment, capturePayment, failPayment *)

BeginPayment(c) ==
  \E o \in OrderIds, p \in PaymentIds :
    /\ orderStatus[o] # "none"
    /\ FreshPay(p)
    /\ Begin(c, "payRead", [NoRequest EXCEPT
         !.kind = "pay", !.order = o, !.payment = p])

PayRead(c) ==
  /\ pc[c] = "payRead"
  /\ \/ orderStatus[req[c].order] = "PENDING" /\ Advance(c, "payCheck")
     \/ orderStatus[req[c].order] # "PENDING" /\ Refuse(c)

\* No captured payment for the order yet.
PayCheck(c) ==
  LET captured == \E p \in PaymentIds :
        payStatus[p] = "CAPTURED" /\ payOrder[p] = req[c].order
  IN /\ pc[c] = "payCheck"
     /\ \/ ~captured /\ Advance(c, "payInsert")
        \/ captured /\ Refuse(c)

\* Fault: a cash sale records its PosSale row without the capture.
UncapturedSale(kind) == "saleRecord"
\* What createSale does with the payment it has created.
AfterPayment(kind) == IF kind = "cashSale" THEN "captureRead" ELSE "saleRecord"

\* payment.create and COMMIT; the row's order is only checked to exist.
PayInsert(c) ==
  LET r == req[c] IN
  /\ pc[c] = "payInsert"
  /\ payStatus[r.payment] = "none"
  /\ payStatus' = [payStatus EXCEPT ![r.payment] = "PROCESSING"]
  /\ payOrder' = [payOrder EXCEPT ![r.payment] = r.order]
  /\ UNCHANGED <<orderVars, posSale, stockVars>>
  /\ \/ /\ r.kind \in SaleKinds
        /\ Goto(c, AfterPayment(r.kind))
        /\ UNCHANGED <<req, held>>
     \/ r.kind = "pay" /\ Finish(c)

BeginCapture(c) ==
  \E p \in PaymentIds :
    /\ payStatus[p] # "none"
    /\ Begin(c, "captureRead", [NoRequest EXCEPT
         !.kind = "capture", !.payment = p])

\* capturePayment returns: a cash sale goes on to its PosSale row.
Captured(c) ==
  \/ req[c].kind = "cashSale" /\ Goto(c, "saleRecord") /\ UNCHANGED <<req, held>>
  \/ req[c].kind = "capture" /\ Finish(c)

\* findUnique and the early exits; CAPTURED is answered idempotently.
CaptureRead(c) ==
  LET status == payStatus[req[c].payment] IN
  /\ pc[c] = "captureRead"
  /\ UNCHANGED <<orderVars, posSale, payVars, stockVars>>
  /\ \/ status = "CAPTURED" /\ Captured(c)
     \/ status = "FAILED" /\ Finish(c)
     \/ status = "PROCESSING" /\ Goto(c, "captureMark") /\ UNCHANGED <<req, held>>

\* Guarded PROCESSING -> CAPTURED, uncommitted: it locks the payment row.
CaptureMark(c) ==
  LET p == req[c].payment IN
  /\ pc[c] = "captureMark"
  /\ \/ /\ payStatus[p] = "PROCESSING"
        /\ ~PaymentBusy(c, p)
        /\ Advance(c, "captureOrder")
     \/ payStatus[p] # "PROCESSING" /\ Refuse(c)

\* Fault: the order is set PAID by id, whatever its status is.
AlwaysPayable(o) == TRUE
Payable(o) == orderStatus[o] = "PENDING"

\* Guarded PENDING -> PAID, and COMMIT; no row updated rolls back.
CaptureOrder(c) ==
  LET p == req[c].payment
      o == payOrder[p]
  IN /\ pc[c] = "captureOrder"
     /\ \/ /\ Payable(o)
           /\ ~OrderBusy(c, o)
           /\ orderStatus' = [orderStatus EXCEPT ![o] = "PAID"]
           /\ payStatus' = [payStatus EXCEPT ![p] = "CAPTURED"]
           /\ Captured(c)
           /\ UNCHANGED <<orderLines, orderPool, posSale, payOrder, stockVars>>
        \/ ~Payable(o) /\ Refuse(c)

\* failPayment's findUnique: anything but PROCESSING returns or throws.
BeginFail(c) ==
  \E p \in PaymentIds :
    /\ payStatus[p] = "PROCESSING"
    /\ Begin(c, "failMark", [NoRequest EXCEPT !.kind = "fail", !.payment = p])

\* Fault: the payment is set FAILED by id, on the strength of the read.
AlwaysFailable(p) == TRUE
Failable(p) == payStatus[p] = "PROCESSING"

\* Guarded PROCESSING -> FAILED, and COMMIT.
FailMark(c) ==
  LET p == req[c].payment IN
  /\ pc[c] = "failMark"
  /\ \/ /\ Failable(p)
        /\ ~PaymentBusy(c, p)
        /\ payStatus' = [payStatus EXCEPT ![p] = "FAILED"]
        /\ Finish(c)
        /\ UNCHANGED <<orderVars, posSale, payOrder, stockVars>>
     \/ ~Failable(p) /\ Refuse(c)

\* createSale's last statement: the provenance row.
SaleRecord(c) ==
  /\ pc[c] = "saleRecord"
  /\ posSale' = [posSale EXCEPT ![req[c].order] = req[c].pool]
  /\ Finish(c)
  /\ UNCHANGED <<orderVars, payVars, stockVars>>

-----------------------------------------------------------------------------
(* cancelOrder *)

\* The read before the transaction: anything but PENDING is refused.
BeginCancel(c) ==
  \E o \in OrderIds :
    /\ orderStatus[o] = "PENDING"
    /\ Begin(c, "cancelMark", [NoRequest EXCEPT !.kind = "cancel", !.order = o])

\* Fault: the order is set CANCELLED by id, on the strength of the read.
AlwaysCancellable(o) == TRUE
Cancellable(o) == orderStatus[o] = "PENDING"

\* Guarded PENDING -> CANCELLED, uncommitted: it locks the order row.
CancelMark(c) ==
  LET o == req[c].order IN
  /\ pc[c] = "cancelMark"
  /\ \/ /\ Cancellable(o)
        /\ ~OrderBusy(c, o)
        /\ Advance(c, "cancelPool")
     \/ ~Cancellable(o) /\ Refuse(c)

\* Fault: an order without a PosSale row has no pool.
RecordedPool(o) == posSale[o]
\* The pool to restock comes from the PosSale row, or is the global one.
RestockPool(o) == IF posSale[o] = NoId THEN Global ELSE posSale[o]

CancelPool(c) ==
  /\ pc[c] = "cancelPool"
  /\ Goto(c, "restock")
  /\ req' = [req EXCEPT ![c].pool = RestockPool(req[c].order),
                        ![c].lines = orderLines[req[c].order]]
  /\ UNCHANGED <<held, orderVars, posSale, payVars, stockVars>>

\* findFirst finds the row: increment it.
Restock(c) ==
  /\ pc[c] = "restock"
  /\ \E v \in Remaining(c) :
       /\ <<req[c].pool, v>> \in rows
       /\ ~RowBusy(c, req[c].pool, v)
       /\ held' = [held EXCEPT ![c] = @ \cup {v}]
  /\ UNCHANGED <<pc, req, orderVars, posSale, payVars, stockVars>>

\* findFirst finds no row: create it, which is another statement.
RestockMissing(c) ==
  /\ pc[c] = "restock"
  /\ \E v \in Remaining(c) :
       /\ <<req[c].pool, v>> \notin rows
       /\ req' = [req EXCEPT ![c].item = v]
  /\ Goto(c, "restockCreate")
  /\ UNCHANGED <<held, orderVars, posSale, payVars, stockVars>>

\* A row that exists by now is a unique violation nothing catches.
RestockCreate(c) ==
  LET r == req[c] IN
  /\ pc[c] = "restockCreate"
  /\ \/ /\ <<r.pool, r.item>> \notin rows
        /\ ~RowBusy(c, r.pool, r.item)
        /\ Goto(c, "restock")
        /\ held' = [held EXCEPT ![c] = @ \cup {r.item}]
        /\ req' = [req EXCEPT ![c].item = NoId]
        /\ UNCHANGED <<orderVars, posSale, payVars, stockVars>>
     \/ <<r.pool, r.item>> \in rows /\ Refuse(c)

\* Fault: the restock sets the quantity instead of incrementing it.
RestockOverwrites(r) == [v \in Variants |->
  IF r.lines[v] > 0 THEN r.lines[v] ELSE stock[r.pool][v]]
Restocked(r) == [v \in Variants |-> stock[r.pool][v] + r.lines[v]]

CancelCommit(c) ==
  LET r == req[c] IN
  /\ pc[c] = "restock"
  /\ Remaining(c) = {}
  /\ orderStatus' = [orderStatus EXCEPT ![r.order] = "CANCELLED"]
  /\ rows' = rows \cup {<<r.pool, v>> : v \in held[c]}
  /\ stock' = [stock EXCEPT ![r.pool] = Restocked(r)]
  /\ Finish(c)
  /\ UNCHANGED <<orderLines, orderPool, posSale, payVars, supplied>>

-----------------------------------------------------------------------------
(* adjustScoped: every statement commits by itself *)

BeginAdjust(c) ==
  \E pool \in Pools, v \in Variants, d \in Deltas :
    /\ supplied[pool][v] + d <= MaxSupply
    /\ Begin(c, "adjust", [NoRequest EXCEPT
         !.kind = "adjust", !.pool = pool, !.item = v, !.delta = d])

\* The pool row changes by the request's delta.
ApplyDelta(c) ==
  LET r == req[c] IN
  /\ stock' = [stock EXCEPT ![r.pool][r.item] = @ + r.delta]
  /\ supplied' = [supplied EXCEPT ![r.pool][r.item] = @ + r.delta]
  /\ Finish(c)
  /\ UNCHANGED <<orderVars, posSale, payVars>>

\* The guarded increment.
Adjust(c) ==
  LET r == req[c] IN
  /\ pc[c] = "adjust"
  /\ \/ /\ HasUnits(r.pool, r.item, -r.delta)
        /\ ~RowBusy(c, r.pool, r.item)
        /\ ApplyDelta(c)
        /\ UNCHANGED rows
     \/ ~HasUnits(r.pool, r.item, -r.delta) /\ Advance(c, "adjustFind")

\* No row was updated.  Is there one now?
AdjustFind(c) ==
  LET r == req[c] IN
  /\ pc[c] = "adjustFind"
  /\ \/ <<r.pool, r.item>> \notin rows /\ r.delta >= 0 /\ Advance(c, "adjustCreate")
     \/ (<<r.pool, r.item>> \in rows \/ r.delta < 0) /\ Refuse(c)

\* Create the pool's row; P2002 sends the request to the retry.
AdjustCreate(c) ==
  LET r == req[c] IN
  /\ pc[c] = "adjustCreate"
  /\ \/ /\ <<r.pool, r.item>> \notin rows
        /\ ~RowBusy(c, r.pool, r.item)
        /\ rows' = rows \cup {<<r.pool, r.item>>}
        /\ ApplyDelta(c)
     \/ <<r.pool, r.item>> \in rows /\ Advance(c, "adjustRetry")

\* The guarded increment again.  The row exists and delta >= 0 here.
AdjustRetry(c) ==
  LET r == req[c] IN
  /\ pc[c] = "adjustRetry"
  /\ HasUnits(r.pool, r.item, -r.delta)
  /\ ~RowBusy(c, r.pool, r.item)
  /\ ApplyDelta(c)
  /\ UNCHANGED rows

-----------------------------------------------------------------------------
(* Failures, the specification *)

\* The request dies wherever it is: the process crashes, the connection is
\* lost, Prisma's transaction timeout fires, PostgreSQL picks it as a
\* deadlock victim.  What it committed stays.
Rollback(c) == pc[c] # "idle" /\ Refuse(c)

\* Within the set D of requests, c waits for a row another one has written.
StuckIn(c, D) ==
  /\ pc[c] \in StockTx
  /\ Remaining(c) # {}
  /\ \A v \in Remaining(c) : \E d \in D \ {c} :
       v \in held[d] /\ req[d].pool = req[c].pool

\* PostgreSQL's deadlock detector aborts one transaction of a cycle.
DeadlockVictim(c) ==
  /\ \E D \in SUBSET Clients : c \in D /\ \A d \in D : StuckIn(d, D)
  /\ Rollback(c)

Start(c) ==
  \/ BeginCheckout(c) \/ BeginSale(c) \/ BeginPayment(c) \/ BeginCapture(c)
  \/ BeginFail(c) \/ BeginCancel(c) \/ BeginAdjust(c)

Step(c) ==
  \/ Decrement(c) \/ InsufficientStock(c) \/ PlaceOrder(c)
  \/ PayRead(c) \/ PayCheck(c) \/ PayInsert(c)
  \/ CaptureRead(c) \/ CaptureMark(c) \/ CaptureOrder(c) \/ FailMark(c)
  \/ SaleRecord(c)
  \/ CancelMark(c) \/ CancelPool(c) \/ Restock(c) \/ RestockMissing(c)
  \/ RestockCreate(c) \/ CancelCommit(c)
  \/ Adjust(c) \/ AdjustFind(c) \/ AdjustCreate(c) \/ AdjustRetry(c)

Next == \E c \in Clients : Start(c) \/ Step(c) \/ Rollback(c)

\* A request's handler keeps running.  A statement that waits for a row lock
\* gets it if the lock is free again and again (PostgreSQL queues waiters in
\* order), hence strong fairness.  No request has to start, none has to die.
Fairness == \A c \in Clients : SF_vars(Step(c)) /\ WF_vars(DeadlockVictim(c))

Spec == Init /\ [][Next]_vars
FairSpec == Spec /\ Fairness

-----------------------------------------------------------------------------
(* Properties *)

\* No pool is sold below zero, so the guarded decrements and adjustments
\* alone keep the CHECK (quantity_on_hand >= 0) of the schema: it never has
\* to refuse a commit, however many requests take from the same rows.
NeverOversold ==
  \A p \in Pools, v \in Variants :
    /\ stock[p][v] >= 0
    /\ stock[p][v] > 0 => <<p, v>> \in rows

\* An order is PAID exactly when one payment of it is CAPTURED, and no order
\* ever has two: createPayment lets several PROCESSING payments of an order
\* coexist, and captures race each other, failPayment and cancelOrder.
PaidExactlyOnce ==
  \A o \in OrderIds :
    /\ orderStatus[o] = "PAID" <=>
         \E p \in PaymentIds : payStatus[p] = "CAPTURED" /\ payOrder[p] = o
    /\ \A p, q \in PaymentIds :
         /\ payStatus[p] = "CAPTURED" /\ payOrder[p] = o
         /\ payStatus[q] = "CAPTURED" /\ payOrder[q] = o
         => p = q

\* createSale writes the PosSale row after the capture, in no transaction
\* with it: the row of a cash sale still never stands for an unpaid order.
CashSaleIsPaid ==
  \A c \in Clients :
    pc[c] = "saleRecord" /\ req[c].kind = "cashSale"
      => orderStatus[req[c].order] = "PAID"

\* PAID and CANCELLED orders, CAPTURED and FAILED payments, and the lines of
\* a placed order never change again, whatever stale read a handler acts on.
SettledIsFinal ==
  [][ /\ \A o \in OrderIds :
           /\ orderStatus[o] \in {"PAID", "CANCELLED"}
                => orderStatus'[o] = orderStatus[o]
           /\ orderStatus[o] # "none" => orderLines'[o] = orderLines[o]
      /\ \A p \in PaymentIds :
           payStatus[p] \in {"CAPTURED", "FAILED"}
             => payStatus'[p] = payStatus[p] /\ payOrder'[p] = payOrder[p]
    ]_vars

\* No handler waits forever: not for a row lock, not in a cycle of locks, not
\* for a row another request was expected to create.
RequestsFinish ==
  \A c \in Clients : pc[c] # "idle" ~> pc[c] = "idle"
=============================================================================

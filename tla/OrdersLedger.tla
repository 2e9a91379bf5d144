---------------------------- MODULE OrdersLedger ----------------------------
(***************************************************************************)
(* Orders implements Ledger: the refinement mapping, and the properties    *)
(* of Orders that add units up over pools and orders.                      *)
(***************************************************************************)
EXTENDS Orders, Functions

\* What is added up is finitely many rows.
ASSUME RowsAssumption ==
  IsFiniteSet(Stores) /\ IsFiniteSet(OrderIds) /\ IsFiniteSet(PaymentIds)

\* Units of v in all pools.
OnHand(v) == SumFunction([p \in Pools |-> stock[p][v]])

LiveOrders == {o \in OrderIds : orderStatus[o] \in {"PENDING", "PAID"}}
Receipts(o) ==
  Cardinality({p \in PaymentIds : payStatus[p] = "CAPTURED" /\ payOrder[p] = o})

L == INSTANCE Ledger WITH
       status <- orderStatus,
       taken <- orderLines,
       receipts <- [o \in OrderIds |-> Receipts(o)],
       onHand <- [v \in Variants |-> OnHand(v)]

\* Every interleaving of createOrder, createPayment, capturePayment,
\* cancelOrder, createSale and adjustScoped, with rollbacks anywhere, looks
\* like a sequence of indivisible placements, payments, cancellations and
\* adjustments (order.service.ts, payment.service.ts, inventory.service.ts).
ImplementsLedger == L!Spec

\* Guarded decrements, restocks and adjustments neither lose a unit nor make
\* one up: what adjustments brought in is on hand or in an order that was not
\* cancelled, whichever requests race and wherever they roll back.
UnitsConserved ==
  \A v \in Variants :
    OnHand(v) + SumFunction([o \in LiveOrders |-> orderLines[o][v]])
      = SumFunction([p \in Pools |-> supplied[p][v]])

\* order.service.ts:332-337 says restock returns the units to exactly the
\* pool the order took them from: then every pool by itself balances.
PoolsBalance ==
  \A p \in Pools, v \in Variants :
    stock[p][v] + SumFunction([o \in {x \in LiveOrders : orderPool[x] = p} |->
                                 orderLines[o][v]])
      = supplied[p][v]
=============================================================================

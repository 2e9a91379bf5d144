------------------------------ MODULE MCOrders ------------------------------
EXTENDS OrdersLedger, TLC

Everything == Kinds \ {"none"}
\* Requests that lock several rows and insert the rows they miss.
LockMenu == {"cardSale", "cancel", "adjust"}
\* A POS sale and the cancellation of its order.
RestockMenu == {"cardSale", "cancel"}

Units(inGlobal, inStore) ==
  [p \in Pools |-> [v \in Variants |->
     IF p = Global THEN inGlobal ELSE inStore]]
OneEach == Units(1, 1)
\* The global pool has no rows.
StoreOnly == Units(0, 1)

Up == {1}
UpAndDown == {1, -1}

Symmetry == Permutations(Clients) \cup Permutations(OrderIds)
              \cup Permutations(PaymentIds)
=============================================================================

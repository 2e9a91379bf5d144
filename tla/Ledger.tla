------------------------------- MODULE Ledger -------------------------------
(***************************************************************************)
(* What orders, payments and inventory promise together, each request one  *)
(* indivisible step: an order takes its units when it is placed, is paid   *)
(* by one captured payment or gives its units back when it is cancelled,   *)
(* and no unit is ever sold twice.  Module Orders is shown to implement    *)
(* it.                                                                     *)
(***************************************************************************)
EXTENDS Integers

CONSTANTS OrderIds, Variants, Quantities

VARIABLES
  status,    \* of each order
  taken,     \* units each order took
  receipts,  \* captured payments of each order
  onHand     \* units that can be sold, over all pools

ledger == <<status, taken, receipts, onHand>>

None == [v \in Variants |-> 0]

Init ==
  /\ status = [o \in OrderIds |-> "none"]
  /\ taken = [o \in OrderIds |-> None]
  /\ receipts = [o \in OrderIds |-> 0]
  /\ onHand \in [Variants -> Nat]

Place(o, lines) ==
  /\ status[o] = "none"
  /\ \A v \in Variants : lines[v] <= onHand[v]
  /\ status' = [status EXCEPT ![o] = "PENDING"]
  /\ taken' = [taken EXCEPT ![o] = lines]
  /\ onHand' = [v \in Variants |-> onHand[v] - lines[v]]
  /\ UNCHANGED receipts

Pay(o) ==
  /\ status[o] = "PENDING"
  /\ status' = [status EXCEPT ![o] = "PAID"]
  /\ receipts' = [receipts EXCEPT ![o] = 1]
  /\ UNCHANGED <<taken, onHand>>

Cancel(o) ==
  /\ status[o] = "PENDING"
  /\ status' = [status EXCEPT ![o] = "CANCELLED"]
  /\ onHand' = [v \in Variants |-> onHand[v] + taken[o][v]]
  /\ UNCHANGED <<taken, receipts>>

\* An adjustment, never below zero.
Supply(v) ==
  /\ onHand'[v] \in Nat
  /\ onHand' = [onHand EXCEPT ![v] = onHand'[v]]
  /\ UNCHANGED <<status, taken, receipts>>

Next ==
  \/ \E o \in OrderIds :
       \/ \E lines \in [Variants -> Quantities] : Place(o, lines)
       \/ Pay(o)
       \/ Cancel(o)
  \/ \E v \in Variants : Supply(v)

Spec == Init /\ [][Next]_ledger
=============================================================================

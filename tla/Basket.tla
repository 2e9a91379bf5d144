------------------------------- MODULE Basket -------------------------------
(***************************************************************************)
(* What a customer's cart promises: however requests interleave and        *)
(* wherever they fail, a request that is answered as it asked took effect  *)
(* once, at one moment, on a cart that was OPEN when it chose it.  One     *)
(* that fails took effect completely, and only its answer was lost, or not *)
(* at all.  An order is for what its cart held at one moment; it is not    *)
(* promised that nothing is put in the cart after that moment, nor that    *)
(* the cart is ordered only once.  Cart implements it.                     *)
(***************************************************************************)
EXTENDS Naturals, Sequences

CONSTANTS Requests, Carts, Variants

VARIABLES
  state,    \* of each cart: none, OPEN, CONVERTED or deleted
  units,    \* of each variant in each cart
  placed,   \* the orders placed from each cart
  pending   \* what each request still has to do, and on which cart

bvars == <<state, placed, pending, units>>

Empty == [v \in Variants |-> 0]
After(op, n) == [op |-> op, variant |-> 0, amount |-> 0, cart |-> n, lines |-> Empty]
Nothing == After("none", 0)
Failed == After("failed", 0)
Mine(c) == pending[c].cart
Does(c, op) == pending[c].op = op /\ Mine(c) # 0
Becomes(c, p) == pending' = [pending EXCEPT ![c] = p]
Finish(c) == Becomes(c, After("done", Mine(c)))
Lives(n) == state[n] \in {"OPEN", "CONVERTED"}

BInit ==
  /\ state = [n \in Carts |-> "none"]
  /\ units = [n \in Carts |-> Empty]
  /\ placed = [n \in Carts |-> <<>>]
  /\ pending = [c \in Requests |-> Nothing]

-----------------------------------------------------------------------------

Wish == [op : {"get", "add", "set", "remove", "discard", "checkout"},
         variant : Variants \cup {0}, amount : Nat, cart : Carts \cup {0}, lines : {Empty}]

\* A request is for a cart that is OPEN, or, when there is none, for a new one.
Submit(c) ==
  LET wish == pending'[c] IN
  /\ pending[c].op \in {"none", "failed"}
  /\ wish \in Wish /\ Becomes(c, wish)
  /\ IF wish.cart = 0 THEN \A n \in Carts : state[n] # "OPEN"
     ELSE state[wish.cart] = "OPEN"
  /\ UNCHANGED <<state, units, placed>>

Open(c, n) ==
  /\ pending[c].op \in {"get", "add", "set", "remove"} /\ Mine(c) = 0
  /\ state[n] = "none"
  /\ state' = [state EXCEPT ![n] = "OPEN"]
  /\ Becomes(c, [pending[c] EXCEPT !.cart = n])
  /\ UNCHANGED <<units, placed>>

-----------------------------------------------------------------------------

Add(c) ==
  LET v == pending[c].variant IN
  /\ Does(c, "add") /\ Lives(Mine(c))
  /\ units' = [units EXCEPT ![Mine(c)][v] = @ + pending[c].amount]
  /\ Finish(c)
  /\ UNCHANGED <<state, placed>>

Set(c, v) ==
  /\ Does(c, "set") /\ Lives(Mine(c)) /\ units[Mine(c)][v] > 0
  /\ units' = [units EXCEPT ![Mine(c)][v] = pending[c].amount]
  /\ Finish(c)
  /\ UNCHANGED <<state, placed>>

Remove(c, v) ==
  /\ Does(c, "remove") /\ Lives(Mine(c)) /\ units[Mine(c)][v] > 0
  /\ units' = [units EXCEPT ![Mine(c)][v] = 0]
  /\ Finish(c)
  /\ UNCHANGED <<state, placed>>

Discard(c) ==
  /\ Does(c, "discard") /\ Lives(Mine(c))
  /\ state' = [state EXCEPT ![Mine(c)] = "deleted"]
  /\ units' = [units EXCEPT ![Mine(c)] = Empty]
  /\ Finish(c)
  /\ UNCHANGED placed

\* What the order will be for is read once.
Look(c) ==
  /\ Does(c, "checkout") /\ pending[c].lines = Empty /\ units[Mine(c)] # Empty
  /\ Becomes(c, [pending[c] EXCEPT !.lines = units[Mine(c)]])
  /\ UNCHANGED <<state, units, placed>>

\* The order and the end of its cart are one.
Place(c) ==
  /\ Does(c, "checkout") /\ pending[c].lines # Empty /\ Lives(Mine(c))
  /\ state' = [state EXCEPT ![Mine(c)] = "CONVERTED"]
  /\ placed' = [placed EXCEPT ![Mine(c)] = Append(@, pending[c].lines)]
  /\ Finish(c)
  /\ UNCHANGED units

-----------------------------------------------------------------------------

\* A get has nothing to do but to have a cart.
Succeed(c) ==
  /\ Does(c, "done") \/ Does(c, "get")
  /\ Becomes(c, Nothing)
  /\ UNCHANGED <<state, units, placed>>
GiveUp(c) == Becomes(c, Failed) /\ UNCHANGED <<state, units, placed>>

BNext == \E c \in Requests :
  \/ Submit(c) \/ \E n \in Carts : Open(c, n)
  \/ Add(c) \/ Discard(c) \/ Look(c) \/ Place(c)
  \/ \E v \in Variants : Set(c, v) \/ Remove(c, v)
  \/ Succeed(c) \/ GiveUp(c)

BSpec == BInit /\ [][BNext]_bvars
=============================================================================

-------------------------------- MODULE Cart --------------------------------
(***************************************************************************)
(* The carts of one user (src/src/cart/cart.service.ts) and the checkout   *)
(* half of createOrder (src/src/order/order.service.ts).  The service runs *)
(* no transaction: every statement of a request is a step of its own, and  *)
(* the user's other requests run in between.  The lines of an order are    *)
(* read before the transaction that places it.                             *)
(*                                                                         *)
(* Carts and items are numbered in the order of their creation; a number   *)
(* is given once.  Stock, prices and payment are Orders' affair.           *)
(***************************************************************************)
EXTENDS Naturals, Sequences, Functions

CONSTANTS
  Requests,   \* concurrent requests of the user
  Variants,
  MaxCarts,   \* bound: carts ever created
  MaxItems,   \* bound: items ever created
  MaxUnits,   \* bound: units of one item
  MaxAmount   \* bound: units one request asks for

ASSUME CartAssumption ==
  /\ 0 \notin Variants
  /\ {MaxCarts, MaxItems, MaxUnits, MaxAmount} \subseteq Nat

VARIABLES
  status,   \* Cart.status; none while unused, deleted afterwards
  item,     \* CartItem rows
  placed,   \* the lines of each order placed from a cart, in their order
  pc,       \* the statement each request executes next
  req       \* what it was asked and what it has read

vars == <<status, item, placed, pc, req>>

Carts == 1..MaxCarts
Items == 1..MaxItems
NoItem == [state |-> "none", cart |-> 0, variant |-> 0, quantity |-> 0]
Deleted == [NoItem EXCEPT !.state = "deleted"]

\* op is the endpoint, variant and amount the client's, cart and row the ids
\* read so far (0: none), lines what a checkout has read of each variant.
Lines == [Variants -> Nat]
NoLines == [v \in Variants |-> 0]
NoRequest ==
  [op |-> "none", variant |-> 0, amount |-> 0, cart |-> 0, row |-> 0, lines |-> NoLines]
Request == [op : {"none", "get", "add", "set", "remove", "discard", "checkout"},
            variant : Variants \cup {0}, amount : Nat,
            cart : Carts \cup {0}, row : Items \cup {0}, lines : Lines]

\* A request that is not running was answered as it asked (idle) or with an
\* error (failed).
TypeOK ==
  /\ status \in [Carts -> {"none", "OPEN", "CONVERTED", "deleted"}]
  /\ item \in [Items -> [state : {"none", "present", "deleted"}, cart : Carts \cup {0},
                         variant : Variants \cup {0}, quantity : Nat]]
  /\ placed \in [Carts -> Seq(Lines)]
  /\ pc \in [Requests -> {"idle", "failed", "open", "find", "insert", "merge", "increment",
                          "look", "write", "discard", "lines", "convert", "reply"}]
  /\ req \in [Requests -> Request]

Init ==
  /\ status = [n \in Carts |-> "none"]
  /\ item = [i \in Items |-> NoItem]
  /\ placed = [n \in Carts |-> <<>>]
  /\ pc = [c \in Requests |-> "idle"]
  /\ req = [c \in Requests |-> NoRequest]

-----------------------------------------------------------------------------
(* The tables *)

OpenCarts == {n \in Carts : status[n] = "OPEN"}
IsOldest(n) == n \in OpenCarts /\ \A m \in OpenCarts : n <= m
Present(i) == item[i].state = "present"
Holding(n, v) == {i \in Items : Present(i) /\ item[i].cart = n /\ item[i].variant = v}
Contents(n) == {i \in Items : Present(i) /\ item[i].cart = n}
\* aggregateItems adds up the items of a variant.
Units(n, v) == SumFunction([i \in Holding(n, v) |-> item[i].quantity])

Stand(c, where, r) ==
  /\ pc' = [pc EXCEPT ![c] = where]
  /\ req' = [req EXCEPT ![c] = r]
Answer(c) == Stand(c, "idle", NoRequest)
Fail(c) == Stand(c, "failed", NoRequest)
Done(c) == Stand(c, "reply", [NoRequest EXCEPT !.op = req[c].op, !.cart = req[c].cart])
rows == <<status, item, placed>>

-----------------------------------------------------------------------------
(* Requests *)

\* What a handler does once it has its cart.
AfterCart(op) ==
  CASE op = "add" -> "find" [] op \in {"set", "remove"} -> "look"
    [] op = "discard" -> "discard" [] op = "checkout" -> "lines" [] OTHER -> "reply"
GoOn(c, r, n) == Stand(c, AfterCart(r.op), [r EXCEPT !.cart = n])

\* Each handler begins with the oldest OPEN cart; discardCart asks for no order
\* and may get any.
Begin(c, r) ==
  /\ pc[c] \in {"idle", "failed"}
  /\ \/ \E n \in OpenCarts : (IsOldest(n) \/ r.op = "discard") /\ GoOn(c, r, n)
     \/ /\ OpenCarts = {}
        /\ IF r.op \in {"discard", "checkout"} THEN Fail(c) ELSE Stand(c, "open", r)
  /\ UNCHANGED rows

Asked(op, v, q, i) ==
  [NoRequest EXCEPT !.op = op, !.variant = v, !.amount = q, !.row = i]
GetCart(c) == Begin(c, Asked("get", 0, 0, 0))
AddItem(c) == \E v \in Variants, q \in 1..MaxAmount : Begin(c, Asked("add", v, q, 0))
UpdateItem(c) ==
  \E i \in Items, q \in 1..MaxAmount : item[i].state # "none" /\ Begin(c, Asked("set", 0, q, i))
RemoveItem(c) == \E i \in Items : item[i].state # "none" /\ Begin(c, Asked("remove", 0, 0, i))
DiscardCart(c) == Begin(c, Asked("discard", 0, 0, 0))
Checkout(c) == Begin(c, Asked("checkout", 0, 0, 0))

\* No index keeps a user from having two OPEN carts.
CreateCart(c) ==
  /\ pc[c] = "open"
  /\ \E n \in Carts :
       /\ status[n] = "none" /\ \A m \in 1..(n - 1) : status[m] # "none"
       /\ status' = [status EXCEPT ![n] = "OPEN"]
       /\ GoOn(c, req[c], n)
  /\ UNCHANGED <<item, placed>>

-----------------------------------------------------------------------------
(* addItem *)

FindItem(c) ==
  /\ pc[c] \in {"find", "merge"}
  /\ \/ \E i \in Holding(req[c].cart, req[c].variant) :
          Stand(c, "increment", [req[c] EXCEPT !.row = i])
     \/ /\ Holding(req[c].cart, req[c].variant) = {}
        /\ IF pc[c] = "find" THEN Stand(c, "insert", req[c]) ELSE Fail(c)
  /\ UNCHANGED rows

\* Another request may have inserted the variant, or deleted the cart.
InsertItem(c) ==
  /\ pc[c] = "insert"
  /\ \/ /\ Holding(req[c].cart, req[c].variant) # {}
        /\ Stand(c, "merge", req[c])
        /\ UNCHANGED item
     \/ /\ Holding(req[c].cart, req[c].variant) = {}
        /\ status[req[c].cart] # "deleted"
        /\ \E i \in Items :
             /\ item[i] = NoItem /\ \A j \in 1..(i - 1) : item[j] # NoItem
             /\ item' = [item EXCEPT ![i] = [state |-> "present", cart |-> req[c].cart,
                           variant |-> req[c].variant, quantity |-> req[c].amount]]
        /\ Done(c)
     \/ status[req[c].cart] = "deleted" /\ Fail(c) /\ UNCHANGED item
  /\ UNCHANGED <<status, placed>>

\* Fault: the quantity is set to the one the client adds.
Replaced(old, q) == q
Incremented(old, q) == old + q

IncrementItem(c) ==
  LET i == req[c].row IN
  /\ pc[c] = "increment"
  /\ IF Present(i)
     THEN /\ Incremented(item[i].quantity, req[c].amount) <= MaxUnits
          /\ item' = [item EXCEPT ![i].quantity = Incremented(@, req[c].amount)]
          /\ Done(c)
     ELSE UNCHANGED item /\ Fail(c)
  /\ UNCHANGED <<status, placed>>

-----------------------------------------------------------------------------
(* updateItem, removeItem and discardCart *)

LookUp(c) ==
  /\ pc[c] = "look"
  /\ IF Present(req[c].row) /\ item[req[c].row].cart = req[c].cart
     THEN Stand(c, "write", req[c])
     ELSE Fail(c)
  /\ UNCHANGED rows

WriteItem(c) ==
  LET i == req[c].row IN
  /\ pc[c] = "write"
  /\ IF Present(i)
     THEN /\ item' = [item EXCEPT ![i] = IF req[c].op = "set"
                        THEN [@ EXCEPT !.quantity = req[c].amount] ELSE Deleted]
          /\ Done(c)
     ELSE UNCHANGED item /\ Fail(c)
  /\ UNCHANGED <<status, placed>>

\* The cart takes its items with it, whatever its status is by now.
DeleteCart(c) ==
  LET n == req[c].cart IN
  /\ pc[c] = "discard"
  /\ IF status[n] # "deleted"
     THEN /\ status' = [status EXCEPT ![n] = "deleted"]
          /\ item' = [i \in Items |-> IF i \in Contents(n) THEN Deleted ELSE item[i]]
          /\ Done(c)
     ELSE UNCHANGED <<status, item>> /\ Fail(c)
  /\ UNCHANGED placed

-----------------------------------------------------------------------------
(* createOrder *)

\* The items are read once, outside the transaction.
ReadLines(c) ==
  LET n == req[c].cart IN
  /\ pc[c] = "lines"
  /\ IF Contents(n) = {} THEN Fail(c)
     ELSE Stand(c, "convert", [req[c] EXCEPT !.lines = [v \in Variants |-> Units(n, v)]])
  /\ UNCHANGED rows

\* Fault: the cart is left as it is.
LeftOpen(n) == status
Converted(n) == [status EXCEPT ![n] = "CONVERTED"]

\* One transaction: the lines read are ordered and the cart converted, or, when
\* the engine refuses or the cart has been deleted, neither.
PlaceOrder(c) ==
  LET n == req[c].cart IN
  /\ pc[c] = "convert"
  /\ \/ /\ status[n] # "deleted"
        /\ status' = Converted(n)
        /\ placed' = [placed EXCEPT ![n] = Append(@, req[c].lines)]
        /\ Done(c)
     \/ Fail(c) /\ UNCHANGED <<status, placed>>
  /\ UNCHANGED item

-----------------------------------------------------------------------------
(* Answers *)

\* A handler that shows the cart reads it again first, and answers 404 when it
\* has been deleted, its own write done or not.
Reply(c) ==
  /\ pc[c] = "reply"
  /\ IF req[c].op \in {"add", "set", "remove"} /\ status[req[c].cart] = "deleted"
     THEN Fail(c) ELSE Answer(c)
  /\ UNCHANGED rows

\* A process may die between two statements.
Die(c) == pc[c] \notin {"idle", "failed"} /\ Fail(c) /\ UNCHANGED rows

Next == \E c \in Requests :
  \/ GetCart(c) \/ AddItem(c) \/ UpdateItem(c) \/ RemoveItem(c)
  \/ DiscardCart(c) \/ Checkout(c)
  \/ CreateCart(c) \/ FindItem(c) \/ InsertItem(c) \/ IncrementItem(c)
  \/ LookUp(c) \/ WriteItem(c) \/ DeleteCart(c) \/ ReadLines(c) \/ PlaceOrder(c)
  \/ Reply(c) \/ Die(c)

Spec == Init /\ [][Next]_vars

-----------------------------------------------------------------------------
(* Properties *)

\* A cart an order has been placed from is never found by a later request: a
\* second order from it comes only from a checkout that had found it before.
OrderedCartClosed == \A n \in Carts : placed[n] # <<>> => status[n] # "OPEN"

\* Where each request is in Basket's terms.
Pending ==
  [c \in Requests |->
    [op |-> IF pc[c] = "failed" THEN "failed"
            ELSE IF pc[c] = "reply" /\ req[c].op # "get" THEN "done" ELSE req[c].op,
     variant |-> req[c].variant, amount |-> req[c].amount,
     cart |-> req[c].cart, lines |-> req[c].lines]]
B == INSTANCE Basket WITH
  state <- status,
  units <- [n \in Carts |-> [v \in Variants |-> Units(n, v)]],
  pending <- Pending

\* What a request is answered is what it has done: it took effect at one moment,
\* once and completely, on a cart that was OPEN when it chose it; an order is for
\* what its cart held at one moment, and ends the cart.
ImplementsBasket == B!BSpec
=============================================================================

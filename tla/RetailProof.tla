---------------------------- MODULE RetailProof -----------------------------
(***************************************************************************)
(* Proofs about Cart, for any number of requests, carts, items and units:  *)
(* its invariants, and that it implements Basket; about Listing, for any   *)
(* rows and pages; and, with those of TablesProof, about MCRetail.         *)
(***************************************************************************)
EXTENDS MCRetail, Sums

Ended == {"idle", "failed"}
Living(n) == status[n] \in {"OPEN", "CONVERTED"}

\* A request with record r that stands at statement p has what that statement
\* needs; the item it is about to write is its own cart's, or deleted.
Standing(p, r) ==
  /\ r \in Request
  /\ p \in Ended => r = NoRequest
  /\ p \notin Ended => r.op # "none"
  /\ p = "open" => r.op \in {"get", "add", "set", "remove"} /\ r.cart = 0
  /\ p \in {"find", "insert", "merge", "increment"} => r.op = "add"
  /\ p \in {"look", "write"} => r.op \in {"set", "remove"}
  /\ p = "discard" => r.op = "discard"
  /\ p \in {"lines", "convert"} => r.op = "checkout"
  /\ p \notin Ended \cup {"open"} => r.cart \in Carts /\ status[r.cart] # "none"
  /\ p # "reply" /\ r.op = "add" => r.variant \in Variants
  /\ p # "reply" /\ r.op \in {"set", "remove"} => r.row \in Items /\ item[r.row].state # "none"
  /\ p # "reply" /\ r.op \in {"add", "set"} => r.amount > 0
  /\ p = "increment" =>
       /\ r.row \in Items /\ item[r.row].state # "none"
       /\ Present(r.row) => item[r.row].variant = r.variant
  /\ p \in {"increment", "write"} /\ Present(r.row) => item[r.row].cart = r.cart
  /\ r.lines = NoLines <=> p # "convert"

WaitOK == \A c \in Requests : Standing(pc[c], req[c])

\* What the unique index (cartId, variantId) keeps: one row of a variant in a
\* cart; and what the foreign key does: no row without its cart.
ItemsOK ==
  /\ \A i \in Items : Present(i) =>
       /\ item[i].cart \in Carts /\ Living(item[i].cart)
       /\ item[i].variant \in Variants /\ item[i].quantity > 0
  /\ \A i, j \in Items :
       Present(i) /\ Present(j) /\ item[i].cart = item[j].cart
         /\ item[i].variant = item[j].variant => i = j

OrderedOK == \A n \in Carts : placed[n] # <<>> => status[n] \in {"CONVERTED", "deleted"}

Sound == TypeOK /\ WaitOK /\ ItemsOK /\ OrderedOK

Labels == {"idle", "failed", "open", "find", "insert", "merge", "increment",
           "look", "write", "discard", "lines", "convert", "reply"}
ItemRow == [state : {"none", "present", "deleted"}, cart : Carts \cup {0},
            variant : Variants \cup {0}, quantity : Nat]
RowsOK ==
  /\ status \in [Carts -> {"none", "OPEN", "CONVERTED", "deleted"}]
  /\ item \in [Items -> ItemRow]
  /\ placed \in [Carts -> Seq(Lines)]

\* Rows are deleted, never given twice, and stay of their cart and variant.
Follows ==
  /\ \A n \in Carts : status[n] # "none" => status'[n] # "none"
  /\ \A i \in Items : item[i].state # "none" =>
       /\ item'[i].state # "none"
       /\ item'[i].state = "present" =>
            /\ item[i].state = "present"
            /\ item'[i].variant = item[i].variant /\ item'[i].cart = item[i].cart

-----------------------------------------------------------------------------
(* Types, and what the requests stand on *)

LEMMA NoRequestIs ==
  /\ NoLines \in Lines /\ NoRequest \in Request /\ NoRequest.lines = NoLines
  /\ NoRequest.op = "none" /\ NoRequest.cart = 0
  BY DEF NoRequest, Request, Lines, NoLines

LEMMA EndStands == ASSUME NEW p \in Ended PROVE Standing(p, NoRequest)
  BY NoRequestIs DEF Standing, Ended

LEMMA InitSound == Init => Sound
  <1> SUFFICES ASSUME Init PROVE Sound
    OBVIOUS
  <1>1. TypeOK
    BY NoRequestIs DEF Init, TypeOK, NoItem
  <1>2. WaitOK
    BY EndStands DEF Init, WaitOK, Ended
  <1>3. ItemsOK /\ OrderedOK
    BY DEF Init, ItemsOK, OrderedOK, Present, NoItem
  <1> QED
    BY <1>1, <1>2, <1>3 DEF Sound

LEMMA Typed == TypeOK <=> RowsOK /\ pc \in [Requests -> Labels] /\ req \in [Requests -> Request]
  BY DEF TypeOK, RowsOK, Labels, ItemRow

\* The others stand as before when a request moves and the rows follow.
LEMMA StandKeeps ==
  ASSUME Sound, NEW c \in Requests, NEW p \in Labels, NEW r, Stand(c, p, r),
         Standing(p, r)', Follows, RowsOK', ItemsOK', OrderedOK'
  PROVE  Sound'
  <1>1. r \in Request
    BY DEF Standing
  <1>2. /\ pc' \in [Requests -> Labels] /\ req' \in [Requests -> Request]
    BY <1>1, Typed DEF Stand, Sound
  <1>3. WaitOK'
    <2> SUFFICES ASSUME NEW d \in Requests PROVE Standing(pc[d], req[d])'
      BY DEF WaitOK
    <2>1. CASE d = c
      BY <2>1, Typed DEF Stand, Sound
    <2>2. CASE d # c
      <3>1. pc'[d] = pc[d] /\ req'[d] = req[d] /\ Standing(pc[d], req[d])
        BY <2>2, Typed DEF Stand, Sound, WaitOK
      <3> QED
        BY <3>1 DEF Standing, Follows, Present
    <2> QED
      BY <2>1, <2>2
  <1>4. TypeOK'
    BY <1>2, Typed DEF TypeOK, RowsOK, Labels, ItemRow
  <1> QED
    BY <1>3, <1>4 DEF Sound

\* A step that only moves a request.
LEMMA MoveSound ==
  ASSUME Sound, NEW c \in Requests, NEW p \in Labels, NEW r, Stand(c, p, r),
         Standing(p, r), UNCHANGED rows
  PROVE  Sound'
  <1>1. UNCHANGED <<status, item, placed>> /\ Standing(p, r)'
    BY DEF rows, Standing, Present
  <1>2. Follows /\ RowsOK' /\ ItemsOK' /\ OrderedOK'
    BY <1>1, Typed DEF Follows, Sound, RowsOK, ItemsOK, OrderedOK, Present, Living
  <1> QED
    BY <1>1, <1>2, StandKeeps

LEMMA EndSound ==
  ASSUME Sound, NEW c \in Requests, Answer(c) \/ Fail(c), UNCHANGED rows PROVE Sound'
  BY EndStands, MoveSound DEF Answer, Fail, Labels, Ended

\* A request that has done what it was asked stands at its reply.
LEMMA DoneStands ==
  ASSUME Sound, NEW c \in Requests, pc[c] \notin Ended \cup {"open"}, Follows,
         NEW r, r = [NoRequest EXCEPT !.op = req[c].op, !.cart = req[c].cart]
  PROVE  Standing("reply", r)'
  <1>1. /\ req[c].op # "none" /\ req[c].cart \in Carts /\ status[req[c].cart] # "none"
        /\ req[c] \in Request
    BY DEF Sound, WaitOK, Standing
  <1>2. /\ r.op = req[c].op /\ r.cart = req[c].cart /\ r.lines = NoLines
        /\ r \in Request
    BY <1>1, NoRequestIs DEF Request, NoRequest
  <1>3. status'[r.cart] # "none"
    BY <1>1, <1>2 DEF Follows
  <1> QED
    BY <1>1, <1>2, <1>3 DEF Standing, Ended

LEMMA DoneSound ==
  ASSUME Sound, NEW c \in Requests, Done(c), pc[c] \notin Ended \cup {"open"},
         Follows, RowsOK', ItemsOK', OrderedOK'
  PROVE  Sound'
  <1>1. PICK r : r = [NoRequest EXCEPT !.op = req[c].op, !.cart = req[c].cart]
    OBVIOUS
  <1>2. Standing("reply", r)' /\ Stand(c, "reply", r)
    BY <1>1, DoneStands DEF Done
  <1> QED
    BY <1>2, StandKeeps DEF Labels

-----------------------------------------------------------------------------
(* Requests *)

\* What a client asks for is fit to be done in whatever cart is found.
Fit(r) ==
  /\ r \in Request /\ r.op # "none" /\ r.cart = 0 /\ r.lines = NoLines
  /\ r.op = "add" => r.variant \in Variants
  /\ r.op \in {"set", "remove"} => r.row \in Items /\ item[r.row].state # "none"
  /\ r.op \in {"add", "set"} => r.amount > 0

LEMMA FitStands ==
  ASSUME NEW r, Fit(r)
  PROVE  /\ r.op \notin {"discard", "checkout"} => Standing("open", r)
         /\ \A n \in Carts : status[n] # "none" =>
              /\ AfterCart(r.op) \in Labels
              /\ Standing(AfterCart(r.op), [r EXCEPT !.cart = n])
  <1>1. r.op \notin {"discard", "checkout"} => Standing("open", r)
    BY DEF Fit, Standing, Request, Ended
  <1>2. ASSUME NEW n \in Carts, status[n] # "none"
        PROVE  /\ AfterCart(r.op) \in Labels
               /\ Standing(AfterCart(r.op), [r EXCEPT !.cart = n])
    BY <1>2 DEF Fit, Standing, AfterCart, Labels, Request, Ended
  <1> QED
    BY <1>1, <1>2

LEMMA BeginSound ==
  ASSUME Sound, NEW c \in Requests, NEW r, Begin(c, r), Fit(r)
  PROVE  Sound'
  <1>1. UNCHANGED rows
    BY DEF Begin
  <1>2. CASE Fail(c)
    BY <1>1, <1>2, EndSound
  <1>3. ASSUME NEW n \in OpenCarts, GoOn(c, r, n) PROVE Sound'
    <2>1. n \in Carts /\ status[n] # "none"
      BY DEF OpenCarts
    <2>2. AfterCart(r.op) \in Labels /\ Standing(AfterCart(r.op), [r EXCEPT !.cart = n])
      BY <2>1, FitStands
    <2> QED
      BY <1>1, <1>3, <2>2, MoveSound DEF GoOn
  <1>4. CASE Stand(c, "open", r) /\ r.op \notin {"discard", "checkout"}
    BY <1>1, <1>4, FitStands, MoveSound DEF Labels
  <1> QED
    BY <1>2, <1>3, <1>4 DEF Begin

\* What every endpoint asks for is fit.
LEMMA AskedIs ==
  ASSUME NEW op \in {"get", "add", "set", "remove", "discard", "checkout"},
         NEW v \in Variants \cup {0}, NEW q \in Nat, NEW i \in Items \cup {0},
         op = "add" => v \in Variants,
         op \in {"set", "remove"} => i \in Items /\ item[i].state # "none",
         op \in {"add", "set"} => q > 0
  PROVE  Fit(Asked(op, v, q, i))
  <1> DEFINE r == Asked(op, v, q, i)
  <1>1. /\ r.op = op /\ r.variant = v /\ r.amount = q /\ r.row = i
        /\ r.cart = 0 /\ r.lines = NoLines /\ r \in Request
    BY NoRequestIs DEF Asked, NoRequest, Request
  <1> HIDE DEF r
  <1>2. Fit(r)
    BY <1>1 DEF Fit
  <1> QED
    BY <1>2 DEF r

LEMMA Begins ==
  ASSUME NEW c \in Requests,
         GetCart(c) \/ AddItem(c) \/ UpdateItem(c) \/ RemoveItem(c)
           \/ DiscardCart(c) \/ Checkout(c)
  PROVE  \E r : Fit(r) /\ Begin(c, r)
  <1>0. \A q \in 1..MaxAmount : q \in Nat /\ q > 0
    BY CartAssumption
  <1>1. CASE GetCart(c)
    BY <1>1, AskedIs DEF GetCart
  <1>2. CASE AddItem(c)
    BY <1>0, <1>2, AskedIs DEF AddItem
  <1>3. CASE UpdateItem(c)
    BY <1>0, <1>3, AskedIs DEF UpdateItem
  <1>4. CASE RemoveItem(c)
    BY <1>4, AskedIs DEF RemoveItem
  <1>5. CASE DiscardCart(c)
    BY <1>5, AskedIs DEF DiscardCart
  <1>6. CASE Checkout(c)
    BY <1>6, AskedIs DEF Checkout
  <1> QED
    BY <1>1, <1>2, <1>3, <1>4, <1>5, <1>6

-----------------------------------------------------------------------------
(* Statements that write rows *)

LEMMA CreateSound == ASSUME Sound, NEW c \in Requests, CreateCart(c) PROVE Sound'
  <1>1. PICK n \in Carts :
          /\ status[n] = "none" /\ status' = [status EXCEPT ![n] = "OPEN"]
          /\ GoOn(c, req[c], n)
    BY DEF CreateCart
  <1>2. UNCHANGED <<item, placed>> /\ Fit(req[c])
    BY DEF CreateCart, Sound, WaitOK, Standing, Fit, Ended
  <1>3. RowsOK' /\ Follows /\ ItemsOK' /\ OrderedOK'
    BY <1>1, <1>2, Typed DEF Sound, RowsOK, Follows, ItemsOK, OrderedOK, Present, Living
  <1>4. PICK p, r : p = AfterCart(req[c].op) /\ r = [req[c] EXCEPT !.cart = n]
    OBVIOUS
  <1>5. status'[n] # "none"
    BY <1>1, Typed DEF Sound, RowsOK
  <1>6. p \in Labels /\ Standing(p, r)'
    <2>1. /\ r \in Request /\ r.cart = n /\ r.op = req[c].op /\ r.variant = req[c].variant
          /\ r.amount = req[c].amount /\ r.row = req[c].row /\ r.lines = NoLines
      BY <1>2, <1>4 DEF Fit, Request
    <2>2. r.op \in {"get", "add", "set", "remove"}
      BY <2>1 DEF CreateCart, Sound, WaitOK, Standing
    <2>3. /\ p \in {"reply", "find", "look"}
          /\ p = "find" => r.op = "add"
          /\ p = "look" => r.op \in {"set", "remove"}
      BY <1>4, <2>1, <2>2 DEF AfterCart
    <2> QED
      BY <1>2, <1>5, <2>1, <2>2, <2>3 DEF Fit, Standing, Labels, Ended, Present
  <1> QED
    BY <1>1, <1>3, <1>4, <1>6, StandKeeps DEF GoOn

LEMMA FindSound == ASSUME Sound, NEW c \in Requests, FindItem(c) PROVE Sound'
  <1>1. Standing(pc[c], req[c]) /\ pc[c] \in {"find", "merge"} /\ UNCHANGED rows
    BY DEF Sound, WaitOK, FindItem
  <1>2. ASSUME NEW i \in Holding(req[c].cart, req[c].variant),
               Stand(c, "increment", [req[c] EXCEPT !.row = i])
        PROVE  Sound'
    <2>1. Standing("increment", [req[c] EXCEPT !.row = i])
      BY <1>1 DEF Standing, Holding, Present, Request, Ended
    <2> QED
      BY <1>1, <1>2, <2>1, MoveSound DEF Labels
  <1>3. CASE Stand(c, "insert", req[c])
    <2>1. Standing("insert", req[c])
      BY <1>1 DEF Standing, Ended
    <2> QED
      BY <1>1, <1>3, <2>1, MoveSound DEF Labels
  <1>4. CASE Fail(c)
    BY <1>1, <1>4, EndSound
  <1> QED
    BY <1>2, <1>3, <1>4 DEF FindItem

\* A request is done with a statement on the items alone.
LEMMA WroteSound ==
  ASSUME Sound, NEW c \in Requests, Done(c), pc[c] \notin Ended \cup {"open"},
         UNCHANGED <<status, placed>>, Follows, ItemsOK', item' \in [Items -> ItemRow]
  PROVE  Sound'
  <1>1. RowsOK' /\ OrderedOK'
    BY Typed DEF Sound, RowsOK, OrderedOK
  <1> QED
    BY <1>1, DoneSound

LEMMA InsertSound == ASSUME Sound, NEW c \in Requests, InsertItem(c) PROVE Sound'
  <1>1. /\ Standing("insert", req[c]) /\ req[c] \in Request /\ pc[c] = "insert"
        /\ req[c].cart \in Carts /\ req[c].variant \in Variants
        /\ req[c].amount \in Nat /\ req[c].amount > 0 /\ status[req[c].cart] # "none"
    BY DEF Sound, WaitOK, InsertItem, Standing, Request, Ended
  <1>2. CASE Stand(c, "merge", req[c]) /\ UNCHANGED item
    <2>1. Standing("merge", req[c]) /\ UNCHANGED rows
      BY <1>1, <1>2 DEF InsertItem, Standing, rows, Ended
    <2> QED
      BY <1>2, <2>1, MoveSound DEF Labels
  <1>3. CASE Fail(c) /\ UNCHANGED item
    BY <1>3, EndSound DEF InsertItem, rows
  <1>4. ASSUME NEW i \in Items, item[i] = NoItem, Holding(req[c].cart, req[c].variant) = {},
               item' = [item EXCEPT ![i] = [state |-> "present", cart |-> req[c].cart,
                          variant |-> req[c].variant, quantity |-> req[c].amount]],
               status[req[c].cart] # "deleted", Done(c)
        PROVE  Sound'
    <2>1. UNCHANGED <<status, placed>> /\ Living(req[c].cart)
      BY <1>1, <1>4, Typed DEF InsertItem, Sound, RowsOK, Living
    <2>2. Follows
      BY <1>4, <2>1, Typed DEF Follows, Sound, RowsOK, NoItem
    <2>3. ItemsOK'
      BY <1>1, <1>4, <2>1, Typed DEF Sound, RowsOK, ItemsOK, Holding, Present, Living
    <2>4. item' \in [Items -> ItemRow]
      BY <1>1, <1>4, Typed DEF Sound, RowsOK, ItemRow
    <2> QED
      BY <1>1, <1>4, <2>1, <2>2, <2>3, <2>4, WroteSound DEF Ended
  <1> QED
    BY <1>2, <1>3, <1>4 DEF InsertItem

LEMMA IncrementSound == ASSUME Sound, NEW c \in Requests, IncrementItem(c) PROVE Sound'
  <1> DEFINE i == req[c].row
             x == [item[i] EXCEPT !.quantity = item[i].quantity + req[c].amount]
  <1>1. /\ i \in Items /\ req[c].amount \in Nat /\ pc[c] = "increment"
        /\ UNCHANGED <<status, placed>>
    BY DEF Sound, WaitOK, IncrementItem, Standing, Request
  <1>2. CASE Fail(c) /\ UNCHANGED item
    BY <1>1, <1>2, EndSound DEF rows
  <1>3. CASE /\ Present(i) /\ Done(c)
             /\ item' = [item EXCEPT ![i].quantity = item[i].quantity + req[c].amount]
    <2>1. item[i] \in ItemRow
      BY <1>1, Typed DEF Sound, RowsOK
    <2>2. /\ x \in ItemRow /\ x.state = item[i].state /\ x.cart = item[i].cart
          /\ x.variant = item[i].variant /\ x.quantity >= item[i].quantity
      BY <1>1, <2>1 DEF ItemRow
    <2>3. item' = [item EXCEPT ![i] = x]
      BY <1>1, <1>3, Typed DEF Sound, RowsOK
    <2> HIDE DEF x
    <2>4. item' \in [Items -> ItemRow] /\ \A j \in Items : item[j].quantity \in Nat
      BY <2>2, <2>3, Typed DEF Sound, RowsOK, ItemRow
    <2>5. Follows
      BY <1>1, <2>2, <2>3, Typed DEF Follows, Sound, RowsOK
    <2>6. x.quantity > 0
      <3>1. item[i].quantity \in Nat /\ x.quantity \in Nat
        BY <2>1, <2>2 DEF ItemRow
      <3>2. item[i].quantity > 0
        BY <1>1, <1>3 DEF Sound, ItemsOK
      <3> QED
        BY <2>2, <3>1, <3>2
    <2>7. \A j \in Items :
            /\ item'[j].state = item[j].state /\ item'[j].cart = item[j].cart
            /\ item'[j].variant = item[j].variant
            /\ Present(j) => item'[j].quantity > 0
      BY <1>1, <1>3, <2>2, <2>3, <2>6, Typed DEF Sound, RowsOK, ItemsOK, Present
    <2>8. ItemsOK'
      BY <1>1, <2>7 DEF Sound, ItemsOK, Present, Living
    <2> QED
      BY <1>1, <1>3, <2>4, <2>5, <2>8, WroteSound DEF Ended
  <1> QED
    BY <1>2, <1>3 DEF IncrementItem, Incremented

LEMMA LookUpSound == ASSUME Sound, NEW c \in Requests, LookUp(c) PROVE Sound'
  <1>1. Standing("look", req[c]) /\ UNCHANGED rows
    BY DEF Sound, WaitOK, LookUp
  <1>2. CASE Present(req[c].row) /\ item[req[c].row].cart = req[c].cart /\ Stand(c, "write", req[c])
    <2>1. Standing("write", req[c])
      BY <1>1, <1>2 DEF Standing, Ended
    <2> QED
      BY <1>1, <1>2, <2>1, MoveSound DEF Labels
  <1>3. CASE Fail(c)
    BY <1>1, <1>3, EndSound
  <1> QED
    BY <1>2, <1>3 DEF LookUp

LEMMA WriteSound == ASSUME Sound, NEW c \in Requests, WriteItem(c) PROVE Sound'
  <1> DEFINE i == req[c].row
             x == IF req[c].op = "set" THEN [item[i] EXCEPT !.quantity = req[c].amount] ELSE Deleted
  <1>1. /\ i \in Items /\ req[c].amount \in Nat /\ pc[c] = "write"
        /\ req[c].op = "set" => req[c].amount > 0
        /\ UNCHANGED <<status, placed>>
    BY DEF Sound, WaitOK, WriteItem, Standing, Request, Ended
  <1>2. CASE Fail(c) /\ UNCHANGED item
    BY <1>1, <1>2, EndSound DEF rows
  <1>3. CASE Present(i) /\ Done(c) /\ item' = [item EXCEPT ![i] = x]
    <2>1. item[i] \in ItemRow
      BY <1>1, Typed DEF Sound, RowsOK
    <2>2. /\ x \in ItemRow
          /\ \/ x.state = "deleted"
             \/ /\ x.state = item[i].state /\ x.cart = item[i].cart
                /\ x.variant = item[i].variant /\ x.quantity > 0
      BY <1>1, <2>1 DEF ItemRow, Deleted, NoItem
    <2> HIDE DEF x
    <2>3. item' \in [Items -> ItemRow]
      BY <1>3, <2>2, Typed DEF Sound, RowsOK
    <2>4. Follows
      BY <1>1, <1>3, <2>2, Typed DEF Follows, Sound, RowsOK, Present
    <2>5. ItemsOK'
      BY <1>1, <1>3, <2>2, Typed DEF Sound, RowsOK, ItemsOK, Present, Living
    <2> QED
      BY <1>1, <1>3, <2>3, <2>4, <2>5, WroteSound DEF Ended
  <1> QED
    BY <1>2, <1>3 DEF WriteItem

LEMMA DeleteSound == ASSUME Sound, NEW c \in Requests, DeleteCart(c) PROVE Sound'
  <1> DEFINE n == req[c].cart
  <1>1. n \in Carts /\ UNCHANGED placed /\ pc[c] = "discard"
    BY DEF Sound, WaitOK, DeleteCart, Standing, Ended
  <1>2. CASE UNCHANGED <<status, item>> /\ Fail(c)
    BY <1>1, <1>2, EndSound DEF rows
  <1>3. CASE /\ status' = [status EXCEPT ![n] = "deleted"]
             /\ item' = [i \in Items |-> IF i \in Contents(n) THEN Deleted ELSE item[i]]
             /\ Done(c)
    <2>1. \A j \in Items : IF Present(j) /\ item[j].cart = n THEN item'[j] = Deleted
            ELSE item'[j] = item[j]
      BY <1>3 DEF Contents
    <2>2. \A j \in Items : item'[j].state = "present" => item'[j] = item[j] /\ item[j].cart # n
      BY <2>1 DEF Deleted, NoItem, Present
    <2>3. Follows
      BY <1>1, <1>3, <2>1, <2>2, Typed DEF Follows, Sound, RowsOK, Deleted, NoItem
    <2>4. ItemsOK'
      BY <1>1, <1>3, <2>2, Typed DEF Sound, RowsOK, ItemsOK, Present, Living
    <2>5. RowsOK' /\ OrderedOK'
      BY <1>1, <1>3, <2>1, Typed DEF Sound, RowsOK, OrderedOK, ItemRow, Deleted, NoItem
    <2> QED
      BY <1>1, <1>3, <2>3, <2>4, <2>5, DoneSound DEF Ended
  <1> QED
    BY <1>2, <1>3 DEF DeleteCart

-----------------------------------------------------------------------------
(* The units of a variant *)

\* The units a table of items gives to a variant in a cart.
HoldingIn(it, n, v) ==
  {i \in Items : it[i].state = "present" /\ it[i].cart = n /\ it[i].variant = v}
UnitsIn(it, n, v) == SumFunction([i \in HoldingIn(it, n, v) |-> it[i].quantity])
OneRow(it) ==
  /\ it \in [Items -> ItemRow]
  /\ \A i, j \in Items :
       it[i].state = "present" /\ it[j].state = "present" /\ it[i].cart = it[j].cart
         /\ it[i].variant = it[j].variant => i = j
Table(it) == [n \in Carts |-> [v \in Variants |-> UnitsIn(it, n, v)]]

\* Where a variant has one row, its units are that row's.
LEMMA UnitsAre ==
  ASSUME NEW it, OneRow(it), NEW n, NEW v, NEW i \in HoldingIn(it, n, v)
  PROVE  UnitsIn(it, n, v) = it[i].quantity
  <1> DEFINE f == [j \in HoldingIn(it, n, v) |-> it[j].quantity]
  <1>1. i \in Items /\ HoldingIn(it, n, v) = {i}
    BY DEF HoldingIn, OneRow
  <1>2. f[i] = it[i].quantity /\ f[i] \in Int /\ DOMAIN f = {i}
    BY <1>1 DEF OneRow, ItemRow
  <1> HIDE DEF f
  <1>3. SumFunctionOnSet(f, {i}) = f[i] + SumFunctionOnSet(f, {i} \ {i})
    BY <1>2, SumStep, FS_Singleton
  <1>4. SumFunctionOnSet(f, {i} \ {i}) = 0
    <2>1. {i} \ {i} = {}
      OBVIOUS
    <2> QED
      BY <2>1, SumEmpty
  <1>5. UnitsIn(it, n, v) = SumFunctionOnSet(f, {i})
    BY <1>2 DEF UnitsIn, SumFunction, f
  <1> QED
    BY <1>2, <1>3, <1>4, <1>5

LEMMA UnitsNone ==
  ASSUME NEW it, NEW n, NEW v, HoldingIn(it, n, v) = {} PROVE UnitsIn(it, n, v) = 0
  BY SumEmpty DEF UnitsIn, SumFunction

LEMMA UnitsSame ==
  ASSUME NEW it, NEW new, NEW n, NEW v,
         HoldingIn(new, n, v) = HoldingIn(it, n, v),
         \A i \in HoldingIn(it, n, v) : new[i].quantity = it[i].quantity
  PROVE  UnitsIn(new, n, v) = UnitsIn(it, n, v)
  <1>1. [i \in HoldingIn(new, n, v) |-> new[i].quantity]
          = [i \in HoldingIn(it, n, v) |-> it[i].quantity]
    OBVIOUS
  <1> QED
    BY <1>1 DEF UnitsIn

LEMMA TableTyped == ASSUME NEW it, OneRow(it) PROVE Table(it) \in [Carts -> Lines]
  <1> SUFFICES ASSUME NEW n \in Carts, NEW v \in Variants PROVE UnitsIn(it, n, v) \in Nat
    BY DEF Table, Lines
  <1>1. CASE HoldingIn(it, n, v) = {}
    BY <1>1, UnitsNone
  <1>2. ASSUME NEW i \in HoldingIn(it, n, v) PROVE UnitsIn(it, n, v) \in Nat
    <2>1. it[i].quantity \in Nat
      BY DEF HoldingIn, OneRow, ItemRow
    <2> QED
      BY <2>1, UnitsAre
  <1> QED
    BY <1>1, <1>2

LEMMA SoundOneRow == Sound => OneRow(item)
  BY Typed DEF Sound, ItemsOK, OneRow, Present, RowsOK

LEMMA UnitsIs == \A n, v : Units(n, v) = UnitsIn(item, n, v)
  BY DEF Units, UnitsIn, Holding, HoldingIn, Present

\* What a checkout reads of a cart that holds something.
LEMMA LinesRead ==
  ASSUME Sound, NEW n \in Carts
  PROVE  LET lines == [v \in Variants |-> Units(n, v)] IN
           /\ lines \in Lines /\ lines = Table(item)[n]
           /\ Contents(n) # {} => lines # NoLines
  <1> DEFINE lines == [v \in Variants |-> Units(n, v)]
  <1>1. lines = Table(item)[n] /\ Table(item) \in [Carts -> Lines]
    BY UnitsIs, SoundOneRow, TableTyped DEF Table
  <1>2. ASSUME NEW i \in Contents(n) PROVE lines # NoLines
    <2>1. /\ item[i].variant \in Variants /\ item[i].quantity > 0
          /\ i \in HoldingIn(item, n, item[i].variant) /\ item[i].quantity \in Nat
      BY Typed DEF Contents, Sound, ItemsOK, HoldingIn, Present, RowsOK, ItemRow
    <2>2. lines[item[i].variant] = item[i].quantity
      BY <2>1, UnitsIs, UnitsAre, SoundOneRow
    <2> QED
      BY <2>1, <2>2 DEF NoLines
  <1> QED
    BY <1>1, <1>2

-----------------------------------------------------------------------------
(* createOrder and the answers *)

LEMMA ReadSound == ASSUME Sound, NEW c \in Requests, ReadLines(c) PROVE Sound'
  <1>1. Standing("lines", req[c]) /\ UNCHANGED rows /\ req[c].cart \in Carts
    BY DEF Sound, WaitOK, ReadLines, Standing, Ended
  <1>2. CASE Fail(c)
    BY <1>1, <1>2, EndSound
  <1>3. ASSUME NEW lines, lines = [v \in Variants |-> Units(req[c].cart, v)],
               Contents(req[c].cart) # {}, Stand(c, "convert", [req[c] EXCEPT !.lines = lines])
        PROVE  Sound'
    <2>1. lines \in Lines /\ lines # NoLines
      BY <1>1, <1>3, LinesRead
    <2>2. Standing("convert", [req[c] EXCEPT !.lines = lines])
      BY <1>1, <2>1 DEF Standing, Request, Ended
    <2> QED
      BY <1>1, <1>3, <2>2, MoveSound DEF Labels
  <1> QED
    BY <1>2, <1>3 DEF ReadLines

LEMMA PlaceSound == ASSUME Sound, NEW c \in Requests, PlaceOrder(c) PROVE Sound'
  <1> DEFINE n == req[c].cart
  <1>1. n \in Carts /\ UNCHANGED item /\ req[c].lines \in Lines /\ pc[c] = "convert"
          /\ status[n] # "none"
    BY DEF Sound, WaitOK, PlaceOrder, Standing, Request, Ended
  <1>2. CASE UNCHANGED <<status, placed>> /\ Fail(c)
    BY <1>1, <1>2, EndSound DEF rows
  <1>3. CASE /\ status[n] # "deleted" /\ status' = [status EXCEPT ![n] = "CONVERTED"]
             /\ placed' = [placed EXCEPT ![n] = Append(placed[n], req[c].lines)]
             /\ Done(c)
    <2>1. Follows
      BY <1>1, <1>3, Typed DEF Follows, Sound, RowsOK
    <2>2. ItemsOK'
      BY <1>1, <1>3, Typed DEF Sound, RowsOK, ItemsOK, Present, Living
    <2>3. Append(placed[n], req[c].lines) \in Seq(Lines)
      BY <1>1, Typed DEF Sound, RowsOK
    <2>4. RowsOK'
      BY <1>1, <1>3, <2>3, Typed DEF Sound, RowsOK
    <2>5. OrderedOK'
      BY <1>1, <1>3, Typed DEF Sound, RowsOK, OrderedOK
    <2> QED
      BY <1>1, <1>3, <2>1, <2>2, <2>4, <2>5, DoneSound DEF Ended
  <1> QED
    BY <1>2, <1>3 DEF PlaceOrder, Converted

LEMMA NextSound == Sound /\ [Next]_vars => Sound'
  <1> SUFFICES ASSUME Sound, [Next]_vars PROVE Sound'
    OBVIOUS
  <1>1. CASE UNCHANGED vars
    BY <1>1 DEF vars, Sound, TypeOK, WaitOK, Standing, ItemsOK, OrderedOK, Present, Living
  <1>2. ASSUME NEW c \in Requests, Die(c) \/ Reply(c) PROVE Sound'
    BY <1>2, EndSound DEF Die, Reply
  <1>3. ASSUME NEW c \in Requests,
               GetCart(c) \/ AddItem(c) \/ UpdateItem(c) \/ RemoveItem(c)
                 \/ DiscardCart(c) \/ Checkout(c)
        PROVE  Sound'
    BY <1>3, Begins, BeginSound
  <1> QED
    BY <1>1, <1>2, <1>3, CreateSound, FindSound, InsertSound, IncrementSound,
       LookUpSound, WriteSound, DeleteSound, ReadSound, PlaceSound DEF Next

LEMMA AlwaysSound == Spec => []Sound
  BY InitSound, NextSound, PTL DEF Spec

-----------------------------------------------------------------------------
(* Theorems *)

\* Every state the requests reach is type-correct, however many interleave.
THEOREM TypeCorrect == Spec => []TypeOK
  BY AlwaysSound, PTL DEF Sound

\* A cart that has been ordered is never OPEN again: a second checkout finds it
\* only if it had found it before.
THEOREM OrderedStaysClosed == Spec => []OrderedCartClosed
  <1>1. Sound => OrderedCartClosed
    BY DEF Sound, OrderedOK, OrderedCartClosed
  <1> QED
    BY <1>1, AlwaysSound, PTL

\* A variant has one row in a cart, whatever additions race, and no row is left
\* of a cart that is deleted.
THEOREM OneRowPerVariant == Spec => []ItemsOK
  BY AlwaysSound, PTL DEF Sound

-----------------------------------------------------------------------------
(* Cart implements Basket: its rows *)

Setting(table, n, v, q) == [table EXCEPT ![n][v] = q]

LEMMA TableIs ==
  ASSUME NEW it, NEW new, NEW n \in Carts, NEW v \in Variants,
         \A m \in Carts, w \in Variants :
           m # n \/ w # v => UnitsIn(new, m, w) = UnitsIn(it, m, w)
  PROVE  Table(new) = Setting(Table(it), n, v, UnitsIn(new, n, v))
  <1> DEFINE old == Table(it)  tab == Table(new)  line == [old[n] EXCEPT ![v] = UnitsIn(new, n, v)]
  <1>1. tab[n] = line
    BY DEF Table
  <1>2. \A m \in Carts \ {n} : tab[m] = old[m]
    BY DEF Table
  <1>3. old = [m \in Carts |-> old[m]] /\ tab = [m \in Carts |-> tab[m]]
    BY DEF Table
  <1>4. tab = [old EXCEPT ![n] = line]
    <2> HIDE DEF old, tab, line
    <2> QED
      BY <1>1, <1>2, <1>3
  <1> QED
    BY <1>4 DEF Setting

\* One row is written, and is of variant v in cart n.
LEMMA RowPut ==
  ASSUME NEW it, NEW new, OneRow(new), NEW n \in Carts, NEW v \in Variants,
         NEW i \in Items, \A j \in Items \ {i} : new[j] = it[j],
         it[i].state = "present" => it[i].cart = n /\ it[i].variant = v,
         new[i].state = "present", new[i].cart = n, new[i].variant = v
  PROVE  Table(new) = Setting(Table(it), n, v, new[i].quantity)
  <1>1. UnitsIn(new, n, v) = new[i].quantity
    <2>1. i \in HoldingIn(new, n, v)
      BY DEF HoldingIn
    <2> QED
      BY <2>1, UnitsAre
  <1>2. ASSUME NEW m \in Carts, NEW w \in Variants, m # n \/ w # v
        PROVE  UnitsIn(new, m, w) = UnitsIn(it, m, w)
    <2>1. HoldingIn(new, m, w) = HoldingIn(it, m, w) /\ i \notin HoldingIn(it, m, w)
      BY <1>2 DEF HoldingIn
    <2>2. \A j \in HoldingIn(it, m, w) : new[j].quantity = it[j].quantity
      BY <2>1 DEF HoldingIn
    <2> QED
      BY <2>1, <2>2, UnitsSame
  <1>3. Table(new) = Setting(Table(it), n, v, UnitsIn(new, n, v))
    BY <1>2, TableIs
  <1> QED
    BY <1>1, <1>3

\* One row is removed.
LEMMA RowTaken ==
  ASSUME NEW it, NEW new, OneRow(it), NEW n \in Carts, NEW v \in Variants,
         NEW i \in Items, \A j \in Items \ {i} : new[j] = it[j],
         it[i].state = "present", it[i].cart = n, it[i].variant = v,
         new[i].state # "present"
  PROVE  Table(new) = Setting(Table(it), n, v, 0)
  <1>1. UnitsIn(new, n, v) = 0
    <2>1. HoldingIn(new, n, v) = {}
      BY DEF HoldingIn, OneRow
    <2> QED
      BY <2>1, UnitsNone
  <1>2. ASSUME NEW m \in Carts, NEW w \in Variants, m # n \/ w # v
        PROVE  UnitsIn(new, m, w) = UnitsIn(it, m, w)
    <2>1. HoldingIn(new, m, w) = HoldingIn(it, m, w) /\ i \notin HoldingIn(it, m, w)
      BY <1>2 DEF HoldingIn
    <2>2. \A j \in HoldingIn(it, m, w) : new[j].quantity = it[j].quantity
      BY <2>1 DEF HoldingIn
    <2> QED
      BY <2>1, <2>2, UnitsSame
  <1>3. Table(new) = Setting(Table(it), n, v, UnitsIn(new, n, v))
    BY <1>2, TableIs
  <1> QED
    BY <1>1, <1>3

-----------------------------------------------------------------------------
(* Cart implements Basket: its requests *)

\* What a request at statement p with record r still has to do.
Told(p, r) ==
  [op |-> IF p = "failed" THEN "failed"
          ELSE IF p = "reply" /\ r.op # "get" THEN "done" ELSE r.op,
   variant |-> r.variant, amount |-> r.amount, cart |-> r.cart, lines |-> r.lines]

\* The refinement mapping in these terms.
LEMMA Mapping ==
  /\ Pending = [c \in Requests |-> Told(pc[c], req[c])]
  /\ [n \in Carts |-> [v \in Variants |-> Units(n, v)]] = Table(item)
  /\ [n \in Carts |-> [v \in Variants |-> Units(n, v)]]' = Table(item')
  /\ B!bvars = <<status, placed, Pending, Table(item)>>
  /\ B!bvars' = <<status', placed', Pending', Table(item')>>
  BY DEF B!bvars, Table, Units, UnitsIn, Holding, HoldingIn, Present, Pending, Told

LEMMA StandTells ==
  ASSUME Sound, NEW c \in Requests, NEW p, NEW r, Stand(c, p, r)
  PROVE  /\ Pending' = [Pending EXCEPT ![c] = Told(p, r)] /\ Pending[c] = Told(pc[c], req[c])
         /\ Pending'[c] = Told(p, r)
         /\ Told(p, r) = Told(pc[c], req[c]) => Pending' = Pending
  <1> DEFINE old == Pending  new == Pending'
  <1>1. old = [d \in Requests |-> Told(pc[d], req[d])]
    BY Mapping
  <1>2. new = [d \in Requests |-> Told(pc'[d], req'[d])]
    BY DEF Pending, Told
  <1>3. /\ pc'[c] = p /\ req'[c] = r
        /\ \A d \in Requests \ {c} : pc'[d] = pc[d] /\ req'[d] = req[d]
    BY Typed DEF Stand, Sound
  <1> HIDE DEF old, new
  <1>4. /\ new = [old EXCEPT ![c] = Told(p, r)] /\ old[c] = Told(pc[c], req[c])
        /\ new[c] = Told(p, r)
        /\ Told(p, r) = Told(pc[c], req[c]) => new = old
    BY <1>1, <1>2, <1>3
  <1> QED
    BY <1>4 DEF old, new

LEMMA RowsMap ==
  ASSUME UNCHANGED rows
  PROVE  UNCHANGED <<status, placed>> /\ Table(item') = Table(item)
  BY DEF rows

\* A request that goes on with what it was asked.
LEMMA StayIs ==
  ASSUME Sound, NEW c \in Requests, NEW p, NEW r, Stand(c, p, r), UNCHANGED rows,
         Told(p, r) = Told(pc[c], req[c])
  PROVE  [B!BNext]_(B!bvars)
  <1>1. Pending' = Pending
    BY StandTells
  <1> QED
    BY <1>1, RowsMap, Mapping

AfterWork(op, n) ==
  [op |-> op, variant |-> 0, amount |-> 0, cart |-> n, lines |-> NoLines]

LEMMA AfterIs ==
  /\ \A op, n : B!After(op, n) = AfterWork(op, n)
  /\ B!Nothing = AfterWork("none", 0) /\ B!Failed = AfterWork("failed", 0) /\ B!Empty = NoLines
  /\ Told("idle", NoRequest) = AfterWork("none", 0)
  /\ Told("failed", NoRequest) = AfterWork("failed", 0)
  BY DEF B!Nothing, B!Failed, B!Empty, B!After, AfterWork, Told, NoLines, NoRequest

LEMMA FailIs ==
  ASSUME Sound, NEW c \in Requests, Fail(c), UNCHANGED rows PROVE [B!BNext]_(B!bvars)
  <1>1. Pending' = [Pending EXCEPT ![c] = B!Failed]
    BY StandTells, AfterIs DEF Fail
  <1>2. B!GiveUp(c)
    BY <1>1, RowsMap, Mapping DEF B!GiveUp, B!Becomes, B!bvars
  <1> QED
    BY <1>2 DEF B!BNext

LEMMA ReplyIs == ASSUME Sound, NEW c \in Requests, Reply(c) PROVE [B!BNext]_(B!bvars)
  <1>1. UNCHANGED rows /\ pc[c] = "reply" /\ req[c].cart \in Carts
    BY DEF Reply, Sound, WaitOK, Standing, Ended
  <1>2. CASE Fail(c)
    BY <1>1, <1>2, FailIs
  <1>3. CASE Answer(c)
    <2>1. Pending' = [Pending EXCEPT ![c] = B!Nothing] /\ Pending[c] = Told(pc[c], req[c])
      BY <1>3, StandTells, AfterIs DEF Answer
    <2>2. Pending[c].cart # 0 /\ Pending[c].op \in {"get", "done"}
      BY <1>1, <2>1 DEF Told, Carts
    <2>3. B!Succeed(c)
      BY <1>1, <2>1, <2>2, RowsMap, Mapping
         DEF B!Succeed, B!Does, B!Mine, B!Becomes, B!bvars
    <2> QED
      BY <2>3 DEF B!BNext
  <1> QED
    BY <1>2, <1>3 DEF Reply

\* A request at a statement has a cart, and its record says what it has to do.
LEMMA AtWork ==
  ASSUME Sound, NEW c \in Requests, pc[c] \notin Ended \cup {"open", "reply"}
  PROVE  /\ Pending[c].op = req[c].op /\ Pending[c].cart = req[c].cart
         /\ Pending[c].variant = req[c].variant /\ Pending[c].amount = req[c].amount
         /\ Pending[c].lines = req[c].lines
         /\ req[c].cart \in Carts /\ req[c].cart # 0 /\ req[c] \in Request
         /\ req[c].amount \in Nat /\ status[req[c].cart] # "none"
         /\ req[c].op # "none" /\ req[c].op # "get"
  <1>1. Standing(pc[c], req[c])
    BY DEF Sound, WaitOK
  <1>2. Pending[c] = Told(pc[c], req[c])
    BY Mapping
  <1>3. /\ req[c].cart \in Carts /\ req[c].cart # 0 /\ req[c] \in Request
        /\ req[c].amount \in Nat /\ status[req[c].cart] # "none"
        /\ req[c].op # "none" /\ req[c].op # "get"
    BY <1>1, Typed DEF Standing, Ended, Request, Carts, Labels, Sound
  <1> QED
    BY <1>2, <1>3 DEF Told, Ended

LEMMA DoneIs ==
  ASSUME Sound, NEW c \in Requests, Done(c), pc[c] \notin Ended \cup {"open", "reply"}
  PROVE  Pending' = [Pending EXCEPT ![c] = AfterWork("done", Pending[c].cart)]
  <1>1. PICK r : r = [NoRequest EXCEPT !.op = req[c].op, !.cart = req[c].cart]
    OBVIOUS
  <1>2. /\ r.op = req[c].op /\ r.cart = req[c].cart /\ r.variant = 0 /\ r.amount = 0
        /\ r.lines = NoLines
    BY <1>1 DEF NoRequest
  <1>3. r.op # "get" /\ r.cart = Pending[c].cart
    BY <1>2, AtWork
  <1>4. Told("reply", r) = AfterWork("done", Pending[c].cart)
    BY <1>2, <1>3 DEF Told, AfterWork
  <1> QED
    BY <1>1, <1>4, StandTells DEF Done

\* The effects of Basket in these terms.
LEMMA AddIs ==
  ASSUME NEW c \in Requests, NEW n \in Carts, NEW v \in Variants, UNCHANGED <<status, placed>>,
         Living(n), Pending[c].op = "add", Pending[c].variant = v, Pending[c].cart = n, n # 0,
         Table(item') = Setting(Table(item), n, v, UnitsIn(item, n, v) + Pending[c].amount),
         Pending' = [Pending EXCEPT ![c] = AfterWork("done", Pending[c].cart)]
  PROVE  B!BNext
  <1>1. Table(item)[n][v] = UnitsIn(item, n, v)
    BY DEF Table
  <1>2. B!Finish(c)
    BY AfterIs DEF B!Finish, B!Becomes, B!Mine
  <1>3. Table(item') = [Table(item) EXCEPT ![n][v] = Table(item)[n][v] + Pending[c].amount]
    BY <1>1 DEF Setting
  <1>4. B!Add(c)
    BY <1>2, <1>3, Mapping DEF B!Add, B!Does, B!Mine, B!Lives, Living
  <1> QED
    BY <1>4 DEF B!BNext

LEMMA SetIs ==
  ASSUME NEW c \in Requests, NEW n \in Carts, NEW v \in Variants, UNCHANGED <<status, placed>>,
         Living(n), Pending[c].op = "set", Pending[c].cart = n, n # 0, UnitsIn(item, n, v) > 0,
         Table(item') = Setting(Table(item), n, v, Pending[c].amount),
         Pending' = [Pending EXCEPT ![c] = AfterWork("done", Pending[c].cart)]
  PROVE  B!BNext
  <1>1. Table(item)[n][v] = UnitsIn(item, n, v)
    BY DEF Table
  <1>2. B!Finish(c)
    BY AfterIs DEF B!Finish, B!Becomes, B!Mine
  <1>3. B!Set(c, v)
    BY <1>1, <1>2, Mapping DEF B!Set, B!Does, B!Mine, B!Lives, Living, B!bvars, Setting
  <1> QED
    BY <1>3 DEF B!BNext

LEMMA RemoveIs ==
  ASSUME NEW c \in Requests, NEW n \in Carts, NEW v \in Variants, UNCHANGED <<status, placed>>,
         Living(n), Pending[c].op = "remove", Pending[c].cart = n, n # 0, UnitsIn(item, n, v) > 0,
         Table(item') = Setting(Table(item), n, v, 0),
         Pending' = [Pending EXCEPT ![c] = AfterWork("done", Pending[c].cart)]
  PROVE  B!BNext
  <1>1. Table(item)[n][v] = UnitsIn(item, n, v)
    BY DEF Table
  <1>2. B!Finish(c)
    BY AfterIs DEF B!Finish, B!Becomes, B!Mine
  <1>3. B!Remove(c, v)
    BY <1>1, <1>2, Mapping DEF B!Remove, B!Does, B!Mine, B!Lives, Living, B!bvars, Setting
  <1> QED
    BY <1>3 DEF B!BNext

-----------------------------------------------------------------------------
(* Every step is one of Basket's *)

LEMMA BeginMaps ==
  ASSUME Sound, NEW c \in Requests, NEW r, Begin(c, r), Fit(r)
  PROVE  [B!BNext]_(B!bvars)
  <1>1. /\ UNCHANGED rows /\ pc[c] \in Ended /\ Pending[c].op \in {"none", "failed"}
    BY Mapping, NoRequestIs DEF Begin, Ended, Told, Sound, WaitOK, Standing
  <1>2. CASE Fail(c)
    BY <1>1, <1>2, FailIs
  <1>3. ASSUME NEW p, NEW x, NEW n \in Carts \cup {0}, Stand(c, p, x),
               x = [r EXCEPT !.cart = n], p # "failed", p = "reply" => r.op = "get",
               IF n = 0 THEN OpenCarts = {} ELSE n \in OpenCarts
        PROVE  B!BNext
    <2>1. Pending'[c] = Told(p, x) /\ Pending' = [Pending EXCEPT ![c] = Pending'[c]]
      BY <1>3, StandTells
    <2>2. Told(p, x) \in B!Wish /\ Told(p, x).cart = n
      BY <1>3, AfterIs DEF Told, Fit, Request, B!Wish
    <2>3. IF n = 0 THEN \A m \in Carts : status[m] # "OPEN" ELSE status[n] = "OPEN"
      BY <1>3 DEF OpenCarts
    <2>4. B!Submit(c)
      BY <1>1, <2>1, <2>2, <2>3, RowsMap, Mapping DEF B!Submit, B!Becomes, B!bvars
    <2> QED
      BY <2>4 DEF B!BNext
  <1>4. CASE Stand(c, "open", r) /\ OpenCarts = {}
    <2>1. r = [r EXCEPT !.cart = 0]
      BY DEF Fit, Request
    <2> QED
      BY <1>3, <1>4, <2>1
  <1>5. ASSUME NEW n \in OpenCarts, GoOn(c, r, n) PROVE [B!BNext]_(B!bvars)
    <2>1. n \in Carts /\ n # 0
      BY DEF OpenCarts, Carts
    <2>2. AfterCart(r.op) # "failed" /\ (AfterCart(r.op) = "reply" => r.op = "get")
      BY DEF AfterCart, Fit, Request
    <2> QED
      BY <1>3, <1>5, <2>1, <2>2 DEF GoOn
  <1> QED
    BY <1>2, <1>4, <1>5 DEF Begin

LEMMA CreateMaps == ASSUME Sound, NEW c \in Requests, CreateCart(c) PROVE [B!BNext]_(B!bvars)
  <1>1. PICK n \in Carts :
          /\ status[n] = "none" /\ status' = [status EXCEPT ![n] = "OPEN"]
          /\ GoOn(c, req[c], n)
    BY DEF CreateCart
  <1>2. UNCHANGED <<item, placed>> /\ pc[c] = "open" /\ req[c] \in Request
          /\ req[c].op \in {"get", "add", "set", "remove"} /\ req[c].cart = 0
    BY DEF CreateCart, Sound, WaitOK, Standing
  <1>3. Pending[c] = Told("open", req[c])
    BY <1>2, Mapping
  <1>4. PICK p, r : p = AfterCart(req[c].op) /\ r = [req[c] EXCEPT !.cart = n] /\ Stand(c, p, r)
    BY <1>1 DEF GoOn
  <1>5. p # "failed" /\ (p = "reply" => req[c].op = "get")
    BY <1>2, <1>4 DEF AfterCart
  <1>6. Told(p, r) = [Pending[c] EXCEPT !.cart = n]
    BY <1>2, <1>3, <1>4, <1>5 DEF Told, Request
  <1>7. Pending' = [Pending EXCEPT ![c] = [Pending[c] EXCEPT !.cart = n]]
    BY <1>4, <1>6, StandTells
  <1>8. Pending[c].op = req[c].op /\ Pending[c].cart = 0
    BY <1>2, <1>3 DEF Told
  <1>9. B!Open(c, n)
    BY <1>1, <1>2, <1>7, <1>8, Mapping DEF B!Open, B!Mine, B!Becomes, B!bvars, Table
  <1> QED
    BY <1>9 DEF B!BNext

LEMMA FindMaps == ASSUME Sound, NEW c \in Requests, FindItem(c) PROVE [B!BNext]_(B!bvars)
  <1>1. pc[c] \in {"find", "merge"} /\ UNCHANGED rows /\ req[c] \in Request
    BY Typed DEF FindItem, Sound
  <1>2. CASE Fail(c)
    BY <1>1, <1>2, FailIs
  <1>3. CASE Stand(c, "insert", req[c])
    <2>1. Told("insert", req[c]) = Told(pc[c], req[c])
      BY <1>1 DEF Told
    <2> QED
      BY <1>1, <1>3, <2>1, StayIs
  <1>4. ASSUME NEW i, Stand(c, "increment", [req[c] EXCEPT !.row = i])
        PROVE  [B!BNext]_(B!bvars)
    <2>1. Told("increment", [req[c] EXCEPT !.row = i]) = Told(pc[c], req[c])
      BY <1>1 DEF Told, Request
    <2> QED
      BY <1>1, <1>4, <2>1, StayIs
  <1> QED
    BY <1>2, <1>3, <1>4 DEF FindItem

LEMMA InsertMaps == ASSUME Sound, Sound', NEW c \in Requests, InsertItem(c)
  PROVE [B!BNext]_(B!bvars)
  <1> DEFINE n == req[c].cart  v == req[c].variant
  <1>1. /\ pc[c] = "insert" /\ UNCHANGED <<status, placed>> /\ v \in Variants
        /\ req[c].op = "add"
    BY DEF InsertItem, Sound, WaitOK, Standing
  <1>2. /\ Pending[c].op = "add" /\ Pending[c].cart = n /\ Pending[c].variant = v
        /\ Pending[c].amount = req[c].amount /\ req[c].amount \in Nat
        /\ n \in Carts /\ n # 0 /\ status[n] # "none" /\ pc[c] \notin Ended \cup {"open", "reply"}
    BY <1>1, AtWork DEF Ended
  <1>3. CASE UNCHANGED item /\ Stand(c, "merge", req[c])
    <2>1. Told("merge", req[c]) = Told(pc[c], req[c])
      BY <1>1 DEF Told
    <2> QED
      BY <1>1, <1>3, <2>1, StayIs DEF rows
  <1>4. CASE UNCHANGED item /\ Fail(c)
    BY <1>1, <1>4, FailIs DEF rows
  <1>5. ASSUME NEW i \in Items, item[i] = NoItem, Holding(n, v) = {}, Done(c),
               status[n] # "deleted",
               item' = [item EXCEPT ![i] = [state |-> "present", cart |-> n,
                          variant |-> v, quantity |-> req[c].amount]]
        PROVE  [B!BNext]_(B!bvars)
    <2>1. OneRow(item') /\ Living(n)
      BY <1>2, <1>5, Typed, SoundOneRow
         DEF Sound, ItemsOK, OneRow, Present, RowsOK, Living, TypeOK, ItemRow
    <2>2. /\ \A j \in Items \ {i} : item'[j] = item[j]
          /\ item[i].state # "present" /\ item'[i].state = "present"
          /\ item'[i].cart = n /\ item'[i].variant = v /\ item'[i].quantity = req[c].amount
      BY <1>5, Typed DEF Sound, RowsOK, NoItem
    <2>3. Table(item') = Setting(Table(item), n, v, req[c].amount)
      BY <1>1, <1>2, <2>1, <2>2, RowPut
    <2>4. UnitsIn(item, n, v) = 0
      <3>1. HoldingIn(item, n, v) = {}
        BY <1>5 DEF HoldingIn, Holding, Present
      <3> QED
        BY <3>1, UnitsNone
    <2>5. Table(item') = Setting(Table(item), n, v, UnitsIn(item, n, v) + Pending[c].amount)
      BY <1>2, <2>3, <2>4
    <2>6. Pending' = [Pending EXCEPT ![c] = AfterWork("done", Pending[c].cart)]
      BY <1>2, <1>5, DoneIs
    <2> HIDE DEF n, v
    <2> QED
      BY <1>1, <1>2, <2>1, <2>5, <2>6, AddIs
  <1> QED
    BY <1>3, <1>4, <1>5 DEF InsertItem

\* A row that a request has found, where it is still there.
LEMMA RowIs ==
  ASSUME Sound, NEW c \in Requests, pc[c] \in {"increment", "write"}, Present(req[c].row)
  PROVE  LET i == req[c].row  n == req[c].cart  v == item[i].variant IN
           /\ i \in Items /\ item[i].cart = n /\ n \in Carts /\ n # 0 /\ Living(n)
           /\ v \in Variants /\ item[i].state = "present" /\ item[i] \in ItemRow
           /\ OneRow(item) /\ UnitsIn(item, n, v) = item[i].quantity /\ item[i].quantity > 0
           /\ Pending[c].op = req[c].op /\ Pending[c].amount = req[c].amount
           /\ Pending[c].cart = n /\ Pending[c].variant = req[c].variant
           /\ req[c].amount \in Nat /\ pc[c] \notin Ended \cup {"open", "reply"}
           /\ pc[c] = "increment" => req[c].op = "add" /\ v = req[c].variant
           /\ pc[c] = "write" => req[c].op \in {"set", "remove"}
  <1> DEFINE i == req[c].row  n == req[c].cart  v == item[i].variant
  <1>1. /\ i \in Items /\ item[i].cart = n
        /\ pc[c] = "increment" => req[c].op = "add" /\ v = req[c].variant
        /\ pc[c] = "write" => req[c].op \in {"set", "remove"}
    BY DEF Sound, WaitOK, Standing
  <1>2. /\ n \in Carts /\ n # 0 /\ Living(n) /\ v \in Variants /\ item[i].state = "present"
        /\ item[i].quantity > 0 /\ item[i] \in ItemRow
    BY <1>1, Typed DEF Sound, ItemsOK, Present, RowsOK, Carts
  <1>3. OneRow(item) /\ i \in HoldingIn(item, n, v)
    BY <1>1, <1>2, SoundOneRow DEF HoldingIn
  <1>4. UnitsIn(item, n, v) = item[i].quantity
    BY <1>3, UnitsAre
  <1>5. pc[c] \notin Ended \cup {"open", "reply"}
    BY DEF Ended
  <1> QED
    BY <1>1, <1>2, <1>3, <1>4, <1>5, AtWork

LEMMA IncrementMaps ==
  ASSUME Sound, Sound', NEW c \in Requests, IncrementItem(c) PROVE [B!BNext]_(B!bvars)
  <1> DEFINE i == req[c].row  n == req[c].cart  v == item[i].variant
  <1>1. pc[c] = "increment" /\ UNCHANGED <<status, placed>>
    BY DEF IncrementItem
  <1>2. CASE Fail(c) /\ UNCHANGED item
    BY <1>1, <1>2, FailIs DEF rows
  <1>3. CASE /\ Present(i) /\ Done(c)
             /\ item' = [item EXCEPT ![i].quantity = item[i].quantity + req[c].amount]
    <2>1. /\ i \in Items /\ item[i].cart = n /\ n \in Carts /\ n # 0 /\ Living(n)
          /\ v \in Variants /\ item[i].state = "present" /\ item[i] \in ItemRow
          /\ UnitsIn(item, n, v) = item[i].quantity
          /\ Pending[c].op = "add" /\ Pending[c].amount = req[c].amount
          /\ Pending[c].cart = n /\ Pending[c].variant = v
          /\ pc[c] \notin Ended \cup {"open", "reply"}
      BY <1>1, <1>3, RowIs
    <2>2. /\ \A j \in Items \ {i} : item'[j] = item[j]
          /\ item'[i].state = "present" /\ item'[i].cart = n /\ item'[i].variant = v
          /\ item'[i].quantity = item[i].quantity + req[c].amount
      BY <1>3, <2>1, Typed DEF Sound, RowsOK, ItemRow
    <2>3. OneRow(item')
      BY Typed, SoundOneRow DEF Sound, ItemsOK, OneRow, Present, RowsOK, TypeOK, ItemRow
    <2>4. Table(item') = Setting(Table(item), n, v, item'[i].quantity)
      <3> HIDE DEF n, v
      <3>1. item[i].state = "present" => item[i].cart = n /\ item[i].variant = v
        BY <2>1 DEF v
      <3> QED
        BY <2>1, <2>2, <2>3, <3>1, RowPut
    <2>5. Table(item') = Setting(Table(item), n, v, UnitsIn(item, n, v) + Pending[c].amount)
      BY <2>1, <2>2, <2>4
    <2>6. Pending' = [Pending EXCEPT ![c] = AfterWork("done", Pending[c].cart)]
      BY <1>3, <2>1, DoneIs
    <2> HIDE DEF i, n, v
    <2> QED
      BY <1>1, <2>1, <2>5, <2>6, AddIs
  <1> QED
    BY <1>2, <1>3 DEF IncrementItem, Incremented

LEMMA WriteMaps == ASSUME Sound, Sound', NEW c \in Requests, WriteItem(c) PROVE [B!BNext]_(B!bvars)
  <1> DEFINE i == req[c].row  n == req[c].cart  v == item[i].variant
  <1>1. pc[c] = "write" /\ UNCHANGED <<status, placed>>
    BY DEF WriteItem
  <1>2. CASE Fail(c) /\ UNCHANGED item
    BY <1>1, <1>2, FailIs DEF rows
  <1>3. CASE Present(i) /\ Done(c)
    <2>1. /\ i \in Items /\ item[i].cart = n /\ n \in Carts /\ n # 0 /\ Living(n)
          /\ v \in Variants /\ item[i].state = "present" /\ item[i] \in ItemRow
          /\ OneRow(item) /\ UnitsIn(item, n, v) > 0
          /\ Pending[c].op = req[c].op /\ Pending[c].amount = req[c].amount
          /\ Pending[c].cart = n /\ req[c].op \in {"set", "remove"}
          /\ pc[c] \notin Ended \cup {"open", "reply"}
      BY <1>1, <1>3, RowIs
    <2>2. Pending' = [Pending EXCEPT ![c] = AfterWork("done", Pending[c].cart)]
      BY <1>3, <2>1, DoneIs
    <2>3. item[i].state = "present" => item[i].cart = n /\ item[i].variant = v
      BY <2>1
    <2>4. CASE req[c].op = "set"
      <3>1. item' = [item EXCEPT ![i] = [item[i] EXCEPT !.quantity = req[c].amount]]
        BY <1>3, <2>4 DEF WriteItem
      <3>2. /\ \A j \in Items \ {i} : item'[j] = item[j]
            /\ item'[i].state = "present" /\ item'[i].cart = n /\ item'[i].variant = v
            /\ item'[i].quantity = req[c].amount
        BY <2>1, <3>1, Typed DEF Sound, RowsOK, ItemRow
      <3>3. OneRow(item')
        BY Typed, SoundOneRow DEF Sound, ItemsOK, OneRow, Present, RowsOK, TypeOK, ItemRow
      <3> HIDE DEF n, v
      <3>4. Table(item') = Setting(Table(item), n, v, item'[i].quantity)
        BY <2>1, <2>3, <3>2, <3>3, RowPut
      <3>5. Table(item') = Setting(Table(item), n, v, Pending[c].amount)
        BY <2>1, <3>2, <3>4
      <3> HIDE DEF i
      <3> QED
        BY <1>1, <2>1, <2>2, <2>4, <3>5, SetIs
    <2>5. CASE req[c].op = "remove"
      <3>1. item' = [item EXCEPT ![i] = Deleted]
        BY <1>3, <2>5 DEF WriteItem
      <3>2. /\ \A j \in Items \ {i} : item'[j] = item[j]
            /\ item'[i].state # "present"
        BY <2>1, <3>1, Typed DEF Sound, RowsOK, Deleted, NoItem
      <3> HIDE DEF n, v
      <3>3. Table(item') = Setting(Table(item), n, v, 0)
        BY <2>1, <2>3, <3>2, RowTaken
      <3> HIDE DEF i
      <3> QED
        BY <1>1, <2>1, <2>2, <2>5, <3>3, RemoveIs
    <2> QED
      BY <2>1, <2>4, <2>5
  <1> QED
    BY <1>2, <1>3 DEF WriteItem

LEMMA LookMaps == ASSUME Sound, NEW c \in Requests, LookUp(c) PROVE [B!BNext]_(B!bvars)
  <1>1. UNCHANGED rows /\ Told("write", req[c]) = Told(pc[c], req[c])
    BY DEF LookUp, Told
  <1> QED
    BY <1>1, StayIs, FailIs DEF LookUp

LEMMA DeleteMaps == ASSUME Sound, Sound', NEW c \in Requests, DeleteCart(c)
  PROVE [B!BNext]_(B!bvars)
  <1> DEFINE n == req[c].cart
  <1>1. pc[c] = "discard" /\ UNCHANGED placed /\ req[c].op = "discard"
    BY DEF DeleteCart, Sound, WaitOK, Standing
  <1>2. CASE UNCHANGED <<status, item>> /\ Fail(c)
    BY <1>1, <1>2, FailIs DEF rows
  <1>3. CASE /\ status[n] # "deleted" /\ status' = [status EXCEPT ![n] = "deleted"]
             /\ item' = [i \in Items |-> IF i \in Contents(n) THEN Deleted ELSE item[i]]
             /\ Done(c)
    <2>1. /\ Pending[c].op = "discard" /\ Pending[c].cart = n
          /\ n \in Carts /\ n # 0 /\ Living(n) /\ pc[c] \notin Ended \cup {"open", "reply"}
      BY <1>1, <1>3, AtWork, Typed DEF Ended, Living, Sound, RowsOK
    <2>2. \A j \in Items : IF Present(j) /\ item[j].cart = n THEN item'[j] = Deleted
            ELSE item'[j] = item[j]
      BY <1>3 DEF Contents
    <2>3. ASSUME NEW v \in Variants PROVE UnitsIn(item', n, v) = 0
      <3>1. HoldingIn(item', n, v) = {}
        BY <2>2 DEF HoldingIn, Present, Deleted, NoItem
      <3> QED
        BY <3>1, UnitsNone
    <2>4. ASSUME NEW m \in Carts \ {n}, NEW v \in Variants
          PROVE UnitsIn(item', m, v) = UnitsIn(item, m, v)
      <3>1. HoldingIn(item', m, v) = HoldingIn(item, m, v)
        BY <2>2 DEF HoldingIn, Present, Deleted, NoItem
      <3>2. \A j \in HoldingIn(item, m, v) : item'[j].quantity = item[j].quantity
        BY <2>2 DEF HoldingIn
      <3> QED
        BY <3>1, <3>2, UnitsSame
    <2>5. Table(item') = [Table(item) EXCEPT ![n] = NoLines]
      BY <2>1, <2>3, <2>4 DEF Table, NoLines
    <2>6. Pending' = [Pending EXCEPT ![c] = AfterWork("done", Pending[c].cart)]
      BY <1>3, <2>1, DoneIs
    <2>7. B!Finish(c)
      BY <2>6, AfterIs DEF B!Finish, B!Becomes, B!Mine
    <2>8. B!Discard(c)
      BY <1>1, <1>3, <2>1, <2>5, <2>7, AfterIs, Mapping
         DEF B!Discard, B!Does, B!Mine, B!Lives, Living, B!bvars
    <2> QED
      BY <2>8 DEF B!BNext
  <1> QED
    BY <1>2, <1>3 DEF DeleteCart

LEMMA ReadMaps == ASSUME Sound, NEW c \in Requests, ReadLines(c) PROVE [B!BNext]_(B!bvars)
  <1> DEFINE n == req[c].cart
  <1>1. pc[c] = "lines" /\ UNCHANGED rows /\ req[c].op = "checkout" /\ req[c].lines = NoLines
    BY DEF ReadLines, Sound, WaitOK, Standing
  <1>2. CASE Fail(c)
    BY <1>1, <1>2, FailIs
  <1>3. ASSUME NEW lines, lines = [v \in Variants |-> Units(n, v)], Contents(n) # {},
               Stand(c, "convert", [req[c] EXCEPT !.lines = lines])
        PROVE  [B!BNext]_(B!bvars)
    <2>1. /\ Pending[c].op = "checkout" /\ Pending[c].cart = n /\ Pending[c].lines = NoLines
          /\ n \in Carts /\ n # 0 /\ req[c] \in Request
      BY <1>1, AtWork DEF Ended
    <2>2. lines = Table(item)[n] /\ lines # NoLines
      BY <1>3, <2>1, LinesRead
    <2>3. Told("convert", [req[c] EXCEPT !.lines = lines]) = [Pending[c] EXCEPT !.lines = lines]
      <3>1. Pending[c] = Told("lines", req[c])
        BY <1>1, Mapping
      <3> QED
        BY <2>1, <3>1 DEF Told, Request
    <2>4. Pending' = [Pending EXCEPT ![c] = [Pending[c] EXCEPT !.lines = lines]]
      BY <1>3, <2>3, StandTells
    <2>5. B!Look(c)
      BY <1>1, <2>1, <2>2, <2>4, RowsMap, AfterIs, Mapping
         DEF B!Look, B!Does, B!Mine, B!Becomes, B!bvars
    <2> QED
      BY <2>5 DEF B!BNext
  <1> QED
    BY <1>2, <1>3 DEF ReadLines

LEMMA PlaceMaps == ASSUME Sound, NEW c \in Requests, PlaceOrder(c) PROVE [B!BNext]_(B!bvars)
  <1> DEFINE n == req[c].cart
  <1>1. pc[c] = "convert" /\ UNCHANGED item /\ req[c].op = "checkout" /\ req[c].lines # NoLines
    BY DEF PlaceOrder, Sound, WaitOK, Standing
  <1>2. CASE UNCHANGED <<status, placed>> /\ Fail(c)
    BY <1>1, <1>2, FailIs DEF rows
  <1>3. CASE /\ status[n] # "deleted" /\ status' = [status EXCEPT ![n] = "CONVERTED"]
             /\ placed' = [placed EXCEPT ![n] = Append(placed[n], req[c].lines)]
             /\ Done(c)
    <2>1. /\ Pending[c].op = "checkout" /\ Pending[c].cart = n /\ Pending[c].lines = req[c].lines
          /\ n \in Carts /\ n # 0 /\ Living(n) /\ pc[c] \notin Ended \cup {"open", "reply"}
      BY <1>1, <1>3, AtWork, Typed DEF Ended, Living, Sound, RowsOK
    <2>2. Pending' = [Pending EXCEPT ![c] = AfterWork("done", Pending[c].cart)]
      BY <1>3, <2>1, DoneIs
    <2>3. B!Finish(c)
      BY <2>2, AfterIs DEF B!Finish, B!Becomes, B!Mine
    <2>4. B!Place(c)
      BY <1>1, <1>3, <2>1, <2>3, AfterIs, Mapping
         DEF B!Place, B!Does, B!Mine, B!Lives, Living, B!bvars, Table
    <2> QED
      BY <2>4 DEF B!BNext
  <1> QED
    BY <1>2, <1>3 DEF PlaceOrder, Converted

LEMMA NextMaps == Sound /\ Sound' /\ [Next]_vars => [B!BNext]_(B!bvars)
  <1> SUFFICES ASSUME Sound, Sound', [Next]_vars PROVE [B!BNext]_(B!bvars)
    OBVIOUS
  <1>1. CASE UNCHANGED vars
    <2>1. Pending' = Pending /\ UNCHANGED <<status, placed>> /\ Table(item') = Table(item)
      BY <1>1 DEF vars, Pending
    <2> QED
      BY <2>1, Mapping
  <1>2. ASSUME NEW c \in Requests, Die(c) PROVE [B!BNext]_(B!bvars)
    BY <1>2, FailIs DEF Die
  <1>3. ASSUME NEW c \in Requests,
               GetCart(c) \/ AddItem(c) \/ UpdateItem(c) \/ RemoveItem(c)
                 \/ DiscardCart(c) \/ Checkout(c)
        PROVE  [B!BNext]_(B!bvars)
    BY <1>3, Begins, BeginMaps
  <1> QED
    BY <1>1, <1>2, <1>3, CreateMaps, FindMaps, InsertMaps, IncrementMaps, LookMaps,
       WriteMaps, DeleteMaps, ReadMaps, PlaceMaps, ReplyIs DEF Next

\* A cart begins as a basket does.
LEMMA InitMaps == Init => B!BInit
  <1> SUFFICES ASSUME Init PROVE B!BInit
    OBVIOUS
  <1>1. \A n \in Carts, v \in Variants : Units(n, v) = 0
    <2> TAKE n \in Carts, v \in Variants
    <2>1. HoldingIn(item, n, v) = {}
      BY DEF Init, HoldingIn, NoItem
    <2> QED
      BY <2>1, UnitsIs, UnitsNone
  <1>2. Pending = [c \in Requests |-> B!Nothing]
    BY Mapping, AfterIs DEF Init
  <1> QED
    BY <1>1, <1>2, AfterIs DEF Init, B!BInit, NoLines

\* Whatever requests interleave and wherever they fail, one that is answered as
\* it asked took effect once, at one moment, on the cart it chose, and one that
\* fails completely or not at all; an order is for what its cart held at one
\* moment, and ends the cart.
THEOREM Refines == Spec => ImplementsBasket
  <1>1. Spec => B!BSpec
    BY InitMaps, NextMaps, AlwaysSound, PTL DEF Spec, B!BSpec
  <1> QED
    BY <1>1 DEF ImplementsBasket

-----------------------------------------------------------------------------
(* Listing: a finite order has an end *)

LEMMA Ends ==
  ASSUME NEW S, IsFiniteSet(S), S # {}, NEW below \in [S -> SUBSET S],
         \A x \in S : x \notin below[x],
         \A x, y \in S : y \in below[x] => below[y] \subseteq below[x]
  PROVE  \E x \in S : below[x] = {}
  <1> DEFINE T == {below[x] : x \in S}
             Less == StrictSubsetOrdering(S)
  <1>1. T \subseteq FiniteSubsetsOf(S) /\ T # {}
    <2>1. FiniteSubsetsOf(S) = SUBSET S
      BY FS_FiniteSubsetsOfFinite
    <2> QED
      BY <2>1
  <1>2. PICK X \in T : \A Y \in T : <<Y, X>> \notin Less
    <2>1. IsWellFoundedOn(Less, FiniteSubsetsOf(S))
      BY FS_StrictSubsetOrderingWellFounded
    <2> HIDE DEF T, Less
    <2> QED
      BY <1>1, <2>1, WFMin
  <1>3. PICK x \in S : X = below[x]
    OBVIOUS
  <1>4. ASSUME NEW y \in below[x] PROVE FALSE
    <2>1. y \in S /\ below[y] \in T
      OBVIOUS
    <2>2. below[y] \subseteq below[x] /\ below[y] # below[x]
      BY <1>4, <2>1
    <2>3. <<below[y], below[x]>> \in Less
      BY <2>1, <2>2 DEF StrictSubsetOrdering
    <2> QED
      BY <1>2, <1>3, <2>1, <2>3
  <1> QED
    BY <1>4

LEMMA ListingCardinality == \A S : L!Cardinality(S) = Cardinality(S)
  BY DEF L!Cardinality, Cardinality

-----------------------------------------------------------------------------
(* The order of a list *)

\* Where a row stands in a list, and where a cursor points.
Position == Nat \X Nat
Past(q, x, y) == L!Later(q, x[1], y[1]) \/ (x[1] = y[1] /\ L!Later(q, x[2], y[2]))
At(i) == <<row[i].key, i>>
Pointed(cursor) == <<cursor.key, cursor.id>>

LEMMA PastOrders ==
  ASSUME NEW q, NEW x \in Position, NEW y \in Position, NEW z \in Position
  PROVE  /\ ~Past(q, x, x)
         /\ Past(q, x, y) /\ Past(q, y, z) => Past(q, x, z)
         /\ x = y \/ Past(q, x, y) \/ Past(q, y, x)
  BY DEF Past, L!Later, Position

LEMMA PastIs ==
  /\ \A q, i, j : L!Follows(q, i, j) <=> Past(q, At(i), At(j))
  /\ \A q, i, cursor : L!After(q, i, cursor) <=> Past(q, At(i), Pointed(cursor))
  BY DEF L!Follows, L!After, L!Later, Past, At, Pointed

LEMMA Placed ==
  ASSUME L!TypeOK
  PROVE  /\ IsFiniteSet(L!Ids)
         /\ \A i \in L!Ids : At(i) \in Position
         /\ \A i, j \in L!Ids : At(i) = At(j) => i = j
         /\ \A i \in L!Ids : row[i] # L!NoRow => row[i].key \in Times
  <1> USE ListingAssumption
  <1>1. IsFiniteSet(L!Ids)
    BY FS_Interval DEF L!Ids
  <1>2. \A i \in L!Ids : /\ i \in Nat /\ row[i].key \in Nat
                         /\ row[i] # L!NoRow => row[i].key \in Times
    <2> TAKE i \in L!Ids
    <2>1. i \in Nat
      BY DEF L!Ids
    <2>2. CASE row[i] \in L!Row
      BY <2>1, <2>2 DEF L!Row
    <2>3. CASE row[i] = L!NoRow
      BY <2>1, <2>3 DEF L!NoRow
    <2> QED
      BY <2>2, <2>3 DEF L!TypeOK
  <1> QED
    BY <1>1, <1>2 DEF At, Position

-----------------------------------------------------------------------------
(* A page *)

\* What has been asked for and not been on a page yet.
Beyond(q, i, cursor) == cursor # None => L!After(q, i, cursor)
\* What the pages up to a cursor have shown.
Walked(q, cursor, seen) ==
  /\ \A i \in L!Ids \ touched : L!Matches(q, i) => seen[i] > 0 \/ Beyond(q, i, cursor)
  /\ \A i \in L!Ids \ moved : row[i] # L!NoRow /\ Beyond(q, i, cursor) => seen[i] = 0
  /\ \A i \in L!Ids \ moved : seen[i] < 2
  /\ \A i \in L!Ids \ touched : row[i] = L!NoRow => seen[i] = 0

ListingInv ==
  /\ L!TypeOK
  /\ walk.stage = "none" => listed = [i \in L!Ids |-> 0] /\ touched = {} /\ walk = L!NoWalk
  /\ walk.stage = "more" =>
       walk.cursor.query = walk.query /\ Walked(walk.query, walk.cursor, listed)
  /\ walk.stage = "done" => L!EveryRowListed /\ L!NoRowTwice

\* The rows before i among those found.
Ahead(q, found, i) == {j \in found : L!Follows(q, i, j)}

LEMMA AheadIs ==
  ASSUME L!TypeOK, NEW q, NEW found \in SUBSET L!Ids, NEW i \in L!Ids
  PROVE  /\ IsFiniteSet(Ahead(q, found, i)) /\ IsFiniteSet(found)
         /\ Cardinality(Ahead(q, found, i)) \in Nat /\ Cardinality(found) \in Nat
         /\ i \notin Ahead(q, found, i)
         /\ i \in found => Cardinality(Ahead(q, found, i)) < Cardinality(found)
         /\ \A j \in L!Ids : L!Follows(q, i, j) => Ahead(q, found, j) \subseteq Ahead(q, found, i)
  <1>1. IsFiniteSet(found) /\ Ahead(q, found, i) \in SUBSET found
    BY Placed, FS_Subset DEF Ahead
  <1>2. /\ IsFiniteSet(Ahead(q, found, i))
        /\ Cardinality(Ahead(q, found, i)) <= Cardinality(found)
        /\ Cardinality(found) = Cardinality(Ahead(q, found, i)) => found = Ahead(q, found, i)
    BY <1>1, FS_Subset
  <1>3. Cardinality(Ahead(q, found, i)) \in Nat /\ Cardinality(found) \in Nat
    BY <1>1, <1>2, FS_CardinalityType
  <1>4. i \notin Ahead(q, found, i)
    BY Placed, PastIs, PastOrders DEF Ahead
  <1>5. i \in found => Cardinality(Ahead(q, found, i)) < Cardinality(found)
    BY <1>2, <1>3, <1>4
  <1>6. ASSUME NEW j \in L!Ids, L!Follows(q, i, j), NEW k \in Ahead(q, found, j)
        PROVE  k \in Ahead(q, found, i)
    BY <1>6, Placed, PastIs, PastOrders DEF Ahead
  <1> QED
    BY <1>1, <1>2, <1>3, <1>4, <1>5, <1>6

LEMMA PageIs ==
  ASSUME L!TypeOK, NEW q, NEW found \in SUBSET L!Ids, NEW limit \in 1..MaxLimit
  PROVE  LET page == L!FirstOf(q, found, limit)
             last == L!LastOf(q, page)
         IN  /\ page \subseteq found
             /\ L!Cardinality(found) <= limit => page = found
             /\ ~(L!Cardinality(found) <= limit) =>
                  /\ last \in page
                  /\ \A i \in page \ {last} : L!Follows(q, last, i)
                  /\ \A i \in found \ page : L!Follows(q, i, last)
  <1> DEFINE page == L!FirstOf(q, found, limit)
             last == L!LastOf(q, page)
  <1>1. /\ page = {i \in found : Cardinality(Ahead(q, found, i)) < limit}
        /\ L!Cardinality(found) = Cardinality(found) /\ limit \in Nat /\ limit > 0
    BY ListingAssumption, ListingCardinality DEF L!FirstOf, Ahead
  <1>2. last = CHOOSE i \in page : \A j \in page \ {i} : L!Follows(q, i, j)
    BY DEF L!LastOf
  <1> HIDE DEF page, last
  <1>3. ASSUME Cardinality(found) <= limit PROVE page = found
    <2>1. \A i \in found : Cardinality(Ahead(q, found, i)) < limit
      BY <1>1, <1>3, AheadIs
    <2> QED
      BY <1>1, <2>1
  <1>4. ASSUME ~(Cardinality(found) <= limit)
        PROVE  /\ last \in page
               /\ \A i \in page \ {last} : L!Follows(q, last, i)
               /\ \A i \in found \ page : L!Follows(q, i, last)
    <2>1. found # {}
      BY <1>1, <1>4, FS_EmptySet
    <2>2. PICK first \in found : Ahead(q, found, first) = {}
      <3> DEFINE below == [i \in found |-> Ahead(q, found, i)]
      <3>1. below \in [found -> SUBSET found]
        BY DEF Ahead
      <3>2. \A i \in found : i \notin below[i]
        BY AheadIs
      <3>3. \A i, j \in found : j \in below[i] => below[j] \subseteq below[i]
        BY AheadIs DEF Ahead
      <3>4. IsFiniteSet(found)
        BY <2>1, AheadIs
      <3>5. \E i \in found : below[i] = {}
        <4> HIDE DEF below
        <4> QED
          BY <2>1, <3>1, <3>2, <3>3, <3>4, Ends
      <3> QED
        BY <3>5
    <2>3. page # {} /\ page \subseteq found
      BY <1>1, <2>2, FS_EmptySet
    <2>4. \E i \in page : {j \in page : L!Follows(q, j, i)} = {}
      <3> DEFINE below == [i \in page |-> {j \in page : L!Follows(q, j, i)}]
      <3>1. below \in [page -> SUBSET page]
        OBVIOUS
      <3>2. \A i \in page : i \notin below[i]
        BY <2>3, Placed, PastIs, PastOrders
      <3>3. ASSUME NEW i \in page, NEW j \in page, NEW k \in page,
                   L!Follows(q, j, i), L!Follows(q, k, j)
            PROVE  L!Follows(q, k, i)
        <4>1. i \in L!Ids /\ j \in L!Ids /\ k \in L!Ids
          BY <2>3
        <4>2. At(i) \in Position /\ At(j) \in Position /\ At(k) \in Position
          BY <4>1, Placed
        <4> QED
          BY <3>3, <4>2, PastIs, PastOrders
      <3>4. \A i, j \in page : j \in below[i] => below[j] \subseteq below[i]
        BY <3>3
      <3>5. IsFiniteSet(page)
        BY <2>1, <2>3, AheadIs, FS_Subset
      <3>6. \E i \in page : below[i] = {}
        <4> HIDE DEF below
        <4> QED
          BY <2>3, <3>1, <3>2, <3>4, <3>5, Ends
      <3> QED
        BY <3>6
    <2>5. ASSUME NEW i \in found, NEW j \in found, i # j
          PROVE  L!Follows(q, i, j) \/ L!Follows(q, j, i)
      <3>1. At(i) \in Position /\ At(j) \in Position /\ At(i) # At(j)
        BY <2>5, Placed
      <3> QED
        BY <3>1, PastIs, PastOrders
    <2>6. last \in page /\ \A i \in page \ {last} : L!Follows(q, last, i)
      <3>1. \E i \in page : \A j \in page \ {i} : L!Follows(q, i, j)
        BY <2>3, <2>4, <2>5
      <3> QED
        BY <1>2, <3>1
    <2>7. ASSUME NEW i \in found \ page PROVE L!Follows(q, i, last)
      <3>1. CASE L!Follows(q, last, i)
        <4>1. last \in found /\ i \in L!Ids /\ last \in L!Ids
          BY <2>3, <2>6
        <4>2. Ahead(q, found, i) \in SUBSET Ahead(q, found, last)
          BY <3>1, <4>1, AheadIs
        <4>3. Cardinality(Ahead(q, found, i)) <= Cardinality(Ahead(q, found, last))
          BY <4>1, <4>2, AheadIs, FS_Subset
        <4>4. /\ Cardinality(Ahead(q, found, last)) < limit
              /\ Cardinality(Ahead(q, found, last)) \in Nat
                   /\ Cardinality(Ahead(q, found, i)) \in Nat
          BY <1>1, <2>6, <4>1, AheadIs
        <4>5. Cardinality(Ahead(q, found, i)) < limit
          BY <1>1, <4>3, <4>4
        <4> QED
          BY <1>1, <2>7, <4>5
      <3>2. CASE ~L!Follows(q, last, i)
        BY <2>3, <2>5, <2>6, <2>7, <3>2
      <3> QED
        BY <3>1, <3>2
    <2> QED
      BY <2>6, <2>7
  <1>5. page \subseteq found
    BY <1>1
  <1> QED
    BY <1>1, <1>3, <1>4, <1>5 DEF page, last

\* One page more.
Counted(page, before) ==
  [i \in L!Ids |-> IF i \in page /\ before[i] < 2 THEN before[i] + 1 ELSE before[i]]

LEMMA CountedIs ==
  ASSUME NEW page, NEW before \in [L!Ids -> 0..2]
  PROVE  /\ Counted(page, before) \in [L!Ids -> 0..2]
         /\ \A i \in L!Ids : Counted(page, before)[i] >= before[i]
         /\ \A i \in L!Ids \ page : Counted(page, before)[i] = before[i]
         /\ \A i \in L!Ids \cap page : Counted(page, before)[i] > 0
         /\ \A i \in L!Ids : before[i] = 0 => Counted(page, before)[i] < 2
  <1>1. \A i \in L!Ids : before[i] \in {0, 1, 2}
    OBVIOUS
  <1>2. \A i \in L!Ids :
          Counted(page, before)[i] = IF i \in page /\ before[i] < 2 THEN before[i] + 1
            ELSE before[i]
    BY DEF Counted
  <1>3. \A i \in L!Ids : Counted(page, before)[i] \in 0..2
    BY <1>1, <1>2
  <1>4. Counted(page, before) \in [L!Ids -> 0..2]
    BY <1>3 DEF Counted
  <1> QED
    BY <1>1, <1>2, <1>4

\* What a cursor behind the page's last row still asks for.
LEMMA PageWalked ==
  ASSUME L!TypeOK, NEW q, NEW cursor, cursor = None \/ cursor \in L!Cursor,
         NEW limit \in 1..MaxLimit, NEW before \in [L!Ids -> 0..2], Walked(q, cursor, before),
         ~(L!Cardinality(L!Found(q, cursor)) <= limit), NEW next
  PROVE  LET page == L!FirstOf(q, L!Found(q, cursor), limit)
             last == L!LastOf(q, page)
         IN  /\ last \in L!Ids /\ row[last].key \in Times
             /\ next.key = row[last].key /\ next.id = last /\ next # None =>
                  Walked(q, next, Counted(page, before))
  <1> DEFINE found == L!Found(q, cursor)
             page == L!FirstOf(q, found, limit)
             last == L!LastOf(q, page)
  <1>1. found = {i \in L!Ids : L!Matches(q, i) /\ Beyond(q, i, cursor)}
    BY DEF L!Found, Beyond
  <1>2. /\ page \subseteq found /\ last \in page /\ found \subseteq L!Ids
        /\ \A i \in page \ {last} : L!Follows(q, last, i)
        /\ \A i \in found \ page : L!Follows(q, i, last)
    <2>1. found \in SUBSET L!Ids /\ ~(L!Cardinality(found) <= limit)
      BY <1>1
    <2> HIDE DEF found
    <2> QED
      BY <2>1, PageIs
  <1> HIDE DEF found, page, last
  <1>3. last \in L!Ids /\ row[last] # L!NoRow /\ row[last].key \in Times
    BY <1>1, <1>2, Placed DEF L!Matches
  <1>4. SUFFICES ASSUME next.key = row[last].key, next.id = last, next # None
                 PROVE  Walked(q, next, Counted(page, before))
    BY <1>3 DEF found, page, last
  <1> DEFINE seen == Counted(page, before)
  <1>5. \A i \in L!Ids : Beyond(q, i, next) <=> L!Follows(q, i, last)
    BY <1>4, PastIs DEF Beyond, At, Pointed
  <1>6. \A i \in L!Ids : Beyond(q, i, next) => i \notin page
    <2> SUFFICES ASSUME NEW i \in page, L!Follows(q, i, last) PROVE FALSE
      BY <1>5
    <2>1. i = last \/ L!Follows(q, last, i)
      BY <1>2
    <2>2. At(i) \in Position /\ At(last) \in Position
      BY <1>2, <1>3, Placed
    <2> QED
      BY <2>1, <2>2, PastIs, PastOrders
  <1>7. \A i \in L!Ids : Beyond(q, i, next) => Beyond(q, i, cursor)
    <2> SUFFICES ASSUME NEW i \in L!Ids, L!Follows(q, i, last), cursor # None
                 PROVE  L!After(q, i, cursor)
      BY <1>5 DEF Beyond
    <2>1. L!After(q, last, cursor)
      BY <1>1, <1>2 DEF Beyond
    <2>2. Pointed(cursor) \in Position
      <3>1. cursor.key \in Times /\ cursor.id \in L!Ids
        <4>1. cursor \in L!Cursor
          OBVIOUS
        <4> QED
          BY <4>1 DEF L!Cursor
      <3>2. cursor.key \in Nat
        BY <3>1, ListingAssumption
      <3>3. cursor.id \in Nat
        BY <3>1, ListingAssumption DEF L!Ids
      <3> QED
        BY <3>2, <3>3 DEF Pointed, Position
    <2>3. At(i) \in Position /\ At(last) \in Position
      BY <1>3, Placed
    <2> QED
      BY <2>1, <2>2, <2>3, PastIs, PastOrders
  <1>8. ASSUME NEW i \in L!Ids \ touched, L!Matches(q, i) PROVE seen[i] > 0 \/ Beyond(q, i, next)
    <2>1. CASE before[i] > 0
      BY <2>1, CountedIs
    <2>2. CASE Beyond(q, i, cursor)
      BY <1>1, <1>2, <1>5, <1>8, <2>2, CountedIs
    <2> QED
      BY <1>8, <2>1, <2>2 DEF Walked
  <1>9. \A i \in L!Ids \ moved : row[i] # L!NoRow /\ Beyond(q, i, next) => seen[i] = 0
    BY <1>6, <1>7, CountedIs DEF Walked
  <1>10. \A i \in L!Ids \ moved : seen[i] < 2
    <2> TAKE i \in L!Ids \ moved
    <2>1. CASE i \in page
      <3>1. before[i] = 0
        BY <1>1, <1>2, <2>1 DEF Walked, L!Matches
      <3> QED
        BY <3>1, CountedIs
    <2>2. CASE i \notin page
      BY <2>2, CountedIs DEF Walked
    <2> QED
      BY <2>1, <2>2
  <1>11. \A i \in L!Ids \ touched : row[i] = L!NoRow => seen[i] = 0
    BY <1>1, <1>2, CountedIs DEF Walked, L!Matches
  <1> QED
    BY <1>8, <1>9, <1>10, <1>11 DEF Walked

LEMMA FetchOK ==
  ASSUME L!TypeOK, NEW q \in L!Query, NEW cursor, cursor = None \/ cursor \in L!Cursor,
         NEW limit \in 1..MaxLimit, NEW before \in [L!Ids -> 0..2], Walked(q, cursor, before),
         L!FetchPage(q, cursor, limit, before), UNCHANGED <<row, touched, moved>>
  PROVE  ListingInv'
  <1> DEFINE found == L!Found(q, cursor)
             page == L!FirstOf(q, found, limit)
             last == L!LastOf(q, page)
             next == [query |-> q, key |-> row[last].key, id |-> last]
             few == L!Cardinality(found) <= limit
  <1>1. /\ L!Cardinality(found) > limit =>
             walk' = [stage |-> "more", query |-> q, cursor |-> next]
        /\ ~(L!Cardinality(found) > limit) =>
             walk' = [stage |-> "done", query |-> q, cursor |-> None]
        /\ listed' = Counted(page, before)
    BY DEF L!FetchPage, Counted
  <1>2. found = {i \in L!Ids : L!Matches(q, i) /\ Beyond(q, i, cursor)}
    BY DEF L!Found, Beyond
  <1>3. L!Cardinality(found) \in Nat /\ limit \in Nat
    <2>1. IsFiniteSet(found)
      BY <1>2, Placed, FS_Subset
    <2> QED
      BY <2>1, ListingAssumption, ListingCardinality, FS_CardinalityType
  <1>4. listed' \in [L!Ids -> 0..2]
    BY <1>1, CountedIs
  <1>5. CASE ~few
    <2>1. walk' = [stage |-> "more", query |-> q, cursor |-> next]
      BY <1>1, <1>3, <1>5
    <2>2. last \in L!Ids /\ row[last].key \in Times
      BY <1>5, PageWalked
    <2>3. next.key = row[last].key /\ next.id = last /\ next.query = q
      OBVIOUS
    <2>4. next \in L!Cursor
      BY <2>2 DEF L!Cursor
    <2> HIDE DEF next
    <2>5. next # None
      BY <2>4, ListingAssumption
    <2>6. Walked(q, next, listed')
      BY <1>1, <1>5, <2>3, <2>5, PageWalked
    <2>7. /\ walk'.stage = "more" /\ walk'.query = q /\ walk'.cursor = next
      BY <2>1
    <2>8. L!TypeOK'
      BY <1>4, <2>4, <2>7 DEF L!TypeOK
    <2>9. Walked(walk.query, walk.cursor, listed)'
      BY <2>6, <2>7 DEF Walked, Beyond, L!After, L!Matches
    <2> QED
      BY <2>3, <2>7, <2>8, <2>9 DEF ListingInv
  <1>6. CASE few
    <2>1. walk' = [stage |-> "done", query |-> q, cursor |-> None]
      BY <1>1, <1>3, <1>6
    <2>2. walk'.stage = "done" /\ walk'.query = q
      BY <2>1
    <2>3. page = found
      <3>1. found \in SUBSET L!Ids
        BY <1>2
      <3> HIDE DEF found
      <3> QED
        BY <1>6, <3>1, PageIs
    <2> HIDE DEF page, found
    <2>4. L!EveryRowListed'
      <3> SUFFICES ASSUME NEW i \in L!Ids \ touched, L!Matches(q, i) PROVE listed'[i] > 0
        BY <2>2 DEF L!EveryRowListed, L!Matches
      <3>1. CASE before[i] > 0
        BY <1>1, <3>1, CountedIs
      <3>2. CASE Beyond(q, i, cursor)
        BY <1>1, <1>2, <2>3, <3>2, CountedIs
      <3> QED
        BY <3>1, <3>2 DEF Walked
    <2>5. L!NoRowTwice'
      <3> SUFFICES ASSUME NEW i \in L!Ids \ moved PROVE listed'[i] < 2
        BY DEF L!NoRowTwice
      <3>1. CASE i \in page
        <4>1. before[i] = 0
          BY <1>2, <2>3, <3>1 DEF Walked, L!Matches
        <4> QED
          BY <1>1, <4>1, CountedIs
      <3>2. CASE i \notin page
        BY <1>1, <3>2, CountedIs DEF Walked
      <3> QED
        BY <3>1, <3>2
    <2>6. L!TypeOK'
      BY <1>4, <2>2 DEF L!TypeOK
    <2> QED
      BY <2>2, <2>4, <2>5, <2>6 DEF ListingInv
  <1> QED
    BY <1>5, <1>6

-----------------------------------------------------------------------------
(* The walk *)

LEMMA ListOK ==
  ASSUME ListingInv, NEW columns \in SUBSET L!Columns, NEW filters \in SUBSET (Tags \cup {None}),
         L!List(columns, filters)
  PROVE  ListingInv'
  <1> DEFINE zero == [i \in L!Ids |-> 0]
  <1>1. PICK by \in columns, direction \in L!Directions, filter \in filters, limit \in 1..MaxLimit :
          L!FetchPage([by |-> by, direction |-> direction, filter |-> filter], None, limit, zero)
    BY DEF L!List
  <1> DEFINE q == [by |-> by, direction |-> direction, filter |-> filter]
  <1>2. q \in L!Query
    BY DEF L!Query
  <1>3. zero \in [L!Ids -> 0..2] /\ \A i \in L!Ids : zero[i] = 0
    OBVIOUS
  <1> HIDE DEF zero, q
  <1>4. Walked(q, None, zero)
    BY <1>3 DEF Walked, Beyond
  <1>5. L!FetchPage(q, None, limit, zero) /\ UNCHANGED <<row, touched, moved>> /\ L!TypeOK
    BY <1>1 DEF q, L!List, ListingInv
  <1> QED
    BY <1>2, <1>3, <1>4, <1>5, FetchOK

LEMMA ContinueOK == ASSUME ListingInv, L!Continue PROVE ListingInv'
  <1>1. PICK q \in L!Query, limit \in 1..MaxLimit :
          L!Decodes(walk.cursor, q) /\ L!FetchPage(q, walk.cursor, limit, listed)
    BY DEF L!Continue
  <1>2. /\ L!TypeOK /\ walk.stage = "more" /\ UNCHANGED <<row, touched, moved>>
        /\ Walked(walk.query, walk.cursor, listed) /\ walk.cursor.query = walk.query
    BY DEF L!Continue, ListingInv
  <1>3. walk.query = q /\ walk.cursor \in L!Cursor /\ listed \in [L!Ids -> 0..2]
    BY <1>1, <1>2 DEF L!Decodes, L!TypeOK
  <1> QED
    BY <1>1, <1>2, <1>3, FetchOK

\* What has been listed stays where it was, or counts as moved.
LEMMA RowWrittenOK ==
  ASSUME ListingInv, NEW i \in L!Ids, NEW x \in L!Row \cup {L!NoRow}, L!Write(i, x),
         moved \subseteq moved', moved' \subseteq moved \cup {i},
         \/ i \in moved' \/ x = L!NoRow \/ listed[i] = 0
         \/ row[i] # L!NoRow /\ x.key = row[i].key
  PROVE  ListingInv'
  <1>1. /\ walk.stage = "more" /\ UNCHANGED <<walk, listed>> /\ touched' = touched \cup {i}
        /\ row' = [row EXCEPT ![i] = x]
        /\ L!TypeOK /\ Walked(walk.query, walk.cursor, listed) /\ walk.cursor.query = walk.query
    BY DEF L!Write, ListingInv
  <1>2. /\ row' \in [L!Ids -> L!Row \cup {L!NoRow}] /\ row'[i] = x
        /\ \A j \in L!Ids \ {i} : row'[j] = row[j]
    BY <1>1 DEF L!TypeOK
  <1>3. L!TypeOK'
    BY <1>1, <1>2 DEF L!TypeOK
  <1> DEFINE q == walk.query  cursor == walk.cursor
  <1>4. ASSUME NEW j \in L!Ids, row'[j].key = row[j].key
        PROVE  Beyond(q, j, cursor)' <=> Beyond(q, j, cursor)
    BY <1>1, <1>4 DEF Beyond, L!After
  <1>5. ASSUME NEW j \in L!Ids \ touched', L!Matches(q, j)'
        PROVE  listed[j] > 0 \/ Beyond(q, j, cursor)'
    <2>1. j \in L!Ids \ touched /\ j # i /\ row'[j] = row[j]
      BY <1>1, <1>2
    <2>2. L!Matches(q, j)
      BY <1>1, <1>5, <2>1 DEF L!Matches
    <2> QED
      BY <1>1, <1>4, <2>1, <2>2 DEF Walked
  <1>6. ASSUME NEW j \in L!Ids \ moved', row'[j] # L!NoRow, Beyond(q, j, cursor)'
        PROVE  listed[j] = 0
    <2>1. CASE j # i
      BY <1>1, <1>2, <1>4, <1>6, <2>1 DEF Walked
    <2>2. CASE j = i /\ listed[i] # 0
      <3>1. row[j] # L!NoRow /\ row'[j].key = row[j].key
        BY <1>2, <1>6, <2>2
      <3> QED
        BY <1>1, <1>4, <1>6, <3>1 DEF Walked
    <2> QED
      BY <2>1, <2>2
  <1>7. \A j \in L!Ids \ moved' : listed[j] < 2
    BY <1>1 DEF Walked
  <1>8. \A j \in L!Ids \ touched' : row'[j] = L!NoRow => listed[j] = 0
    BY <1>1, <1>2 DEF Walked
  <1>9. Walked(q, cursor, listed)'
    BY <1>1, <1>5, <1>6, <1>7, <1>8 DEF Walked
  <1> QED
    BY <1>1, <1>3, <1>9 DEF ListingInv

LEMMA ListingStep == ListingInv /\ [L!Next]_(L!vars) => ListingInv'
  <1> SUFFICES ASSUME ListingInv, [L!Next]_(L!vars) PROVE ListingInv'
    OBVIOUS
  <1>1. ASSUME NEW columns \in SUBSET L!Columns, NEW filters \in SUBSET (Tags \cup {None}),
               L!List(columns, filters)
        PROVE  ListingInv'
    BY <1>1, ListOK
  <1>2. CASE \/ L!ListStores \/ L!ListAssets \/ L!ListEquipment \/ L!ListCustomers
             \/ L!ListCategories \/ L!ListProducts \/ L!ListVariants \/ L!ListServices
             \/ L!ListDevices \/ L!ListOrders \/ L!ListBookings \/ L!ListReservations
    <2>1. /\ {"createdAt"} \in SUBSET L!Columns /\ {"startAt"} \in SUBSET L!Columns
          /\ {"createdAt", "startAt"} \in SUBSET L!Columns
      BY DEF L!Columns
    <2>2. /\ L!Optional \in SUBSET (Tags \cup {None}) /\ {None} \in SUBSET (Tags \cup {None})
          /\ Tags \in SUBSET (Tags \cup {None})
      BY DEF L!Optional
    <2> QED
      BY <1>1, <1>2, <2>1, <2>2
      DEF L!ListStores, L!ListAssets, L!ListEquipment, L!ListCustomers, L!ListCategories,
          L!ListProducts, L!ListVariants, L!ListServices, L!ListDevices, L!ListOrders,
          L!ListBookings, L!ListReservations
  <1>3. CASE L!Continue
    BY <1>3, ContinueOK
  <1>4. CASE L!Insert
    <2>1. PICK i \in L!Ids \ touched, x \in L!Row :
            row[i] = L!NoRow /\ L!Write(i, x) /\ UNCHANGED moved
      BY <1>4 DEF L!Insert
    <2>2. listed[i] = 0
      BY <2>1 DEF ListingInv, Walked, L!Write
    <2> QED
      BY <2>1, <2>2, RowWrittenOK
  <1>5. CASE L!Change
    <2>1. PICK i \in L!Ids, x \in L!Row :
            /\ row[i] \notin {L!NoRow, x} /\ L!Write(i, x)
            /\ moved' = IF x.key # row[i].key THEN moved \cup {i} ELSE moved
      BY <1>5 DEF L!Change
    <2> QED
      BY <2>1, RowWrittenOK
  <1>6. CASE L!Delete
    <2>1. PICK i \in L!Ids : L!Write(i, L!NoRow) /\ UNCHANGED moved
      BY <1>6 DEF L!Delete
    <2> QED
      BY <2>1, RowWrittenOK
  <1>7. CASE UNCHANGED L!vars
    BY <1>7 DEF L!vars, ListingInv, L!TypeOK, Walked, Beyond, L!After, L!Matches,
                L!EveryRowListed, L!NoRowTwice
  <1> QED
    BY <1>2, <1>3, <1>4, <1>5, <1>6, <1>7 DEF L!Next

LEMMA ListingStarts == L!Init => ListingInv
  <1> SUFFICES ASSUME L!Init PROVE ListingInv
    OBVIOUS
  <1>1. walk = L!NoWalk /\ walk.stage = "none"
    BY DEF L!Init, L!NoWalk
  <1>2. L!TypeOK
    BY <1>1 DEF L!Init, L!TypeOK
  <1> QED
    BY <1>1, <1>2 DEF L!Init, ListingInv

LEMMA ListingHolds ==
  ASSUME ListingInv PROVE L!TypeOK /\ L!EveryRowListed /\ L!NoRowTwice
  <1>1. walk.stage \in {"none", "more", "done"} /\ L!TypeOK
    BY DEF ListingInv, L!TypeOK
  <1>2. walk.stage = "more" => L!EveryRowListed /\ L!NoRowTwice
    BY DEF ListingInv, Walked, L!EveryRowListed, L!NoRowTwice
  <1>3. walk.stage = "none" => L!EveryRowListed /\ L!NoRowTwice
    BY DEF ListingInv, L!EveryRowListed, L!NoRowTwice
  <1> QED
    BY <1>1, <1>2, <1>3 DEF ListingInv

-----------------------------------------------------------------------------
(* The tables: every component's steps are those TablesProof is about *)

RP == INSTANCE TablesProof WITH rows <- tables, pc <- tablesPc, req <- tablesReq,
                                MaxRows <- MaxRegistered
CP == INSTANCE TablesProof WITH rows <- tables, pc <- tablesPc, req <- tablesReq,
                                MaxRows <- MaxCatalogued
NP == INSTANCE TablesProof WITH rows <- tables, pc <- tablesPc, req <- tablesReq,
                                Codes <- Names, MaxRows <- MaxNamed
AP == INSTANCE TablesProof WITH rows <- tables, pc <- tablesPc, req <- tablesReq,
                                Codes <- Names, MaxRows <- MaxAccounts

TablesHold == component \in Tabular => R!TablesOK
HistoryHolds == component \in Tabular => R!HistoryKept
FailuresHold == component \in Tabular => R!OpaqueErrorsAreRaces

-----------------------------------------------------------------------------
(* Registry *)

LEMMA RegistryCardinality == \A S : R!Cardinality(S) = RP!Cardinality(S)
  BY DEF R!Cardinality, RP!Cardinality

LEMMA RegistryNextId == \A t : R!NextId(t) = RP!NextId(t)
  BY RegistryCardinality DEF R!NextId, RP!NextId, R!Table, RP!Table

LEMMA RegistryRequest == \A c : R!RegistryRequest(c) => RP!RegistryRequest(c)
  <1> TAKE c
  <1> USE DEF R!Table, RP!Table, R!Row, RP!Row, R!Present, RP!Present, R!NoId, RP!NoId,
    R!Statement, RP!Statement, R!NoStatement, RP!NoStatement, R!Stand, RP!Stand, R!Answer,
    RP!Answer, R!Free, RP!Free, R!Begin, RP!Begin, R!Create, RP!Create, R!Update, RP!Update,
    R!Delete, RP!Delete, R!Codings, RP!Codings, R!Optional, RP!Optional, R!Refs, RP!Refs,
    R!Ids, RP!Ids
  <1>1. R!CreateStore(c) => RP!CreateStore(c)
    BY DEF R!CreateStore, RP!CreateStore
  <1>2. R!UpdateStore(c) => RP!UpdateStore(c)
    BY DEF R!UpdateStore, RP!UpdateStore
  <1>3. R!DeleteStore(c) => RP!DeleteStore(c)
    BY DEF R!DeleteStore, RP!DeleteStore
  <1>4. R!CreateAsset(c) => RP!CreateAsset(c)
    BY DEF R!CreateAsset, RP!CreateAsset
  <1>5. R!UpdateAsset(c) => RP!UpdateAsset(c)
    BY DEF R!UpdateAsset, RP!UpdateAsset
  <1>6. R!DeleteAsset(c) => RP!DeleteAsset(c)
    BY DEF R!DeleteAsset, RP!DeleteAsset
  <1>7. R!CreateEquipment(c) => RP!CreateEquipment(c)
    BY DEF R!CreateEquipment, RP!CreateEquipment
  <1>8. R!UpdateEquipment(c) => RP!UpdateEquipment(c)
    BY DEF R!UpdateEquipment, RP!UpdateEquipment
  <1>9. R!DeleteEquipment(c) => RP!DeleteEquipment(c)
    BY DEF R!DeleteEquipment, RP!DeleteEquipment
  <1>10. R!CreateCustomer(c) => RP!CreateCustomer(c)
    BY DEF R!CreateCustomer, RP!CreateCustomer
  <1>11. R!UpdateCustomer(c) => RP!UpdateCustomer(c)
    BY DEF R!UpdateCustomer, RP!UpdateCustomer
  <1>12. R!DeleteCustomer(c) => RP!DeleteCustomer(c)
    BY DEF R!DeleteCustomer, RP!DeleteCustomer
  <1>13. R!CreateService(c) => RP!CreateService(c)
    BY DEF R!CreateService, RP!CreateService
  <1>14. R!UpdateService(c) => RP!UpdateService(c)
    BY DEF R!UpdateService, RP!UpdateService
  <1>15. R!CreateReservation(c) => RP!CreateReservation(c)
    BY DEF R!CreateReservation, RP!CreateReservation
  <1>16. R!CreateBooking(c) => RP!CreateBooking(c)
    BY DEF R!CreateBooking, RP!CreateBooking
  <1>17. R!RegisterDevice(c) => RP!RegisterDevice(c)
    BY DEF R!RegisterDevice, RP!RegisterDevice
  <1>18. R!UpdateDevice(c) => RP!UpdateDevice(c)
    BY DEF R!UpdateDevice, RP!UpdateDevice
  <1> QED
    BY <1>1, <1>2, <1>3, <1>4, <1>5, <1>6, <1>7, <1>8, <1>9, <1>10, <1>11, <1>12, <1>13,
      <1>14, <1>15, <1>16, <1>17, <1>18 DEF R!RegistryRequest, RP!RegistryRequest

LEMMA RegistryWrite == \A c : R!Write(c) => RP!Write(c)
  <1> TAKE c
  <1> USE DEF R!Table, RP!Table
  <1>1. /\ R!NextId(tablesReq[c].id[1]) = RP!NextId(tablesReq[c].id[1])
        /\ R!Cardinality(used) = RP!Cardinality(used)
    BY RegistryCardinality, RegistryNextId
  <1>2. \A s : R!Error(s) = RP!Error(s) /\ R!Effect(s) = RP!Effect(s)
    BY DEF R!Row, RP!Row, R!Present, RP!Present, R!Cascades, RP!Cascades, R!SetsNull,
      RP!SetsNull, R!Key, RP!Key, R!Holders, RP!Holders, R!WithChildren, RP!WithChildren,
      R!Doomed, RP!Doomed, R!Refused, RP!Refused, R!Clashes, RP!Clashes, R!Error, RP!Error,
      R!Patched, RP!Patched, R!Unlinked, RP!Unlinked, R!Effect, RP!Effect
  <1>3. \A s, e : R!Finish(c, s, e) <=> RP!Finish(c, s, e)
    BY DEF R!Finish, RP!Finish, R!Fail, RP!Fail, R!Answer, RP!Answer, R!Stand, RP!Stand,
      R!NoStatement, RP!NoStatement, R!NoId, RP!NoId, R!Statement, RP!Statement
  <1> QED
    BY <1>1, <1>2, <1>3 DEF R!Write, RP!Write

LEMMA RegistrySteps ==
  component = "registry" /\ [RetailNext]_<<component, vars, tablesVars, listingVars>> =>
    (component = "registry")' /\ [RP!RegistryNext]_(RP!vars)
  <1>1. \A c : R!Resolve(c) => RP!Resolve(c)
    BY DEF R!Resolve, RP!Resolve, R!Present, RP!Present, R!Answer, RP!Answer, R!Stand,
      RP!Stand, R!NoStatement, RP!NoStatement, R!NoId, RP!NoId, R!Statement, RP!Statement
  <1>2. R!RegistryNext => RP!RegistryNext
    BY <1>1, RegistryRequest, RegistryWrite
    DEF R!RegistryNext, RP!RegistryNext, R!Free, RP!Free
  <1> QED
    BY <1>2 DEF RetailNext, tablesVars, RP!vars

LEMMA RegistryIs ==
  RetailSpec /\ component = "registry" => RP!RegistrySpec /\ [](component = "registry")
  <1>1. RetailInit => RP!TablesInit
    BY DEF RetailInit, R!TablesInit, RP!TablesInit, R!NoStatement, RP!NoStatement,
           R!Statement, RP!Statement, R!NoId, RP!NoId
  <1> QED
    BY <1>1, RegistrySteps, PTL DEF RetailSpec, RP!RegistrySpec

\* The three properties are about the rows and the requests alone.
LEMMA RegistryHold ==
  RetailSpec /\ component = "registry" =>
    []TablesHold /\ [][HistoryHolds]_tablesVars /\ [][FailuresHold]_tablesVars
  <1>1. RP!TablesOK => TablesHold
    BY DEF TablesHold, R!TablesOK, RP!TablesOK, R!Present, RP!Present, R!Table, RP!Table,
           R!Dependent, RP!Dependent, R!AllTables, RP!AllTables
  <1>2. [RP!HistoryKept]_(RP!vars) => [HistoryHolds]_tablesVars
    BY DEF tablesVars, RP!vars, HistoryHolds, R!HistoryKept, RP!HistoryKept, R!Table, RP!Table
  <1>3. [RP!OpaqueErrorsAreRaces]_(RP!vars) => [FailuresHold]_tablesVars
    BY DEF tablesVars, RP!vars, FailuresHold, R!OpaqueErrorsAreRaces,
       RP!OpaqueErrorsAreRaces, R!Present, RP!Present
  <1> QED
    BY <1>1, <1>2, <1>3, RegistryIs, RP!RegistryTyped, RP!RegistryKeepsHistory,
       RP!RegistryFailures, PTL

-----------------------------------------------------------------------------
(* Catalog *)

LEMMA CatalogCardinality == \A S : C!Cardinality(S) = CP!Cardinality(S)
  BY DEF C!Cardinality, CP!Cardinality

LEMMA CatalogNextId == \A t : C!NextId(t) = CP!NextId(t)
  BY CatalogCardinality DEF C!NextId, CP!NextId, C!Table, CP!Table

LEMMA CatalogRequest == \A c : C!CatalogRequest(c) => CP!CatalogRequest(c)
  <1> TAKE c
  <1> USE DEF C!Table, CP!Table, C!Row, CP!Row, C!Present, CP!Present, C!NoId, CP!NoId,
    C!Statement, CP!Statement, C!NoStatement, CP!NoStatement, C!Stand, CP!Stand, C!Answer,
    CP!Answer, C!Free, CP!Free, C!Begin, CP!Begin, C!Create, CP!Create, C!Update, CP!Update,
    C!Delete, CP!Delete, C!Codings, CP!Codings, C!Optional, CP!Optional, C!Refs, CP!Refs,
    C!Ids, CP!Ids, C!Pair, CP!Pair
  <1>1. C!CreateCategory(c) => CP!CreateCategory(c)
    BY DEF C!CreateCategory, CP!CreateCategory
  <1>2. C!UpdateCategory(c) => CP!UpdateCategory(c)
    BY DEF C!UpdateCategory, CP!UpdateCategory
  <1>3. C!DeleteCategory(c) => CP!DeleteCategory(c)
    BY DEF C!DeleteCategory, CP!DeleteCategory
  <1>4. C!CreateProduct(c) => CP!CreateProduct(c)
    BY DEF C!CreateProduct, CP!CreateProduct
  <1>5. C!UpdateProduct(c) => CP!UpdateProduct(c)
    BY DEF C!UpdateProduct, CP!UpdateProduct
  <1>6. C!DeleteProduct(c) => CP!DeleteProduct(c)
    BY DEF C!DeleteProduct, CP!DeleteProduct
  <1>7. C!CreateVariant(c) => CP!CreateVariant(c)
    BY DEF C!CreateVariant, CP!CreateVariant
  <1>8. C!UpdateVariant(c) => CP!UpdateVariant(c)
    BY DEF C!UpdateVariant, CP!UpdateVariant
  <1>9. C!DeleteVariant(c) => CP!DeleteVariant(c)
    BY DEF C!DeleteVariant, CP!DeleteVariant
  <1>10. C!PutPrice(c) => CP!PutPrice(c)
    BY DEF C!PutPrice, CP!PutPrice
  <1>11. C!StockVariant(c) => CP!StockVariant(c)
    BY DEF C!StockVariant, CP!StockVariant
  <1>12. C!SellVariant(c) => CP!SellVariant(c)
    BY DEF C!SellVariant, CP!SellVariant
  <1> QED
    BY <1>1, <1>2, <1>3, <1>4, <1>5, <1>6, <1>7, <1>8, <1>9, <1>10, <1>11, <1>12 DEF
      C!CatalogRequest, CP!CatalogRequest

LEMMA CatalogWrite == \A c : C!Write(c) => CP!Write(c)
  <1> TAKE c
  <1> USE DEF C!Table, CP!Table
  <1>1. /\ C!NextId(tablesReq[c].id[1]) = CP!NextId(tablesReq[c].id[1])
        /\ C!Cardinality(used) = CP!Cardinality(used)
    BY CatalogCardinality, CatalogNextId
  <1>2. \A s : C!Error(s) = CP!Error(s) /\ C!Effect(s) = CP!Effect(s)
    BY DEF C!Row, CP!Row, C!Present, CP!Present, C!Cascades, CP!Cascades, C!SetsNull,
      CP!SetsNull, C!Key, CP!Key, C!Holders, CP!Holders, C!WithChildren, CP!WithChildren,
      C!Doomed, CP!Doomed, C!Refused, CP!Refused, C!Clashes, CP!Clashes, C!Error, CP!Error,
      C!Patched, CP!Patched, C!Unlinked, CP!Unlinked, C!Effect, CP!Effect
  <1>3. \A s, e : C!Finish(c, s, e) <=> CP!Finish(c, s, e)
    BY DEF C!Finish, CP!Finish, C!Fail, CP!Fail, C!Answer, CP!Answer, C!Stand, CP!Stand,
      C!NoStatement, CP!NoStatement, C!NoId, CP!NoId, C!Statement, CP!Statement
  <1> QED
    BY <1>1, <1>2, <1>3 DEF C!Write, CP!Write

LEMMA CatalogPrices ==
  /\ \A c : C!PriceRead(c) => CP!PriceRead(c)
  /\ \A c : C!PriceCreate(c) => CP!PriceCreate(c)
  /\ \A c : C!PriceReplace(c) => CP!PriceReplace(c)
  <1> USE DEF C!Table, CP!Table, C!PriceOf, CP!PriceOf, C!Pair, CP!Pair, C!VariantOf,
    CP!VariantOf, C!Fail, CP!Fail, C!Answer, CP!Answer, C!Stand, CP!Stand, C!NoStatement,
    CP!NoStatement, C!NoId, CP!NoId, C!Statement, CP!Statement
  <1>1. \A c : C!PriceRead(c) => CP!PriceRead(c)
    BY DEF C!PriceRead, CP!PriceRead
  <1>2. \A c : C!PriceReplace(c) => CP!PriceReplace(c)
    BY DEF C!PriceReplace, CP!PriceReplace
  <1>3. ASSUME NEW c PROVE C!PriceCreate(c) => CP!PriceCreate(c)
    <2>1. C!NextId("Price") = CP!NextId("Price") /\ C!Cardinality(used) = CP!Cardinality(used)
      BY CatalogCardinality, CatalogNextId
    <2>2. \A s : C!Error(s) = CP!Error(s) /\ C!Effect(s) = CP!Effect(s)
      BY DEF C!Row, CP!Row, C!Present, CP!Present, C!Cascades, CP!Cascades, C!SetsNull,
        CP!SetsNull, C!Key, CP!Key, C!Holders, CP!Holders, C!WithChildren, CP!WithChildren,
        C!Doomed, CP!Doomed, C!Refused, CP!Refused, C!Clashes, CP!Clashes, C!Error,
        CP!Error, C!Patched, CP!Patched, C!Unlinked, CP!Unlinked, C!Effect, CP!Effect
    <2>3. \A s, e : C!AfterInsert(c, s, e) <=> CP!AfterInsert(c, s, e)
      BY DEF C!AfterInsert, CP!AfterInsert
    <2> QED
      BY <2>1, <2>2, <2>3 DEF C!PriceCreate, CP!PriceCreate
  <1> QED
    BY <1>1, <1>2, <1>3

LEMMA CatalogSteps ==
  component = "catalog" /\ [RetailNext]_<<component, vars, tablesVars, listingVars>> =>
    (component = "catalog")' /\ [CP!CatalogNext]_(CP!vars)
  <1>1. \A c : C!Resolve(c) => CP!Resolve(c)
    BY DEF C!Resolve, CP!Resolve, C!Present, CP!Present, C!Answer, CP!Answer, C!Stand,
      CP!Stand, C!NoStatement, CP!NoStatement, C!NoId, CP!NoId, C!Statement, CP!Statement
  <1>2. C!CatalogNext => CP!CatalogNext
    BY <1>1, CatalogRequest, CatalogWrite, CatalogPrices
    DEF C!CatalogNext, CP!CatalogNext, C!Free, CP!Free
  <1> QED
    BY <1>2 DEF RetailNext, tablesVars, CP!vars

LEMMA CatalogIs ==
  RetailSpec /\ component = "catalog" => CP!CatalogSpec /\ [](component = "catalog")
  <1>1. RetailInit => CP!TablesInit
    BY DEF RetailInit, R!TablesInit, CP!TablesInit, R!NoStatement, CP!NoStatement,
           R!Statement, CP!Statement, R!NoId, CP!NoId
  <1> QED
    BY <1>1, CatalogSteps, PTL DEF RetailSpec, CP!CatalogSpec

\* The three properties are about the rows and the requests alone.
LEMMA CatalogHold ==
  RetailSpec /\ component = "catalog" =>
    []TablesHold /\ [][HistoryHolds]_tablesVars /\ [][FailuresHold]_tablesVars
  <1>1. CP!TablesOK => TablesHold
    BY DEF TablesHold, R!TablesOK, CP!TablesOK, R!Present, CP!Present, R!Table, CP!Table,
           R!Dependent, CP!Dependent, R!AllTables, CP!AllTables
  <1>2. [CP!HistoryKept]_(CP!vars) => [HistoryHolds]_tablesVars
    BY DEF tablesVars, CP!vars, HistoryHolds, R!HistoryKept, CP!HistoryKept, R!Table, CP!Table
  <1>3. [CP!OpaqueErrorsAreRaces]_(CP!vars) => [FailuresHold]_tablesVars
    BY DEF tablesVars, CP!vars, FailuresHold, R!OpaqueErrorsAreRaces,
       CP!OpaqueErrorsAreRaces, R!Present, CP!Present
  <1> QED
    BY <1>1, <1>2, <1>3, CatalogIs, CP!CatalogTyped, CP!CatalogKeepsHistory,
       CP!CatalogFailures, PTL

-----------------------------------------------------------------------------
(* Registry, with more names *)

LEMMA NamesCardinality == \A S : N!Cardinality(S) = NP!Cardinality(S)
  BY DEF N!Cardinality, NP!Cardinality

LEMMA NamesNextId == \A t : N!NextId(t) = NP!NextId(t)
  BY NamesCardinality DEF N!NextId, NP!NextId, N!Table, NP!Table

LEMMA NamesRequest == \A c : N!RegistryRequest(c) => NP!RegistryRequest(c)
  <1> TAKE c
  <1> USE DEF N!Table, NP!Table, N!Row, NP!Row, N!Present, NP!Present, N!NoId, NP!NoId,
    N!Statement, NP!Statement, N!NoStatement, NP!NoStatement, N!Stand, NP!Stand, N!Answer,
    NP!Answer, N!Free, NP!Free, N!Begin, NP!Begin, N!Create, NP!Create, N!Update, NP!Update,
    N!Delete, NP!Delete, N!Codings, NP!Codings, N!Optional, NP!Optional, N!Refs, NP!Refs,
    N!Ids, NP!Ids
  <1>1. N!CreateStore(c) => NP!CreateStore(c)
    BY DEF N!CreateStore, NP!CreateStore
  <1>2. N!UpdateStore(c) => NP!UpdateStore(c)
    BY DEF N!UpdateStore, NP!UpdateStore
  <1>3. N!DeleteStore(c) => NP!DeleteStore(c)
    BY DEF N!DeleteStore, NP!DeleteStore
  <1>4. N!CreateAsset(c) => NP!CreateAsset(c)
    BY DEF N!CreateAsset, NP!CreateAsset
  <1>5. N!UpdateAsset(c) => NP!UpdateAsset(c)
    BY DEF N!UpdateAsset, NP!UpdateAsset
  <1>6. N!DeleteAsset(c) => NP!DeleteAsset(c)
    BY DEF N!DeleteAsset, NP!DeleteAsset
  <1>7. N!CreateEquipment(c) => NP!CreateEquipment(c)
    BY DEF N!CreateEquipment, NP!CreateEquipment
  <1>8. N!UpdateEquipment(c) => NP!UpdateEquipment(c)
    BY DEF N!UpdateEquipment, NP!UpdateEquipment
  <1>9. N!DeleteEquipment(c) => NP!DeleteEquipment(c)
    BY DEF N!DeleteEquipment, NP!DeleteEquipment
  <1>10. N!CreateCustomer(c) => NP!CreateCustomer(c)
    BY DEF N!CreateCustomer, NP!CreateCustomer
  <1>11. N!UpdateCustomer(c) => NP!UpdateCustomer(c)
    BY DEF N!UpdateCustomer, NP!UpdateCustomer
  <1>12. N!DeleteCustomer(c) => NP!DeleteCustomer(c)
    BY DEF N!DeleteCustomer, NP!DeleteCustomer
  <1>13. N!CreateService(c) => NP!CreateService(c)
    BY DEF N!CreateService, NP!CreateService
  <1>14. N!UpdateService(c) => NP!UpdateService(c)
    BY DEF N!UpdateService, NP!UpdateService
  <1>15. N!CreateReservation(c) => NP!CreateReservation(c)
    BY DEF N!CreateReservation, NP!CreateReservation
  <1>16. N!CreateBooking(c) => NP!CreateBooking(c)
    BY DEF N!CreateBooking, NP!CreateBooking
  <1>17. N!RegisterDevice(c) => NP!RegisterDevice(c)
    BY DEF N!RegisterDevice, NP!RegisterDevice
  <1>18. N!UpdateDevice(c) => NP!UpdateDevice(c)
    BY DEF N!UpdateDevice, NP!UpdateDevice
  <1> QED
    BY <1>1, <1>2, <1>3, <1>4, <1>5, <1>6, <1>7, <1>8, <1>9, <1>10, <1>11, <1>12, <1>13,
      <1>14, <1>15, <1>16, <1>17, <1>18 DEF N!RegistryRequest, NP!RegistryRequest

LEMMA NamesWrite == \A c : N!Write(c) => NP!Write(c)
  <1> TAKE c
  <1> USE DEF N!Table, NP!Table
  <1>1. /\ N!NextId(tablesReq[c].id[1]) = NP!NextId(tablesReq[c].id[1])
        /\ N!Cardinality(used) = NP!Cardinality(used)
    BY NamesCardinality, NamesNextId
  <1>2. \A s : N!Error(s) = NP!Error(s) /\ N!Effect(s) = NP!Effect(s)
    BY DEF N!Row, NP!Row, N!Present, NP!Present, N!Cascades, NP!Cascades, N!SetsNull,
      NP!SetsNull, N!Key, NP!Key, N!Holders, NP!Holders, N!WithChildren, NP!WithChildren,
      N!Doomed, NP!Doomed, N!Refused, NP!Refused, N!Clashes, NP!Clashes, N!Error, NP!Error,
      N!Patched, NP!Patched, N!Unlinked, NP!Unlinked, N!Effect, NP!Effect
  <1>3. \A s, e : N!Finish(c, s, e) <=> NP!Finish(c, s, e)
    BY DEF N!Finish, NP!Finish, N!Fail, NP!Fail, N!Answer, NP!Answer, N!Stand, NP!Stand,
      N!NoStatement, NP!NoStatement, N!NoId, NP!NoId, N!Statement, NP!Statement
  <1> QED
    BY <1>1, <1>2, <1>3 DEF N!Write, NP!Write

LEMMA NamesSteps ==
  component = "names" /\ [RetailNext]_<<component, vars, tablesVars, listingVars>> =>
    (component = "names")' /\ [NP!RegistryNext]_(NP!vars)
  <1>1. \A c : N!Resolve(c) => NP!Resolve(c)
    BY DEF N!Resolve, NP!Resolve, N!Present, NP!Present, N!Answer, NP!Answer, N!Stand,
      NP!Stand, N!NoStatement, NP!NoStatement, N!NoId, NP!NoId, N!Statement, NP!Statement
  <1>2. N!RegistryNext => NP!RegistryNext
    BY <1>1, NamesRequest, NamesWrite
    DEF N!RegistryNext, NP!RegistryNext, N!Free, NP!Free
  <1> QED
    BY <1>2 DEF RetailNext, tablesVars, NP!vars

LEMMA NamesIs ==
  RetailSpec /\ component = "names" => NP!RegistrySpec /\ [](component = "names")
  <1>1. RetailInit => NP!TablesInit
    BY DEF RetailInit, R!TablesInit, NP!TablesInit, R!NoStatement, NP!NoStatement,
           R!Statement, NP!Statement, R!NoId, NP!NoId
  <1> QED
    BY <1>1, NamesSteps, PTL DEF RetailSpec, NP!RegistrySpec

\* The three properties are about the rows and the requests alone.
LEMMA NamesHold ==
  RetailSpec /\ component = "names" =>
    []TablesHold /\ [][HistoryHolds]_tablesVars /\ [][FailuresHold]_tablesVars
  <1>1. NP!TablesOK => TablesHold
    BY DEF TablesHold, R!TablesOK, NP!TablesOK, R!Present, NP!Present, R!Table, NP!Table,
           R!Dependent, NP!Dependent, R!AllTables, NP!AllTables
  <1>2. [NP!HistoryKept]_(NP!vars) => [HistoryHolds]_tablesVars
    BY DEF tablesVars, NP!vars, HistoryHolds, R!HistoryKept, NP!HistoryKept, R!Table, NP!Table
  <1>3. [NP!OpaqueErrorsAreRaces]_(NP!vars) => [FailuresHold]_tablesVars
    BY DEF tablesVars, NP!vars, FailuresHold, R!OpaqueErrorsAreRaces,
       NP!OpaqueErrorsAreRaces, R!Present, NP!Present
  <1> QED
    BY <1>1, <1>2, <1>3, NamesIs, NP!RegistryTyped, NP!RegistryKeepsHistory,
       NP!RegistryFailures, PTL

-----------------------------------------------------------------------------
(* Accounts *)

LEMMA AccountsCardinality == \A S : A!Cardinality(S) = AP!Cardinality(S)
  BY DEF A!Cardinality, AP!Cardinality

LEMMA AccountsNextId == \A t : A!NextId(t) = AP!NextId(t)
  BY AccountsCardinality DEF A!NextId, AP!NextId, A!Table, AP!Table

LEMMA AccountsUserOf == \A email : A!UserOf(email) = AP!UserOf(email)
  <1> TAKE email
  <1>1. A!Row(A!NextId("User"), email, {}) = AP!Row(AP!NextId("User"), email, {})
    BY AccountsNextId DEF A!Row, AP!Row
  <1>2. \A x : A!Table(x.id) = AP!Table(x.id)
    BY DEF A!Table, AP!Table
  <1> DEFINE known == {x \in tables : A!Table(x.id) = "User" /\ email \subseteq x.unique}
             knownToo == {x \in tables : AP!Table(x.id) = "User" /\ email \subseteq x.unique}
  <1>3. known = knownToo
    BY <1>2
  <1>4. /\ A!UserOf(email) = IF known = {} THEN A!Row(A!NextId("User"), email, {})
                              ELSE CHOOSE x \in known : TRUE
        /\ AP!UserOf(email) = IF knownToo = {} THEN AP!Row(AP!NextId("User"), email, {})
                              ELSE CHOOSE x \in knownToo : TRUE
    BY Zenon DEF A!UserOf, AP!UserOf
  <1> HIDE DEF known, knownToo
  <1> QED
    BY <1>1, <1>3, <1>4, Zenon

LEMMA AccountsRequest == \A c : A!AccountsRequest(c) => AP!AccountsRequest(c)
  <1> TAKE c
  <1> USE DEF A!Table, AP!Table, A!Row, AP!Row, A!Present, AP!Present, A!NoId, AP!NoId,
    A!Statement, AP!Statement, A!NoStatement, AP!NoStatement, A!Stand, AP!Stand, A!Answer,
    AP!Answer, A!Free, AP!Free, A!Begin, AP!Begin, A!Create, AP!Create, A!Update, AP!Update,
    A!Delete, AP!Delete, A!Codings, AP!Codings, A!Optional, AP!Optional, A!Refs, AP!Refs,
    A!Ids, AP!Ids, A!NoUser, AP!NoUser, A!Clashes, AP!Clashes
  <1>1. A!RegisterUser(c) => AP!RegisterUser(c)
    BY DEF A!RegisterUser, AP!RegisterUser
  <1>2. A!AddTenant(c) => AP!AddTenant(c)
    BY DEF A!AddTenant, AP!AddTenant
  <1>3. A!UpdateTenant(c) => AP!UpdateTenant(c)
    BY DEF A!UpdateTenant, AP!UpdateTenant
  <1>4. A!CreateMember(c) => AP!CreateMember(c)
    <2>1. /\ A!Cardinality(used) = AP!Cardinality(used)
          /\ A!NextId("User") = AP!NextId("User")
          /\ A!NextId("Membership") = AP!NextId("Membership")
      BY AccountsCardinality, AccountsNextId
    <2>2. \A user, tenant : A!Joining(user, tenant) = AP!Joining(user, tenant)
      BY <2>1 DEF A!Joining, AP!Joining
    <2> QED
      BY <2>1, <2>2, AccountsUserOf DEF A!CreateMember, AP!CreateMember
  <1> QED
    BY <1>1, <1>2, <1>3, <1>4 DEF A!AccountsRequest, AP!AccountsRequest

LEMMA AccountsWrite == \A c : A!Write(c) => AP!Write(c)
  <1> TAKE c
  <1> USE DEF A!Table, AP!Table
  <1>1. /\ A!NextId(tablesReq[c].id[1]) = AP!NextId(tablesReq[c].id[1])
        /\ A!Cardinality(used) = AP!Cardinality(used)
    BY AccountsCardinality, AccountsNextId
  <1>2. \A s : A!Error(s) = AP!Error(s) /\ A!Effect(s) = AP!Effect(s)
    BY DEF A!Row, AP!Row, A!Present, AP!Present, A!Cascades, AP!Cascades, A!SetsNull,
      AP!SetsNull, A!Key, AP!Key, A!Holders, AP!Holders, A!WithChildren, AP!WithChildren,
      A!Doomed, AP!Doomed, A!Refused, AP!Refused, A!Clashes, AP!Clashes, A!Error, AP!Error,
      A!Patched, AP!Patched, A!Unlinked, AP!Unlinked, A!Effect, AP!Effect
  <1>3. \A s, e : A!Finish(c, s, e) <=> AP!Finish(c, s, e)
    BY DEF A!Finish, AP!Finish, A!Fail, AP!Fail, A!Answer, AP!Answer, A!Stand, AP!Stand,
      A!NoStatement, AP!NoStatement, A!NoId, AP!NoId, A!Statement, AP!Statement
  <1> QED
    BY <1>1, <1>2, <1>3 DEF A!Write, AP!Write

LEMMA AccountsSteps ==
  component = "accounts" /\ [RetailNext]_<<component, vars, tablesVars, listingVars>> =>
    (component = "accounts")' /\ [AP!AccountsNext]_(AP!vars)
  <1>2. A!AccountsNext => AP!AccountsNext
    BY AccountsRequest, AccountsWrite
    DEF A!AccountsNext, AP!AccountsNext, A!Free, AP!Free
  <1> QED
    BY <1>2 DEF RetailNext, tablesVars, AP!vars

LEMMA AccountsIs ==
  RetailSpec /\ component = "accounts" => AP!AccountsSpec /\ [](component = "accounts")
  <1>1. RetailInit => AP!TablesInit
    BY DEF RetailInit, R!TablesInit, AP!TablesInit, R!NoStatement, AP!NoStatement,
           R!Statement, AP!Statement, R!NoId, AP!NoId
  <1> QED
    BY <1>1, AccountsSteps, PTL DEF RetailSpec, AP!AccountsSpec

\* The three properties are about the rows and the requests alone.
LEMMA AccountsHold ==
  RetailSpec /\ component = "accounts" =>
    []TablesHold /\ [][HistoryHolds]_tablesVars /\ [][FailuresHold]_tablesVars
  <1>1. AP!TablesOK => TablesHold
    BY DEF TablesHold, R!TablesOK, AP!TablesOK, R!Present, AP!Present, R!Table, AP!Table,
           R!Dependent, AP!Dependent, R!AllTables, AP!AllTables
  <1>2. [AP!HistoryKept]_(AP!vars) => [HistoryHolds]_tablesVars
    BY DEF tablesVars, AP!vars, HistoryHolds, R!HistoryKept, AP!HistoryKept, R!Table, AP!Table
  <1>3. [AP!OpaqueErrorsAreRaces]_(AP!vars) => [FailuresHold]_tablesVars
    BY DEF tablesVars, AP!vars, FailuresHold, R!OpaqueErrorsAreRaces,
       AP!OpaqueErrorsAreRaces, R!Present, AP!Present
  <1> QED
    BY <1>1, <1>2, <1>3, AccountsIs, AP!AccountsTyped, AP!AccountsKeepsHistory,
       AP!AccountsFailures, PTL

-----------------------------------------------------------------------------
(* Theorems of RetailSpec *)

LEMMA CartIs == RetailSpec => Spec
  <1>1. RetailInit => Init
    BY DEF RetailInit
  <1>2. [RetailNext]_<<component, vars, tablesVars, listingVars>> => [Next]_vars
    BY DEF RetailNext
  <1> QED
    BY <1>1, <1>2, PTL DEF RetailSpec, Spec

LEMMA ListingAlways == RetailSpec => []ListingInv
  <1>1. RetailInit => ListingInv
    BY ListingStarts DEF RetailInit
  <1>2. [RetailNext]_<<component, vars, tablesVars, listingVars>> => [L!Next]_(L!vars)
    BY DEF RetailNext, listingVars, L!vars
  <1> QED
    BY <1>1, <1>2, ListingStep, PTL DEF RetailSpec

LEMMA OthersHold ==
  ASSUME NEW CONSTANT x \in {"cart", "listing"}
  PROVE  RetailSpec /\ component = x =>
           []TablesHold /\ [][HistoryHolds]_tablesVars /\ [][FailuresHold]_tablesVars
  <1>1. component = x /\ [RetailNext]_<<component, vars, tablesVars, listingVars>>
          => (component = x)'
    BY DEF RetailNext
  <1>2. component = x => TablesHold /\ HistoryHolds /\ FailuresHold
    BY DEF TablesHold, HistoryHolds, FailuresHold, Tabular
  <1> QED
    BY <1>1, <1>2, PTL DEF RetailSpec

LEMMA AllHold ==
  RetailSpec => []TablesHold /\ [][HistoryHolds]_tablesVars /\ [][FailuresHold]_tablesVars
  <1>1. RetailInit => \/ component = "cart" \/ component = "listing" \/ component = "registry"
                     \/ component = "catalog" \/ component = "names" \/ component = "accounts"
    BY DEF RetailInit
  <1>2. RetailSpec /\ component = "cart" =>
          []TablesHold /\ [][HistoryHolds]_tablesVars /\ [][FailuresHold]_tablesVars
    BY OthersHold
  <1>3. RetailSpec /\ component = "listing" =>
          []TablesHold /\ [][HistoryHolds]_tablesVars /\ [][FailuresHold]_tablesVars
    BY OthersHold
  <1> QED
    BY <1>1, <1>2, <1>3, RegistryHold, CatalogHold, NamesHold, AccountsHold, PTL DEF RetailSpec

\* Carts, items and requests, the rows of every table and the walk through a list
\* are of their types, and no foreign key of a row leads nowhere.
THEOREM RetailTyped == RetailSpec => []TypesOK
  <1>1. TypeOK /\ TablesHold /\ ListingInv => TypesOK
    BY DEF TypesOK, TablesHold, ListingInv
  <1> QED
    BY <1>1, CartIs, TypeCorrect, AllHold, ListingAlways, PTL

\* A cart that has been ordered is never OPEN again, so that no later checkout
\* finds it.
THEOREM OrderedCartStaysClosed == RetailSpec => []OrderedCartClosed
  BY CartIs, OrderedStaysClosed, PTL

\* A cart request that is answered as it asked took effect once, on the cart it
\* chose; one that fails completely or not at all; an order is for what its cart
\* held at one moment.
THEOREM CartServesBasket == RetailSpec => CartIsBasket
  <1>1. Sound /\ Sound' /\ [Next]_vars => [component = "cart" => [B!BNext]_(B!bvars)]_vars
    BY NextMaps
  <1> QED
    BY <1>1, InitMaps, CartIs, AlwaysSound, PTL DEF Spec, CartIsBasket

\* Whatever a statement cascades to, a reservation, a booking, a sold item or a
\* device stays, with all it refers to.
THEOREM HistoryStays == RetailSpec => HistoryKept
  BY AllHold, PTL DEF HistoryKept, HistoryHolds

\* An INSERT or UPDATE ends in a 500 only where another request deleted a row
\* its handler had read.
THEOREM FailuresAreRaces == RetailSpec => OpaqueErrorsAreRaces
  BY AllHold, PTL DEF OpaqueErrorsAreRaces, FailuresHold

\* A finished walk has shown every row that matches and that nobody touched,
\* however many rows and pages there are and whatever was written in between.
THEOREM WalkIsComplete == RetailSpec => []EveryRowListed
  <1>1. ListingInv => EveryRowListed
    BY ListingHolds DEF EveryRowListed
  <1> QED
    BY <1>1, ListingAlways, PTL

\* No walk shows a row twice whose sort key stays.
THEOREM WalkRepeatsNothing == RetailSpec => []NoRowTwice
  <1>1. ListingInv => NoRowTwice
    BY ListingHolds DEF NoRowTwice
  <1> QED
    BY <1>1, ListingAlways, PTL
=============================================================================

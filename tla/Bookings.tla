------------------------------ MODULE Bookings ------------------------------
(***************************************************************************)
(* Bookings of services (src/src/booking/booking.service.ts), the status   *)
(* of the services they are for, and the link createOrder sets from a      *)
(* booking to its order.  A PATCH may set any status.  Customers are left  *)
(* out: an unknown one refuses the request before it writes.               *)
(***************************************************************************)
EXTENDS Intervals

CONSTANTS
  Requests,   \* concurrent requests
  Booking,    \* ids of bookings
  Service,
  Order,      \* ids of the orders created with a booking
  None        \* no booking, service or order: not one of any

VARIABLES
  status,     \* Booking.status, "none" while the id is unused
  service,    \* Booking.serviceId
  startAt, endAt,
  orderId,    \* Booking.orderId
  offered,    \* services whose status is ACTIVE (not DRAFT, not ARCHIVED)
  placedFor,  \* history: the booking an order was placed with
  pc,         \* "insert" or "update" after the handler's reads
  req         \* the booking to write (None: a new one), the service to set

rows == <<status, service, startAt, endAt>>
vars == <<rows, orderId, offered, placedFor, pc, req>>

\* What clients ask for: no booking starts at the end of time, or ends at 0.
Starts == 0..Horizon - 1
Ends == 1..Horizon
Statuses == {"BOOKED", "CONFIRMED", "ACTIVE", "COMPLETED", "CANCELLED", "NO_SHOW"}
Request == [id : Booking \cup {None}, service : Service \cup {None}]
NoRequest == [id |-> None, service |-> None]

TypeOK ==
  /\ status \in [Booking -> Statuses \cup {"none"}]
  /\ service \in [Booking -> Service \cup {None}]
  /\ \A b \in Booking : status[b] # "none" => service[b] \in Service
  /\ startAt \in [Booking -> Instant] /\ endAt \in [Booking -> Instant]
  /\ orderId \in [Booking -> Order \cup {None}]
  /\ offered \subseteq Service
  /\ placedFor \in [Order -> Booking \cup {None}]
  /\ pc \in [Requests -> {"idle", "insert", "update"}]
  /\ req \in [Requests -> Request]

Init ==
  /\ status = [b \in Booking |-> "none"]
  /\ service = [b \in Booking |-> None]
  /\ startAt = [b \in Booking |-> 0]
  /\ endAt = [b \in Booking |-> 0]
  /\ orderId = [b \in Booking |-> None]
  /\ offered = Service
  /\ placedFor = [o \in Order |-> None]
  /\ pc = [c \in Requests |-> "idle"]
  /\ req = [c \in Requests |-> NoRequest]

Exists(b) == status[b] # "none"

-----------------------------------------------------------------------------
(* The constraints of the table *)

\* Fault: the constraint only knows the status a booking starts with.
OnlyBooked == {"BOOKED"}
HoldingStatuses == {"BOOKED", "CONFIRMED", "ACTIVE"}

Taken(b, s, from, to) ==
  \E d \in Booking \ {b} :
    /\ status[d] \in HoldingStatuses /\ service[d] = s
    /\ Meet(startAt[d], endAt[d], from, to)

\* The row would satisfy the CHECK and the exclusion constraint.
Admits(b, st, s, from, to) ==
  /\ PositiveDuration(from, to)
  /\ st \in HoldingStatuses => ~Taken(b, s, from, to)

-----------------------------------------------------------------------------
(* Requests: the reads, then one write of the columns the client sends *)

Begin(c, label, b, s) ==
  /\ pc[c] = "idle"
  /\ pc' = [pc EXCEPT ![c] = label]
  /\ req' = [req EXCEPT ![c] = [id |-> b, service |-> s]]
  /\ UNCHANGED <<rows, orderId, offered, placedFor>>

\* createBooking reads the service.
BeginCreate(c, s) == s \in offered /\ Begin(c, "insert", None, s)
\* updateBooking: a service is checked when it differs from the one read.
BeginUpdate(c, b, s) ==
  /\ Exists(b)
  /\ s \in {None, service[b]} \cup offered
  /\ Begin(c, "update", b, s)

Write(c, b, s, st, from, to) ==
  /\ \/ /\ Admits(b, st, s, from, to)
        /\ status' = [status EXCEPT ![b] = st]
        /\ service' = [service EXCEPT ![b] = s]
        /\ startAt' = [startAt EXCEPT ![b] = from]
        /\ endAt' = [endAt EXCEPT ![b] = to]
     \/ ~Admits(b, st, s, from, to) /\ UNCHANGED rows
  /\ pc' = [pc EXCEPT ![c] = "idle"]
  /\ req' = [req EXCEPT ![c] = NoRequest]
  /\ UNCHANGED <<orderId, offered, placedFor>>

Insert(c, b, st, from, to) ==
  /\ pc[c] = "insert"
  /\ ~Exists(b)
  /\ Write(c, b, req[c].service, st, from, to)

\* Fault: a service the client leaves out is written all the same.
UpdateOverwrites(c, b, st, from, to) ==
  /\ pc[c] = "update" /\ req[c].id = b
  /\ Write(c, b, req[c].service, st, from, to)
\* Columns the client leaves out keep what is in the row by now.
Update(c, b, st, from, to) ==
  /\ pc[c] = "update" /\ req[c].id = b
  /\ Write(c, b, IF req[c].service = None THEN service[b] ELSE req[c].service, st, from, to)

-----------------------------------------------------------------------------
(* What other components do to these rows *)

\* Fault: the link is set over another order's.
AnyBooking(b) == Exists(b)
Linkable(b) == Exists(b) /\ orderId[b] = None

\* createOrder with a booking: the guarded link commits with the order, or
\* the order is not placed.
PlaceOrder(o, b) ==
  /\ placedFor[o] = None
  /\ Linkable(b)
  /\ orderId' = [orderId EXCEPT ![b] = o]
  /\ placedFor' = [placedFor EXCEPT ![o] = b]
  /\ UNCHANGED <<rows, offered, pc, req>>

\* updateService.
OfferService(s) ==
  /\ offered' = IF s \in offered THEN offered \ {s} ELSE offered \cup {s}
  /\ UNCHANGED <<rows, orderId, placedFor, pc, req>>

Next ==
  \/ \E c \in Requests :
       \/ \E s \in Service : BeginCreate(c, s)
       \/ \E b \in Booking, s \in Service \cup {None} : BeginUpdate(c, b, s)
       \/ \E b \in Booking, st \in Statuses, from \in Starts, to \in Ends :
            Insert(c, b, st, from, to) \/ Update(c, b, st, from, to)
  \/ \E o \in Order, b \in Booking : PlaceOrder(o, b)
  \/ \E s \in Service : OfferService(s)

Spec == Init /\ [][Next]_vars

-----------------------------------------------------------------------------
(* Properties *)

\* No service is booked twice for the same instant, although a PATCH may take
\* a booking out of any status, move it, and give it to another service.
NoDoubleBooking ==
  \A b, d \in Booking :
    /\ b # d /\ service[b] = service[d]
    /\ {status[b], status[d]} \subseteq {"BOOKED", "CONFIRMED", "ACTIVE"}
    => endAt[b] <= startAt[d] \/ endAt[d] <= startAt[b]

\* An order placed with a booking stays the order of that booking: two orders
\* placed with it at once do not both commit.
OrderedOnce ==
  \A o \in Order, b \in Booking : placedFor[o] = b => orderId[b] = o
=============================================================================

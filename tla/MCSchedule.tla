----------------------------- MODULE MCSchedule -----------------------------
(***************************************************************************)
(* Instances of Reservations and Bookings.  The two share no row, so a     *)
(* behaviour is one of either, and the other's tables stay empty.          *)
(***************************************************************************)
EXTENDS Reservations, TLC

CONSTANTS Booking, Service, Order

ASSUME NoneAssumption == None \notin Booking \cup Order

VARIABLES
  renting,    \* whether this is a behaviour of Reservations
  bookingStatus, service, bookedFrom, bookedTo, orderId, offered, placedFor,
  bookingPc, bookingReq

B == INSTANCE Bookings WITH
       status <- bookingStatus, startAt <- bookedFrom, endAt <- bookedTo,
       pc <- bookingPc, req <- bookingReq

bookingVars == <<bookingStatus, service, bookedFrom, bookedTo, orderId, offered,
                 placedFor, bookingPc, bookingReq>>

ScheduleInit == renting \in BOOLEAN /\ Init /\ B!Init

ScheduleNext ==
  \/ renting /\ Next /\ UNCHANGED <<renting, bookingVars>>
  \/ ~renting /\ B!Next /\ UNCHANGED <<renting, vars>>

ScheduleSpec == ScheduleInit /\ [][ScheduleNext]_<<renting, vars, bookingVars>>

Symmetry ==
  Permutations(Requests) \cup Permutations(Booking) \cup Permutations(Service)
    \cup Permutations(Order)

\* Both components are type-correct.
TypesOK == TypeOK /\ B!TypeOK
\* See Bookings: no service is booked twice for the same instant.
NoDoubleBooking == B!NoDoubleBooking
\* See Bookings: an order stays the order of the booking it was placed with.
OrderedOnce == B!OrderedOnce
=============================================================================

--------------------------- MODULE ScheduleProof ---------------------------
(***************************************************************************)
(* Proofs about MCSchedule, for any number of requests, reservations,      *)
(* equipment, bookings, services and orders, and any horizon: first about  *)
(* Reservations, then about Bookings, the instance B, and last about the   *)
(* specification the run checks, which composes the two.                   *)
(***************************************************************************)
EXTENDS MCSchedule, TLAPS

\* What a request at a label works on.
WellShaped(r, label) ==
  /\ label \in {"move", "mark"} => r.id \in Reservation
  /\ label = "mark" =>
       /\ r.next \in {"ACTIVE", "COMPLETED", "CANCELLED"}
       /\ r.next = "ACTIVE" => r.seen = "RESERVED"

Typed == TypeOK /\ \A c \in Requests : WellShaped(req[c], pc[c])

\* A write of row i that the constraints have judged.
Judged(i, st, e, from, to) ==
  /\ Admits(i, st, e, from, to)
  /\ status' = [status EXCEPT ![i] = st]
  /\ item' = [item EXCEPT ![i] = e]
  /\ startAt' = [startAt EXCEPT ![i] = from]
  /\ endAt' = [endAt EXCEPT ![i] = to]

\* What any step does to the table.
RowStep ==
  \/ UNCHANGED rows
  \/ \E i \in Reservation, st \in Statuses \cup {"none"},
        e \in Equipment \cup {None}, from, to \in Instant :
       Judged(i, st, e, from, to)

-----------------------------------------------------------------------------
(* Reservations: type correctness *)

LEMMA Constants ==
  /\ Instant \subseteq Int
  /\ 0 \in Instant
  /\ NoRequest \in Request
  /\ WellShaped(NoRequest, "idle")
  BY HorizonAssumption DEF Instant, NoRequest, Request, Statuses, WellShaped

LEMMA InitTyped == Init => Typed
  BY Constants DEF Init, Typed, TypeOK, Statuses, WellShaped, NoRequest

LEMMA FinishTyped ==
  ASSUME Typed, NEW c \in Requests, Finish(c),
         status' \in [Reservation -> Statuses \cup {"none"}],
         item' \in [Reservation -> Equipment \cup {None}],
         startAt' \in [Reservation -> Instant], endAt' \in [Reservation -> Instant]
  PROVE  Typed'
  BY Constants DEF Typed, TypeOK, Finish, WellShaped, Instant

LEMMA BeginTyped ==
  ASSUME Typed, NEW c \in Requests, NEW r \in Request,
         NEW label \in {"overlap", "mark"}, Begin(c, label, r), WellShaped(r, label)
  PROVE  Typed'
  BY Constants DEF Typed, TypeOK, Begin, WellShaped, rows, Instant

\* What each request of the interface begins with is well shaped.
LEMMA BeginningsTyped ==
  ASSUME Typed, NEW c \in Requests,
         \/ \E e \in Equipment, from, to \in Instant : BeginCreate(c, e, from, to)
         \/ \E i \in Reservation :
              \/ BeginStart(c, i) \/ BeginComplete(c, i) \/ BeginDelete(c, i)
              \/ \E from, to \in Instant, moves \in SUBSET {"startAt", "endAt"} :
                   BeginUpdate(c, i, from, to, moves)
  PROVE  Typed' /\ UNCHANGED rows
  <1>1. ASSUME NEW e \in Equipment, NEW from \in Instant, NEW to \in Instant,
               BeginCreate(c, e, from, to)
        PROVE  Typed' /\ UNCHANGED rows
    <2> DEFINE r == [NoRequest EXCEPT !.item = e, !.from = from, !.to = to]
    <2>1. r \in Request /\ WellShaped(r, "overlap")
      BY Constants DEF Request, WellShaped
    <2>2. Begin(c, "overlap", r)
      BY <1>1 DEF BeginCreate
    <2> QED
      BY <2>1, <2>2, BeginTyped DEF Begin
  <1>2. ASSUME NEW i \in Reservation, BeginStart(c, i)
        PROVE  Typed' /\ UNCHANGED rows
    <2> DEFINE r == [NoRequest EXCEPT !.id = i, !.next = "ACTIVE", !.seen = status[i]]
    <2>1. r \in Request /\ WellShaped(r, "mark")
      BY <1>2, Constants DEF Request, WellShaped, BeginStart, MayLeave, Statuses, NoRequest
    <2>2. Begin(c, "mark", r)
      BY <1>2 DEF BeginStart
    <2> QED
      BY <2>1, <2>2, BeginTyped DEF Begin
  <1>3. ASSUME NEW i \in Reservation, BeginComplete(c, i)
        PROVE  Typed' /\ UNCHANGED rows
    <2> DEFINE r == [NoRequest EXCEPT !.id = i, !.next = "COMPLETED", !.seen = status[i]]
    <2>1. r \in Request /\ WellShaped(r, "mark")
      BY <1>3, Constants DEF Request, WellShaped, BeginComplete, MayLeave, Statuses, NoRequest
    <2>2. Begin(c, "mark", r)
      BY <1>3 DEF BeginComplete
    <2> QED
      BY <2>1, <2>2, BeginTyped DEF Begin
  <1>4. ASSUME NEW i \in Reservation, BeginDelete(c, i)
        PROVE  Typed' /\ UNCHANGED rows
    <2> DEFINE r == [NoRequest EXCEPT !.id = i, !.next = "CANCELLED", !.seen = status[i]]
    <2>1. r \in Request /\ WellShaped(r, "mark")
      BY <1>4, Constants DEF Request, WellShaped, BeginDelete, MayLeave, Statuses, NoRequest
    <2>2. Begin(c, "mark", r)
      BY <1>4 DEF BeginDelete
    <2> QED
      BY <2>1, <2>2, BeginTyped DEF Begin
  <1>5. ASSUME NEW i \in Reservation, NEW from \in Instant, NEW to \in Instant,
               NEW moves \in SUBSET {"startAt", "endAt"},
               BeginUpdate(c, i, from, to, moves)
        PROVE  Typed' /\ UNCHANGED rows
    <2> DEFINE r == [NoRequest EXCEPT !.id = i, !.item = item[i], !.from = from,
                       !.to = to, !.moves = moves, !.seen = status[i]]
    <2>1. r \in Request /\ WellShaped(r, "overlap")
      BY Constants DEF Request, WellShaped, Typed, TypeOK, NoRequest, Statuses
    <2>2. Begin(c, "overlap", r)
      BY <1>5 DEF BeginUpdate
    <2> QED
      BY <2>1, <2>2, BeginTyped DEF Begin
  <1> QED
    BY <1>1, <1>2, <1>3, <1>4, <1>5

LEMMA OverlapCheckTyped ==
  ASSUME Typed, NEW c \in Requests, OverlapCheck(c)
  PROVE  Typed' /\ UNCHANGED rows
  <1>1. CASE Refuse(c)
    BY <1>1, FinishTyped DEF Refuse, Typed, TypeOK, rows
  <1>2. CASE pc' = [pc EXCEPT ![c] = IF req[c].id = None THEN "insert" ELSE "move"]
             /\ UNCHANGED <<rows, now, req>>
    BY <1>2 DEF Typed, TypeOK, WellShaped, rows, Request, Instant
  <1> QED
    BY <1>1, <1>2 DEF OverlapCheck

LEMMA JudgedTyped ==
  ASSUME Typed, NEW i \in Reservation, NEW st \in Statuses \cup {"none"},
         NEW e \in Equipment \cup {None}, NEW from \in Instant, NEW to \in Instant,
         Judged(i, st, e, from, to), NEW c \in Requests, Finish(c)
  PROVE  Typed' /\ RowStep
  <1>1. /\ status' \in [Reservation -> Statuses \cup {"none"}]
        /\ item' \in [Reservation -> Equipment \cup {None}]
        /\ startAt' \in [Reservation -> Instant]
        /\ endAt' \in [Reservation -> Instant]
    BY DEF Judged, Typed, TypeOK
  <1> QED
    BY <1>1, FinishTyped DEF RowStep

LEMMA RefuseTyped ==
  ASSUME Typed, NEW c \in Requests, Refuse(c)
  PROVE  Typed' /\ RowStep
  BY FinishTyped DEF Refuse, Typed, TypeOK, rows, RowStep

LEMMA InsertTyped ==
  ASSUME Typed, NEW c \in Requests, Insert(c)
  PROVE  Typed' /\ RowStep
  <1> DEFINE r == req[c]
  <1>1. r.item \in Equipment \cup {None} /\ r.from \in Instant /\ r.to \in Instant
    BY DEF Typed, TypeOK, Request
  <1>2. PICK i \in Reservation :
          \/ Judged(i, "RESERVED", r.item, r.from, r.to) /\ Finish(c)
          \/ Refuse(c)
    BY DEF Insert, Judged
  <1>3. "RESERVED" \in Statuses \cup {"none"}
    BY DEF Statuses
  <1> QED
    BY <1>1, <1>2, <1>3, JudgedTyped, RefuseTyped

LEMMA MoveTyped ==
  ASSUME Typed, NEW c \in Requests, Move(c)
  PROVE  Typed' /\ RowStep
  <1> DEFINE r == req[c]
             from == IF "startAt" \in r.moves THEN r.from ELSE startAt[r.id]
             to == IF "endAt" \in r.moves THEN r.to ELSE endAt[r.id]
  <1>1. /\ r.id \in Reservation
        /\ from \in Instant /\ to \in Instant
        /\ status[r.id] \in Statuses \cup {"none"}
        /\ item[r.id] \in Equipment \cup {None}
    BY DEF Move, Typed, TypeOK, Request, WellShaped
  <1>2. CASE Refuse(c)
    BY <1>2, RefuseTyped
  <1>3. CASE /\ Admits(r.id, status[r.id], item[r.id], from, to)
             /\ startAt' = [startAt EXCEPT ![r.id] = from]
             /\ endAt' = [endAt EXCEPT ![r.id] = to]
             /\ Finish(c)
             /\ UNCHANGED <<status, item>>
    <2>1. Judged(r.id, status[r.id], item[r.id], from, to)
      BY <1>3, <1>1 DEF Judged, Typed, TypeOK
    <2> QED
      BY <2>1, <1>1, <1>3, JudgedTyped
  <1> QED
    BY <1>2, <1>3 DEF Move

LEMMA MarkTyped ==
  ASSUME Typed, NEW c \in Requests, Mark(c)
  PROVE  Typed' /\ RowStep
  <1> DEFINE i == req[c].id
             st == req[c].next
  <1>1. /\ i \in Reservation
        /\ st \in Statuses \cup {"none"}
        /\ item[i] \in Equipment \cup {None}
        /\ startAt[i] \in Instant /\ endAt[i] \in Instant
    BY DEF Mark, Typed, TypeOK, Request, WellShaped
  <1>2. CASE Refuse(c)
    BY <1>2, RefuseTyped
  <1>3. CASE /\ Admits(i, st, item[i], startAt[i], endAt[i])
             /\ status' = [status EXCEPT ![i] = st]
             /\ Finish(c)
             /\ UNCHANGED <<item, startAt, endAt>>
    <2>1. Judged(i, st, item[i], startAt[i], endAt[i])
      BY <1>3, <1>1 DEF Judged, Typed, TypeOK
    <2> QED
      BY <2>1, <1>1, <1>3, JudgedTyped
  <1> QED
    BY <1>2, <1>3 DEF Mark

LEMMA NextTyped == Typed /\ [Next]_vars => Typed' /\ RowStep
  <1> SUFFICES ASSUME Typed, [Next]_vars PROVE Typed' /\ RowStep
    OBVIOUS
  <1>1. CASE Tick
    BY <1>1, HorizonAssumption DEF Tick, Typed, TypeOK, rows, RowStep, Instant, WellShaped
  <1>2. CASE UNCHANGED vars
    BY <1>2 DEF vars, Typed, TypeOK, rows, RowStep, Instant, WellShaped
  <1> QED
    BY <1>1, <1>2, BeginningsTyped, OverlapCheckTyped, InsertTyped, MoveTyped,
       MarkTyped
    DEF Next, RowStep

LEMMA AlwaysTyped == Spec => []Typed
  BY InitTyped, NextTyped, PTL DEF Spec

\* Every reachable state of Reservations is type-correct.
LEMMA RentalsTypeCorrect == Spec => []TypeOK
  <1>1. Typed => TypeOK
    BY DEF Typed
  <1> QED
    BY AlwaysTyped, <1>1, PTL

-----------------------------------------------------------------------------
(* What the constraints keep *)

LEMMA RowStepKeepsRentals ==
  Typed /\ RowStep /\ NoDoubleRental => NoDoubleRental'
  <1> SUFFICES ASSUME Typed, RowStep, NoDoubleRental,
                      NEW a \in Reservation, NEW b \in Reservation,
                      a # b, item'[a] = item'[b],
                      {status'[a], status'[b]} \subseteq {"RESERVED", "ACTIVE"}
               PROVE  endAt'[a] <= startAt'[b] \/ endAt'[b] <= startAt'[a]
    BY DEF NoDoubleRental
  <1>1. CASE UNCHANGED rows
    BY <1>1 DEF rows, NoDoubleRental
  <1>2. ASSUME NEW i \in Reservation, NEW st \in Statuses \cup {"none"},
               NEW e \in Equipment \cup {None}, NEW from \in Instant, NEW to \in Instant,
               Judged(i, st, e, from, to)
        PROVE  endAt'[a] <= startAt'[b] \/ endAt'[b] <= startAt'[a]
    <2>1. \A j \in Reservation : startAt[j] \in Int /\ endAt[j] \in Int
      BY Constants DEF Typed, TypeOK
    <2>2. from \in Int /\ to \in Int
      BY Constants
    <2>3. CASE a # i /\ b # i
      BY <2>3, <1>2 DEF Judged, NoDoubleRental, Typed, TypeOK
    <2>4. CASE a = i
      BY <2>1, <2>2, <2>4, <1>2
      DEF Judged, Admits, Taken, Holds, HoldingStatuses, Meet, Typed, TypeOK
    <2>5. CASE b = i
      BY <2>1, <2>2, <2>5, <1>2
      DEF Judged, Admits, Taken, Holds, HoldingStatuses, Meet, Typed, TypeOK
    <2> QED
      BY <2>3, <2>4, <2>5
  <1> QED
    BY <1>1, <1>2 DEF RowStep

\* No equipment is promised to two reservations for the same instant.
LEMMA RentedSingly == Spec => []NoDoubleRental
  <1>1. Init => NoDoubleRental
    BY DEF Init, NoDoubleRental
  <1>2. Typed /\ NoDoubleRental /\ [Next]_vars => NoDoubleRental'
    BY NextTyped, RowStepKeepsRentals
  <1> QED
    BY <1>1, <1>2, AlwaysTyped, PTL DEF Spec

\* Every interval is one, whichever ends concurrent updates move.
LEMMA IntervalsKept == Spec => []DurationsPositive
  <1>1. Init => DurationsPositive
    BY DEF Init, DurationsPositive, Exists
  <1>2. Typed /\ DurationsPositive /\ [Next]_vars => DurationsPositive'
    <2> SUFFICES ASSUME Typed, DurationsPositive, RowStep PROVE DurationsPositive'
      BY NextTyped
    <2>1. CASE UNCHANGED rows
      BY <2>1 DEF rows, DurationsPositive, Exists
    <2>2. ASSUME NEW i \in Reservation, NEW st \in Statuses \cup {"none"},
                 NEW e \in Equipment \cup {None}, NEW from \in Instant, NEW to \in Instant,
                 Judged(i, st, e, from, to)
          PROVE  DurationsPositive'
      BY <2>2 DEF Judged, Admits, PositiveDuration, DurationsPositive, Exists, Typed, TypeOK
    <2> QED
      BY <2>1, <2>2 DEF RowStep
  <1> QED
    BY <1>1, <1>2, AlwaysTyped, PTL DEF Spec

-----------------------------------------------------------------------------
(* What brings a reservation back *)

LEMMA StepRevivesByStale == Typed /\ [Next]_vars => RevivedByStale
  <1> SUFFICES ASSUME Typed, [Next]_vars, NEW i \in Reservation, Revived(i)
               PROVE  \E c \in Requests :
                        /\ pc[c] = "mark" /\ req[c].id = i
                        /\ req[c].seen \in {"RESERVED", "ACTIVE"}
    BY DEF RevivedByStale
  <1>1. status # status'
    BY DEF Revived, Typed, TypeOK
  <1>2. ASSUME NEW c \in Requests, Insert(c)
        PROVE  FALSE
    BY <1>1, <1>2 DEF Insert, Exists, Refuse, rows, Revived, Typed, TypeOK
  <1>3. ASSUME NEW c \in Requests, Mark(c)
        PROVE  pc[c] = "mark" /\ req[c].id = i /\ req[c].seen \in {"RESERVED", "ACTIVE"}
    BY <1>1, <1>3 DEF Mark, Refuse, rows, Revived, Typed, TypeOK, WellShaped
  <1>4. ASSUME NEW c \in Requests, Move(c)
        PROVE  FALSE
    BY <1>1, <1>4 DEF Move, Refuse, rows
  <1>5. ~Tick /\ ~UNCHANGED vars
    BY <1>1 DEF Tick, vars, rows
  <1> QED
    BY <1>1, <1>2, <1>3, <1>4, <1>5, BeginningsTyped, OverlapCheckTyped DEF Next, rows

\* Only a request that read the status before brings a cancelled or completed
\* reservation back.
LEMMA StaleRevives == Spec => OnlyStaleRevives
  BY AlwaysTyped, StepRevivesByStale, PTL DEF Spec, OnlyStaleRevives

-----------------------------------------------------------------------------
(* Bookings: the shape of a step *)

\* What a request at a label works on.
BookingShaped(r, label) ==
  /\ label = "insert" => r.service \in Service
  /\ label = "update" => r.id \in Booking /\ bookingStatus[r.id] # "none"

BookingsTyped == B!TypeOK /\ \A c \in Requests : BookingShaped(bookingReq[c], bookingPc[c])

\* A write of row b that the constraints have judged.
BookingJudged(b, s, st, from, to) ==
  /\ B!Admits(b, st, s, from, to)
  /\ bookingStatus' = [bookingStatus EXCEPT ![b] = st]
  /\ service' = [service EXCEPT ![b] = s]
  /\ bookedFrom' = [bookedFrom EXCEPT ![b] = from]
  /\ bookedTo' = [bookedTo EXCEPT ![b] = to]

\* What any step does to the table.
BookingStep ==
  \/ UNCHANGED B!rows
  \/ \E b \in Booking, s \in Service, st \in B!Statuses, from, to \in B!Instant :
       BookingJudged(b, s, st, from, to)

-----------------------------------------------------------------------------
(* Bookings: type correctness *)

LEMMA BookingConstants ==
  /\ B!Instant \subseteq Int
  /\ 0 \in B!Instant
  /\ B!Starts \subseteq B!Instant /\ B!Ends \subseteq B!Instant
  /\ B!NoRequest \in B!Request
  BY HorizonAssumption DEF B!Instant, B!Starts, B!Ends, B!NoRequest, B!Request

LEMMA BookingsInit == B!Init => BookingsTyped
  BY BookingConstants DEF B!Init, BookingsTyped, B!TypeOK, BookingShaped, B!NoRequest

LEMMA BookingBegun ==
  ASSUME BookingsTyped, NEW c \in Requests, NEW b \in Booking \cup {None},
         NEW s \in Service \cup {None}, NEW label \in {"insert", "update"},
         B!Begin(c, label, b, s), BookingShaped([id |-> b, service |-> s], label)
  PROVE  BookingsTyped' /\ BookingStep
  BY DEF BookingsTyped, B!TypeOK, B!Begin, BookingShaped, B!rows, B!Instant, B!Request,
    BookingStep

LEMMA BookingCreated ==
  ASSUME BookingsTyped, NEW c \in Requests, NEW s \in Service, B!BeginCreate(c, s)
  PROVE  BookingsTyped' /\ BookingStep
  <1>1. BookingShaped([id |-> None, service |-> s], "insert")
    BY DEF BookingShaped
  <1> QED
    BY <1>1, BookingBegun DEF B!BeginCreate

LEMMA BookingUpdateBegun ==
  ASSUME BookingsTyped, NEW c \in Requests, NEW b \in Booking, NEW s \in Service \cup {None},
         B!BeginUpdate(c, b, s)
  PROVE  BookingsTyped' /\ BookingStep
  <1>1. BookingShaped([id |-> b, service |-> s], "update")
    BY DEF BookingShaped, B!BeginUpdate, B!Exists
  <1> QED
    BY <1>1, BookingBegun DEF B!BeginUpdate

LEMMA BookingWritten ==
  ASSUME BookingsTyped, NEW c \in Requests, NEW b \in Booking, NEW s \in Service,
         NEW st \in B!Statuses, NEW from \in B!Starts, NEW to \in B!Ends,
         B!Write(c, b, s, st, from, to)
  PROVE  BookingsTyped' /\ BookingStep
  <1>1. from \in B!Instant /\ to \in B!Instant /\ st # "none"
    BY BookingConstants DEF B!Statuses
  <1>2. CASE UNCHANGED B!rows
    BY <1>2, BookingConstants
    DEF B!Write, BookingsTyped, B!TypeOK, B!rows, BookingStep, BookingShaped,
        B!NoRequest, B!Instant
  <1>3. CASE BookingJudged(b, s, st, from, to)
    <2>1. BookingStep
      BY <1>1, <1>3 DEF BookingStep
    <2>2. /\ bookingPc' = [bookingPc EXCEPT ![c] = "idle"]
          /\ bookingReq' = [bookingReq EXCEPT ![c] = B!NoRequest]
          /\ UNCHANGED <<orderId, offered, placedFor>>
      BY DEF B!Write
    <2>3. /\ bookingStatus' \in [Booking -> B!Statuses \cup {"none"}]
          /\ service' \in [Booking -> Service \cup {None}]
          /\ bookedFrom' \in [Booking -> B!Instant] /\ bookedTo' \in [Booking -> B!Instant]
          /\ \A d \in Booking : bookingStatus'[d] # "none" => service'[d] \in Service
          /\ \A d \in Booking : bookingStatus[d] # "none" => bookingStatus'[d] # "none"
      BY <1>1, <1>3 DEF BookingJudged, BookingsTyped, B!TypeOK
    <2>4. B!TypeOK'
      BY <2>2, <2>3, BookingConstants DEF BookingsTyped, B!TypeOK, B!Instant
    <2>5. \A d \in Requests : BookingShaped(bookingReq[d], bookingPc[d])'
      BY <2>2, <2>3 DEF BookingsTyped, B!TypeOK, BookingShaped
    <2> QED
      BY <2>1, <2>4, <2>5 DEF BookingsTyped
  <1> QED
    BY <1>2, <1>3 DEF B!Write, BookingJudged

LEMMA BookingInserted ==
  ASSUME BookingsTyped, NEW c \in Requests, NEW b \in Booking, NEW st \in B!Statuses,
         NEW from \in B!Starts, NEW to \in B!Ends, B!Insert(c, b, st, from, to)
  PROVE  BookingsTyped' /\ BookingStep
  <1>1. bookingReq[c].service \in Service
    BY DEF B!Insert, BookingsTyped, BookingShaped
  <1> QED
    BY <1>1, BookingWritten DEF B!Insert

LEMMA BookingUpdated ==
  ASSUME BookingsTyped, NEW c \in Requests, NEW b \in Booking, NEW st \in B!Statuses,
         NEW from \in B!Starts, NEW to \in B!Ends, B!Update(c, b, st, from, to)
  PROVE  BookingsTyped' /\ BookingStep
  <1> DEFINE s == IF bookingReq[c].service = None THEN service[b] ELSE bookingReq[c].service
  <1>1. s \in Service
    BY DEF B!Update, BookingsTyped, B!TypeOK, BookingShaped, B!Request
  <1>2. B!Write(c, b, s, st, from, to)
    BY DEF B!Update
  <1> QED
    BY <1>1, <1>2, BookingWritten

LEMMA BookingsNext == BookingsTyped /\ [B!Next]_B!vars => BookingsTyped' /\ BookingStep
  <1> SUFFICES ASSUME BookingsTyped, [B!Next]_B!vars PROVE BookingsTyped' /\ BookingStep
    OBVIOUS
  <1>1. ASSUME NEW o \in Order, NEW b \in Booking, B!PlaceOrder(o, b)
        PROVE  BookingsTyped' /\ BookingStep
    BY <1>1
    DEF B!PlaceOrder, BookingsTyped, B!TypeOK, B!rows, BookingStep, BookingShaped,
        B!Instant
  <1>2. ASSUME NEW s \in Service, B!OfferService(s)
        PROVE  BookingsTyped' /\ BookingStep
    BY <1>2
    DEF B!OfferService, BookingsTyped, B!TypeOK, B!rows, BookingStep, BookingShaped,
        B!Instant
  <1>3. CASE UNCHANGED B!vars
    BY <1>3
    DEF B!vars, BookingsTyped, B!TypeOK, B!rows, BookingStep, BookingShaped, B!Instant
  <1> QED
    BY <1>1, <1>2, <1>3, BookingCreated, BookingUpdateBegun, BookingInserted, BookingUpdated
    DEF B!Next

LEMMA BookingsAlwaysTyped == B!Spec => []BookingsTyped
  BY BookingsInit, BookingsNext, PTL DEF B!Spec

\* Every reachable state of Bookings is type-correct; in particular a booking
\* is always one of a service, also after a PATCH that leaves it out.
LEMMA BookingsTypeCorrect == B!Spec => []B!TypeOK
  <1>1. BookingsTyped => B!TypeOK
    BY DEF BookingsTyped
  <1> QED
    BY BookingsAlwaysTyped, <1>1, PTL

-----------------------------------------------------------------------------
(* Bookings: what the constraint and the guarded link keep *)

LEMMA BookingStepKeeps ==
  BookingsTyped /\ BookingStep /\ B!NoDoubleBooking => B!NoDoubleBooking'
  <1> SUFFICES ASSUME BookingsTyped, BookingStep, B!NoDoubleBooking,
                      NEW a \in Booking, NEW d \in Booking,
                      a # d, service'[a] = service'[d],
                      {bookingStatus'[a], bookingStatus'[d]}
                        \subseteq {"BOOKED", "CONFIRMED", "ACTIVE"}
               PROVE  bookedTo'[a] <= bookedFrom'[d] \/ bookedTo'[d] <= bookedFrom'[a]
    BY DEF B!NoDoubleBooking
  <1>1. CASE UNCHANGED B!rows
    BY <1>1 DEF B!rows, B!NoDoubleBooking
  <1>2. ASSUME NEW b \in Booking, NEW s \in Service, NEW st \in B!Statuses,
               NEW from \in B!Instant, NEW to \in B!Instant, BookingJudged(b, s, st, from, to)
        PROVE  bookedTo'[a] <= bookedFrom'[d] \/ bookedTo'[d] <= bookedFrom'[a]
    <2>1. \A e \in Booking : bookedFrom[e] \in Int /\ bookedTo[e] \in Int
      BY BookingConstants DEF BookingsTyped, B!TypeOK
    <2>2. from \in Int /\ to \in Int
      BY BookingConstants
    <2>3. CASE a # b /\ d # b
      BY <2>3, <1>2 DEF BookingJudged, B!NoDoubleBooking, BookingsTyped, B!TypeOK
    <2>4. CASE a = b
      BY <2>1, <2>2, <2>4, <1>2
      DEF BookingJudged, B!Admits, B!Taken, B!HoldingStatuses, B!Meet, BookingsTyped, B!TypeOK
    <2>5. CASE d = b
      BY <2>1, <2>2, <2>5, <1>2
      DEF BookingJudged, B!Admits, B!Taken, B!HoldingStatuses, B!Meet, BookingsTyped, B!TypeOK
    <2> QED
      BY <2>3, <2>4, <2>5
  <1> QED
    BY <1>1, <1>2 DEF BookingStep

\* No service is booked twice for the same instant.
LEMMA BookedSingly == B!Spec => []B!NoDoubleBooking
  <1>1. B!Init => B!NoDoubleBooking
    BY DEF B!Init, B!NoDoubleBooking
  <1>2. BookingsTyped /\ B!NoDoubleBooking /\ [B!Next]_B!vars => B!NoDoubleBooking'
    BY BookingsNext, BookingStepKeeps
  <1> QED
    BY <1>1, <1>2, BookingsAlwaysTyped, PTL DEF B!Spec

\* No request undoes the link of a booking to its order, and no second order
\* takes it over.
LEMMA OrderLinkKept == B!Spec => []B!OrderedOnce
  <1>1. B!Init => B!OrderedOnce
    BY NoneAssumption DEF B!Init, B!OrderedOnce
  <1>2. BookingsTyped /\ B!OrderedOnce /\ [B!Next]_B!vars => B!OrderedOnce'
    <2> SUFFICES ASSUME BookingsTyped, B!OrderedOnce, [B!Next]_B!vars PROVE B!OrderedOnce'
      OBVIOUS
    <2>1. ASSUME NEW o \in Order, NEW b \in Booking, B!PlaceOrder(o, b)
          PROVE  B!OrderedOnce'
      BY <2>1, NoneAssumption
      DEF B!PlaceOrder, B!Linkable, B!OrderedOnce, BookingsTyped, B!TypeOK
    <2>2. CASE UNCHANGED <<orderId, placedFor>>
      BY <2>2 DEF B!OrderedOnce
    <2>3. (\E o \in Order, b \in Booking : B!PlaceOrder(o, b))
            \/ UNCHANGED <<orderId, placedFor>>
      BY DEF B!Next, B!vars, B!BeginCreate, B!BeginUpdate, B!Begin, B!Insert, B!Update,
        B!Write, B!OfferService
    <2> QED
      BY <2>1, <2>2, <2>3
  <1> QED
    BY <1>1, <1>2, BookingsAlwaysTyped, PTL DEF B!Spec

-----------------------------------------------------------------------------
(* The composition: each component's part of a behaviour is one of its own *)

\* What holds of every behaviour of Reservations holds of its part of the
\* schedule's: no step of Bookings touches its rows or its requests.
THEOREM SchedulesRentals == ScheduleSpec => Spec
  <1>1. ScheduleInit => Init
    BY DEF ScheduleInit
  <1>2. [ScheduleNext]_<<renting, vars, bookingVars>> => [Next]_vars
    BY DEF ScheduleNext
  <1> QED
    BY <1>1, <1>2, PTL DEF ScheduleSpec, Spec

\* The same for Bookings.
THEOREM SchedulesBookings == ScheduleSpec => B!Spec
  <1>1. ScheduleInit => B!Init
    BY DEF ScheduleInit
  <1>2. [ScheduleNext]_<<renting, vars, bookingVars>> => [B!Next]_B!vars
    BY DEF ScheduleNext, bookingVars, B!vars, B!rows
  <1> QED
    BY <1>1, <1>2, PTL DEF ScheduleSpec, B!Spec

\* Every reachable state is type-correct; in particular a booking is always one
\* of a service, also after a PATCH that leaves it out.
THEOREM ScheduleTyped == ScheduleSpec => []TypesOK
  <1>1. TypeOK /\ B!TypeOK => TypesOK
    BY DEF TypesOK
  <1> QED
    BY <1>1, SchedulesRentals, SchedulesBookings, RentalsTypeCorrect, BookingsTypeCorrect, PTL

\* No equipment is promised to two reservations for the same instant.
THEOREM RentedOnce == ScheduleSpec => []NoDoubleRental
  BY SchedulesRentals, RentedSingly, PTL

\* Every interval is one, whichever ends concurrent updates move.
THEOREM IntervalsStay == ScheduleSpec => []DurationsPositive
  BY SchedulesRentals, IntervalsKept, PTL

\* Only a request that read the status before brings a cancelled or completed
\* reservation back.
THEOREM StaleOnly == ScheduleSpec => OnlyStaleRevives
  BY SchedulesRentals, StaleRevives, PTL

\* No service is booked twice for the same instant.
THEOREM BookedOnce == ScheduleSpec => []NoDoubleBooking
  BY SchedulesBookings, BookedSingly, PTL DEF NoDoubleBooking

\* No request undoes the link of a booking to its order, and no second order
\* takes it over.
THEOREM OrderKept == ScheduleSpec => []OrderedOnce
  BY SchedulesBookings, OrderLinkKept, PTL DEF OrderedOnce
=============================================================================

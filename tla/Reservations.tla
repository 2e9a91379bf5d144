---------------------------- MODULE Reservations ----------------------------
(***************************************************************************)
(* Reservations of rentable equipment                                      *)
(* (src/src/reservation/reservation.service.ts).  Every handler reads the  *)
(* row, decides, and writes by id in a later statement; between the two,   *)
(* other requests write.  The exclusion constraint and the CHECK of the    *)
(* Reservation table judge each write by the row it leaves.                *)
(*                                                                         *)
(* Customers and notes are left out: what they are never decides anything. *)
(***************************************************************************)
EXTENDS Intervals

CONSTANTS
  Requests,    \* concurrent requests
  Reservation, \* ids of reservations
  Equipment,
  None         \* no reservation, no equipment: not one of either

VARIABLES
  status,    \* Reservation.status, "none" while the id is unused
  item,      \* Reservation.equipmentId
  startAt, endAt,
  now,       \* the server's clock
  pc,        \* the statement each request executes next
  req        \* its parameters and what it has read

rows == <<status, item, startAt, endAt>>
vars == <<rows, now, pc, req>>

Statuses == {"RESERVED", "ACTIVE", "COMPLETED", "CANCELLED"}

\* id is the row to write, None for a new one; from and to are the effective
\* interval; moves are the columns an update writes; next is the status it
\* sets; seen is the row's status as the handler read it.
Request == [id : Reservation \cup {None}, item : Equipment \cup {None},
            from : Instant, to : Instant, moves : SUBSET {"startAt", "endAt"},
            next : Statuses, seen : Statuses \cup {"none"}]
NoRequest == [id |-> None, item |-> None, from |-> 0, to |-> 0, moves |-> {},
              next |-> "RESERVED", seen |-> "none"]

TypeOK ==
  /\ status \in [Reservation -> Statuses \cup {"none"}]
  /\ item \in [Reservation -> Equipment \cup {None}]
  /\ startAt \in [Reservation -> Instant]
  /\ endAt \in [Reservation -> Instant]
  /\ now \in Instant
  /\ pc \in [Requests -> {"idle", "overlap", "insert", "move", "mark"}]
  /\ req \in [Requests -> Request]

Init ==
  /\ status = [i \in Reservation |-> "none"]
  /\ item = [i \in Reservation |-> None]
  /\ startAt = [i \in Reservation |-> 0]
  /\ endAt = [i \in Reservation |-> 0]
  /\ now = 0
  /\ pc = [c \in Requests |-> "idle"]
  /\ req = [c \in Requests |-> NoRequest]

-----------------------------------------------------------------------------
(* The constraints of the table *)

\* Fault: the predicate of the constraint forgets the rented equipment.
OnlyReserved == {"RESERVED"}
HoldingStatuses == {"RESERVED", "ACTIVE"}

Exists(i) == status[i] # "none"
Holds(i) == status[i] \in HoldingStatuses
\* Another row that holds e meets the interval.
Taken(i, e, from, to) ==
  \E j \in Reservation \ {i} :
    Holds(j) /\ item[j] = e /\ Meet(startAt[j], endAt[j], from, to)

\* The row would satisfy the CHECK and the exclusion constraint.
Admits(i, st, e, from, to) ==
  /\ PositiveDuration(from, to)
  /\ st \in HoldingStatuses => ~Taken(i, e, from, to)

-----------------------------------------------------------------------------
(* Requests *)

Begin(c, label, r) ==
  /\ pc[c] = "idle"
  /\ pc' = [pc EXCEPT ![c] = label]
  /\ req' = [req EXCEPT ![c] = r]
  /\ UNCHANGED <<rows, now>>
Finish(c) ==
  /\ pc' = [pc EXCEPT ![c] = "idle"]
  /\ req' = [req EXCEPT ![c] = NoRequest]
  /\ UNCHANGED now
\* The handler throws.
Refuse(c) == Finish(c) /\ UNCHANGED rows

\* createReservation.
BeginCreate(c, e, from, to) ==
  /\ from < to
  /\ Begin(c, "overlap", [NoRequest EXCEPT !.item = e, !.from = from, !.to = to])

\* updateReservation: the interval is judged as a whole, with the columns it
\* does not move as they were read.
BeginUpdate(c, i, from, to, moves) ==
  /\ status[i] = "RESERVED"
  /\ moves # {}
  /\ "startAt" \notin moves => from = startAt[i]
  /\ "endAt" \notin moves => to = endAt[i]
  /\ from < to
  /\ Begin(c, "overlap",
       [NoRequest EXCEPT !.id = i, !.item = item[i], !.from = from, !.to = to,
                         !.moves = moves, !.seen = status[i]])

\* assertNoOverlap.
OverlapCheck(c) ==
  LET r == req[c] IN
  /\ pc[c] = "overlap"
  /\ \/ Taken(r.id, r.item, r.from, r.to) /\ Refuse(c)
     \/ /\ ~Taken(r.id, r.item, r.from, r.to)
        /\ pc' = [pc EXCEPT ![c] = IF r.id = None THEN "insert" ELSE "move"]
        /\ UNCHANGED <<rows, now, req>>

Insert(c) ==
  LET r == req[c] IN
  /\ pc[c] = "insert"
  /\ \E i \in Reservation :
       /\ ~Exists(i)
       /\ \/ /\ Admits(i, "RESERVED", r.item, r.from, r.to)
             /\ status' = [status EXCEPT ![i] = "RESERVED"]
             /\ item' = [item EXCEPT ![i] = r.item]
             /\ startAt' = [startAt EXCEPT ![i] = r.from]
             /\ endAt' = [endAt EXCEPT ![i] = r.to]
             /\ Finish(c)
          \/ ~Admits(i, "RESERVED", r.item, r.from, r.to) /\ Refuse(c)

\* The update writes the columns it moves, on whatever the row is by now.
Move(c) ==
  LET r == req[c]
      from == IF "startAt" \in r.moves THEN r.from ELSE startAt[r.id]
      to == IF "endAt" \in r.moves THEN r.to ELSE endAt[r.id]
  IN
  /\ pc[c] = "move"
  /\ \/ /\ Admits(r.id, status[r.id], item[r.id], from, to)
        /\ startAt' = [startAt EXCEPT ![r.id] = from]
        /\ endAt' = [endAt EXCEPT ![r.id] = to]
        /\ Finish(c)
        /\ UNCHANGED <<status, item>>
     \/ ~Admits(r.id, status[r.id], item[r.id], from, to) /\ Refuse(c)

\* Fault: transition only refuses what has never been.
AnyStatus(i, from) == Exists(i)
\* The status check of transition and of deleteReservation.
MayLeave(i, from) == status[i] \in from

\* startReservation, completeReservation and deleteReservation.
BeginStart(c, i) ==
  /\ MayLeave(i, {"RESERVED"})
  /\ startAt[i] <= now
  /\ Begin(c, "mark", [NoRequest EXCEPT !.id = i, !.next = "ACTIVE", !.seen = status[i]])
BeginComplete(c, i) ==
  /\ MayLeave(i, {"ACTIVE"})
  /\ endAt[i] <= now
  /\ Begin(c, "mark", [NoRequest EXCEPT !.id = i, !.next = "COMPLETED", !.seen = status[i]])
BeginDelete(c, i) ==
  /\ MayLeave(i, {"RESERVED", "ACTIVE", "COMPLETED"})
  /\ Begin(c, "mark", [NoRequest EXCEPT !.id = i, !.next = "CANCELLED", !.seen = status[i]])

\* The status is written by id; the constraint may refuse a row that comes
\* back to hold what another one holds by now.
Mark(c) ==
  LET i == req[c].id IN
  /\ pc[c] = "mark"
  /\ \/ /\ Admits(i, req[c].next, item[i], startAt[i], endAt[i])
        /\ status' = [status EXCEPT ![i] = req[c].next]
        /\ Finish(c)
        /\ UNCHANGED <<item, startAt, endAt>>
     \/ ~Admits(i, req[c].next, item[i], startAt[i], endAt[i]) /\ Refuse(c)

Tick == now < Horizon /\ now' = now + 1 /\ UNCHANGED <<rows, pc, req>>

Next ==
  \/ \E c \in Requests :
       \/ OverlapCheck(c) \/ Insert(c) \/ Move(c) \/ Mark(c)
       \/ \E e \in Equipment, from, to \in Instant : BeginCreate(c, e, from, to)
       \/ \E i \in Reservation :
            \/ BeginStart(c, i) \/ BeginComplete(c, i) \/ BeginDelete(c, i)
            \/ \E from, to \in Instant, moves \in SUBSET {"startAt", "endAt"} :
                 BeginUpdate(c, i, from, to, moves)
  \/ Tick

Spec == Init /\ [][Next]_vars

-----------------------------------------------------------------------------
(* Properties *)

\* No equipment is promised to two reservations for the same instant, also
\* after a transition has brought a cancelled one back.
NoDoubleRental ==
  \A i, j \in Reservation :
    /\ i # j /\ item[i] = item[j]
    /\ {status[i], status[j]} \subseteq {"RESERVED", "ACTIVE"}
    => endAt[i] <= startAt[j] \/ endAt[j] <= startAt[i]

\* Two updates that each move one end of an interval, and each judged it by
\* the other end as it was, leave no empty or inverted interval.
DurationsPositive == \A i \in Reservation : Exists(i) => startAt[i] < endAt[i]

\* The harm of a stale status is bounded: what brings a cancelled or completed
\* reservation back is a request that was already under way, on a status it
\* read before; one that begins later is refused.  (COMPLETED may still be
\* cancelled.)
Revived(i) ==
  status[i] \in {"COMPLETED", "CANCELLED"} /\ status'[i] \in {"RESERVED", "ACTIVE"}
RevivedByStale ==
  \A i \in Reservation : Revived(i) =>
    \E c \in Requests :
      pc[c] = "mark" /\ req[c].id = i /\ req[c].seen \in {"RESERVED", "ACTIVE"}
OnlyStaleRevives == [][RevivedByStale]_vars

\* The class comment: "CANCELLED rows are immutable".
CancelledIsImmutable ==
  [][\A i \in Reservation : status[i] = "CANCELLED" =>
       status'[i] = "CANCELLED" /\ startAt'[i] = startAt[i] /\ endAt'[i] = endAt[i]]_vars
=============================================================================

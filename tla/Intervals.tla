----------------------------- MODULE Intervals -----------------------------
(***************************************************************************)
(* Time as reservations and bookings see it: instants, half-open intervals *)
(* of them, and the two conditions on intervals that the constraints of    *)
(* both tables state.                                                      *)
(***************************************************************************)
EXTENDS Integers

CONSTANT Horizon    \* bound on time: instants are 0..Horizon

ASSUME HorizonAssumption == Horizon \in Nat \ {0}

Instant == 0..Horizon

\* An interval that starts where another ends does not meet it.
Meet(from1, to1, from2, to2) == from1 < to2 /\ from2 < to1

\* Fault: the tables have no CHECK.
AnyDuration(from, to) == TRUE
PositiveDuration(from, to) == from < to
=============================================================================

-------------------------- MODULE MCBookingCommands --------------------------
(***************************************************************************)
(* Small instances of BookingCommands.  Every instance has the barber of   *)
(* the competing commands; times are in ticks, a visit takes two of them.  *)
(***************************************************************************)
EXTENDS CommandsImplementLedger, TLC

CONSTANTS anna, boris, cut, b1, b2, b3, k1, k2, k3, r1, r2, r3

Create(key, barber, start) ==
  [op |-> "CREATE_BOOKING", key |-> key, barber |-> barber, service |-> cut,
   start |-> start]
Reschedule(key, b, version, start) ==
  [op |-> "RESCHEDULE_BOOKING", key |-> key, booking |-> b, expected |-> version,
   start |-> start]
Cancel(key, b, version, override) ==
  [op |-> "CANCEL_BOOKING", key |-> key, booking |-> b, expected |-> version,
   override |-> override]
Complete(key, b, version) ==
  [op |-> "COMPLETE_BOOKING", key |-> key, booking |-> b, expected |-> version]
NoShow(key, b, version) ==
  [op |-> "MARK_NO_SHOW", key |-> key, booking |-> b, expected |-> version]

Booked(barber, start) ==
  [status |-> "CONFIRMED", version |-> 1, barber |-> barber, start |-> start,
   duration |-> 2]

MCDuration == cut :> 2
MCOffered == {anna, boris} \X {cut}
OneShift == [x \in {anna, boris} |-> {<<2, 9>>}]
TwoShifts == [x \in {anna, boris} |-> {<<1, 5>>, <<6, 9>>}]

\* Slots and lifecycle: the booking b1 at 2 can be moved, cancelled or ended
\* while its time passes, and two creations want the slot that it may move to;
\* their own slots overlap.  One command knows the version after a move.
BusyExisting == b1 :> Booked(anna, 2) @@ b2 :> NoRow @@ b3 :> NoRow
BusyCommands ==
  {Create(k1, anna, 5), Create(k2, anna, 4),
   Reschedule(k1, b1, 1, 4), Cancel(k1, b1, 1, FALSE),
   Complete(k1, b1, 1), NoShow(k1, b1, 1), Complete(k2, b1, 2)}

\* Retries: the same key with the same and with another payload, for two
\* barbers, a start time that is valid at the first attempt and too soon a tick
\* later, a slot that a cancellation frees, and a command on a booking that
\* another one creates.
RetryExisting == b1 :> Booked(anna, 3) @@ b2 :> NoRow @@ b3 :> NoRow
RetryCommands ==
  {Create(k1, anna, 2), Create(k2, boris, 6), Create(k2, anna, 1),
   Cancel(k1, b1, 1, TRUE), Cancel(k2, b2, 1, TRUE)}

\* Late moves: a booking whose two-hour window has begun.
LateExisting == b1 :> Booked(anna, 2) @@ b2 :> NoRow
LateCommands == {Cancel(k1, b1, 1, FALSE), Reschedule(k1, b1, 1, 3), Reschedule(k2, b1, 1, 6)}

RequestSymmetry == Permutations({r1, r2, r3})
=============================================================================

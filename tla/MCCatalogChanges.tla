-------------------------- MODULE MCCatalogChanges --------------------------
(***************************************************************************)
(* Small instances of CatalogChanges: two barbers, a booking of each that  *)
(* can be moved or cancelled, and changes that collide with them.          *)
(***************************************************************************)
EXTENDS CatalogChanges, TLC

CONSTANTS anna, boris, b1, b2, b3, t1, t2, t3

MCBarberOrder == <<anna, boris>>
Booked(barber, start) ==
  [barber |-> barber, start |-> start, length |-> 1, cancelled |-> FALSE]
MCExisting == b1 :> Booked(anna, 1) @@ b2 :> Booked(boris, 1) @@ b3 :> NoRow
MCFirstShift == anna :> <<0, 4>> @@ boris :> <<0, 2>>

MCJobs ==
  {[op |-> "CREATE", barber |-> anna, start |-> 2],
   [op |-> "RESCHEDULE", booking |-> b1, start |-> 3],
   [op |-> "CANCEL", booking |-> b2],
   [op |-> "SERVICE", length |-> 2],
   [op |-> "SCHEDULE", barber |-> anna, shift |-> <<0, 3>>],
   [op |-> "SCHEDULE", barber |-> anna, shift |-> <<2, 4>>]}

=============================================================================

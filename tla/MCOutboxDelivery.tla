--------------------------- MODULE MCOutboxDelivery ---------------------------
(***************************************************************************)
(* Small instances of OutboxDelivery: the events 1 and 2 are about the     *)
(* same booking.                                                           *)
(***************************************************************************)
EXTENDS OutboxDelivery, TLC

CONSTANTS w1, w2

OneBooking == [e \in Events |-> "b"]
WorkerSymmetry == Permutations({w1, w2})
=============================================================================

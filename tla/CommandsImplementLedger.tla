----------------------- MODULE CommandsImplementLedger -----------------------
(***************************************************************************)
(* The refinement mapping from the concurrent commands to the ledger: the  *)
(* committed bookings and receipts are the ledger.  A command takes effect *)
(* when its transaction commits; every other step of it is a stutter.      *)
(***************************************************************************)
EXTENDS BookingCommands

Ledger == INSTANCE BookingLedger WITH results <- receipts

\* The concurrent commands behave like the ledger: what a transaction decided
\* between its locks and its commit, refusals included, is what an atomic
\* command would decide on the bookings it commits to.
ImplementsLedger == Ledger!Spec
=============================================================================

----------------------------- MODULE MCLockTimes -----------------------------
(***************************************************************************)
(* The scenario of competing commands with the history of their locks.     *)
(***************************************************************************)
EXTENDS MCBookingCommands, LockTimes
=============================================================================

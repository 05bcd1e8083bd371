------------------------------ MODULE LockTimes ------------------------------
(***************************************************************************)
(* When the commands decide.  Every command reads clock_timestamp() after  *)
(* the last of its locks, so that a wait for a lock counts: a visit that   *)
(* begins during the wait can no longer be cancelled.  The ledger alone    *)
(* does not say so, since it lets a command be decided at any time that    *)
(* has passed.  A history variable beside the unchanged actions of         *)
(* BookingCommands remembers when the locks were taken.                    *)
(***************************************************************************)
EXTENDS CommandsImplementLedger

VARIABLE locked   \* when the request got the last lock before its decision, or 0

TakesLock(r) ==
  \/ pc[r] = "claimed" /\ pc'[r] = "barber"
  \/ pc[r] = "barber" /\ pc'[r] = "booking"

\* The request has locks, or has been refused under them.
UnderLocks(r) ==
  \/ pc[r] \in {"barber", "booking", "staged"}
  \/ answer[r] = Error("RULE_VIOLATION")

LockedInit == Init /\ locked = [r \in Requests |-> 0]

LockedNext ==
  /\ Next
  /\ locked' = [r \in Requests |-> IF TakesLock(r) THEN clock
                                  ELSE IF UnderLocks(r)' THEN locked[r] ELSE 0]

LockedSpec == LockedInit /\ [][LockedNext]_<<vars, locked>>

-----------------------------------------------------------------------------
(* Properties. *)

\* What the rules say of the staged writes at the time `at`, on the bookings
\* as they are committed now.
DecidedAt(r, at) ==
  LET verdict == IF IsCreate(cmd[r])
                   THEN CreateVerdict(cmd[r], staged[r].booking, rows)
                   ELSE ChangeVerdict(cmd[r], rows[cmd[r].booking], at, rows)
  IN  /\ staged[r].code = verdict.code /\ staged[r].row = verdict.row
      /\ IsCreate(cmd[r]) => ~BreaksCreateRules(cmd[r], at)

\* A command decides by a time after its locks: what is about to be committed is
\* the verdict of some instant since the last lock was taken, and so is the
\* refusal of a creation.  Waiting for a lock never makes a late command timely.
DecidesAfterItsLocks ==
  \A r \in Requests :
    /\ pc[r] = "staged" => \E at \in locked[r]..clock : DecidedAt(r, at)
    /\ answer[r] = Error("RULE_VIOLATION") =>
         \E at \in locked[r]..clock : BreaksCreateRules(cmd[r], at)
=============================================================================

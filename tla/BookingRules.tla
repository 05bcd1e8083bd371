---------------------------- MODULE BookingRules ----------------------------
(***************************************************************************)
(* The decisions of the booking commands as pure operators: the row of a   *)
(* booking, what a command asks for, when a start time is acceptable, when *)
(* two bookings clash, and the verdict each command's effect reaches on    *)
(* the row it has locked.  A verdict is a result code and the row that the *)
(* command leaves behind; a refusal and a no-op leave the row they found.  *)
(*                                                                         *)
(* Time is counted in ticks.  A day has DayLength ticks, so the local date *)
(* of a branch is t \div DayLength; the working schedule is a fixed set of *)
(* shifts per barber.                                                      *)
(***************************************************************************)
EXTENDS Integers

CONSTANTS
  Barbers,        \* the barbers of the branch
  Services,       \* the services of the branch
  Bookings,       \* booking identities a creation may draw
  Keys,           \* idempotency keys, each within one scope (principal, target)
  Commands,       \* the commands that clients may send
  Duration,       \* service -> its length
  Offered,        \* <<barber, service>> pairs with an active assignment
  Shifts,         \* barber -> the working intervals <<from, to>>
  MinLead,        \* Branch.min_lead_minutes
  HorizonDays,    \* Branch.horizon_days
  DayLength,      \* ticks in a day
  Grid,           \* Branch.grid_minutes
  CancelWindow,   \* CANCELLATION_WINDOW, two hours in the code
  NoRow,          \* a booking that does not exist
  NoBooking       \* a response that names no booking

Terminal == {"CANCELLED", "COMPLETED", "NO_SHOW"}
Statuses == {"CONFIRMED"} \cup Terminal

Row == [status: Statuses, version: Nat \ {0}, barber: Barbers,
        start: Nat, duration: Nat \ {0}]

CreateCommand == [op: {"CREATE_BOOKING"}, key: Keys, barber: Barbers,
                  service: Services, start: Nat]
RescheduleCommand == [op: {"RESCHEDULE_BOOKING"}, key: Keys, booking: Bookings,
                      expected: Nat \ {0}, start: Nat]
CancelCommand == [op: {"CANCEL_BOOKING"}, key: Keys, booking: Bookings,
                  expected: Nat \ {0}, override: BOOLEAN]
OutcomeCommand == [op: {"COMPLETE_BOOKING", "MARK_NO_SHOW"}, key: Keys,
                   booking: Bookings, expected: Nat \ {0}]
ChangeCommand == RescheduleCommand \cup CancelCommand \cup OutcomeCommand

\* Commands are well formed: the services refuse an expected_version below 1
\* and an override without a reason before any transaction.
ASSUME CommandsAssumption ==
  Commands \subseteq CreateCommand \cup ChangeCommand

\* Database constraints on the catalog: durations are positive.
ASSUME CatalogAssumption ==
  /\ Duration \in [Services -> Nat \ {0}]
  /\ Offered \subseteq Barbers \X Services
  /\ Shifts \in [Barbers -> SUBSET (Nat \X Nat)]

ASSUME PolicyAssumption ==
  /\ MinLead \in Nat /\ HorizonDays \in Nat /\ CancelWindow \in Nat
  /\ DayLength \in Nat \ {0} /\ Grid \in Nat \ {0}

ASSUME NullAssumption == NoRow \notin Row /\ NoBooking \notin Bookings

IsCreate(c) == c.op = "CREATE_BOOKING"

Ops == {"CREATE_BOOKING", "RESCHEDULE_BOOKING", "CANCEL_BOOKING",
        "COMPLETE_BOOKING", "MARK_NO_SHOW"}

\* The identity of a receipt: (scope digest, operation, idempotency key).
ReceiptIds == Ops \X Keys
ReceiptId(c) == <<c.op, c.key>>

-----------------------------------------------------------------------------
(* Start times and slots. *)

ValidStart(start, now) ==
  /\ start >= now + MinLead
  /\ start \div DayLength <= now \div DayLength + HorizonDays
  /\ (start % DayLength) % Grid = 0

End(row) == row.start + row.duration

FitsSchedule(row) ==
  \E shift \in Shifts[row.barber] : shift[1] <= row.start /\ End(row) <= shift[2]

Live(row) == row # NoRow /\ row.status # "CANCELLED"

\* Half-open intervals: a booking may start when another one ends.
Overlap(x, y) ==
  x.barber = y.barber /\ x.start < End(y) /\ y.start < End(x)

\* Mutated form of Clash: the constraint forgets rescheduled bookings.
ClashOfFirstVersions(x, y) ==
  Live(x) /\ Live(y) /\ x.version = 1 /\ y.version = 1 /\ Overlap(x, y)

\* What the exclusion constraint forbids between two rows.
Clash(x, y) == Live(x) /\ Live(y) /\ Overlap(x, y)

SlotTaken(table, b, row) ==
  \E other \in Bookings \ {b} : Clash(row, table[other])

-----------------------------------------------------------------------------
(* Verdicts. *)

Verdict(code, row) == [code |-> code, row |-> row]

\* Every change of a booking raises its version by one.
NextVersion(row) == [row EXCEPT !.version = @ + 1]

NewRow(c) == [status |-> "CONFIRMED", version |-> 1, barber |-> c.barber,
              start |-> c.start, duration |-> Duration[c.service]]

BreaksCreateRules(c, now) ==
  \/ <<c.barber, c.service>> \notin Offered
  \/ ~ValidStart(c.start, now)
  \/ ~FitsSchedule(NewRow(c))

CreateVerdict(c, b, table) ==
  IF SlotTaken(table, b, NewRow(c)) THEN Verdict("SLOT_CONFLICT", NoRow)
                                    ELSE Verdict("CREATED", NewRow(c))

RescheduleVerdict(c, row, now, table) ==
  LET moved == [NextVersion(row) EXCEPT !.start = c.start]
  IN  IF row.status # "CONFIRMED" THEN Verdict("STATE_CONFLICT", row)
      ELSE IF row.version # c.expected THEN Verdict("VERSION_CONFLICT", row)
      ELSE IF row.start = c.start THEN Verdict("RESCHEDULED", row)
      ELSE IF now >= row.start THEN Verdict("RESCHEDULE_CLOSED", row)
      ELSE IF ~ValidStart(c.start, now) \/ ~FitsSchedule(moved)
        THEN Verdict("TIME_RULE_VIOLATION", row)
      ELSE IF SlotTaken(table, c.booking, moved)
        THEN Verdict("SLOT_CONFLICT", row)
      ELSE Verdict("RESCHEDULED", moved)

\* Mutated form of CancelVerdict: the expected version is not compared.
CancelAnyVersion(c, row, now) ==
  IF row.status = "CANCELLED" THEN Verdict("CANCELLED", row)
  ELSE IF row.status # "CONFIRMED" THEN Verdict("STATE_CONFLICT", row)
  ELSE IF now >= row.start \/ (~c.override /\ row.start - now < CancelWindow)
    THEN Verdict("CANCELLATION_CLOSED", row)
  ELSE Verdict("CANCELLED", [NextVersion(row) EXCEPT !.status = "CANCELLED"])

CancelVerdict(c, row, now) ==
  IF row.status = "CANCELLED" THEN Verdict("CANCELLED", row)
  ELSE IF row.status # "CONFIRMED" THEN Verdict("STATE_CONFLICT", row)
  ELSE IF row.version # c.expected THEN Verdict("VERSION_CONFLICT", row)
  ELSE IF now >= row.start \/ (~c.override /\ row.start - now < CancelWindow)
    THEN Verdict("CANCELLATION_CLOSED", row)
  ELSE Verdict("CANCELLED", [NextVersion(row) EXCEPT !.status = "CANCELLED"])

OutcomeStatus(c) == IF c.op = "COMPLETE_BOOKING" THEN "COMPLETED" ELSE "NO_SHOW"

\* Mutated form of OutcomeVerdict: the outcome is open from the start of the
\* visit, not from its end.
OutcomeFromStart(c, row, now) ==
  LET target == OutcomeStatus(c)
  IN  IF row.status = target THEN Verdict(target, row)
      ELSE IF row.status # "CONFIRMED" THEN Verdict("STATE_CONFLICT", row)
      ELSE IF row.version # c.expected THEN Verdict("VERSION_CONFLICT", row)
      ELSE IF now < row.start THEN Verdict("OUTCOME_TOO_EARLY", row)
      ELSE Verdict(target, [NextVersion(row) EXCEPT !.status = target])

OutcomeVerdict(c, row, now) ==
  LET target == OutcomeStatus(c)
  IN  IF row.status = target THEN Verdict(target, row)
      ELSE IF row.status # "CONFIRMED" THEN Verdict("STATE_CONFLICT", row)
      ELSE IF row.version # c.expected THEN Verdict("VERSION_CONFLICT", row)
      ELSE IF now < End(row) THEN Verdict("OUTCOME_TOO_EARLY", row)
      ELSE Verdict(target, [NextVersion(row) EXCEPT !.status = target])

ChangeVerdict(c, row, now, table) ==
  CASE c.op = "RESCHEDULE_BOOKING" -> RescheduleVerdict(c, row, now, table)
    [] c.op = "CANCEL_BOOKING"     -> CancelVerdict(c, row, now)
    [] OTHER                       -> OutcomeVerdict(c, row, now)

\* The part of a command's response that the model keeps: the result code,
\* the booking and its version.  It is what the receipt stores.
Response(b, verdict) ==
  IF verdict.row = NoRow
    THEN [code |-> verdict.code, booking |-> NoBooking, version |-> 0]
    ELSE [code |-> verdict.code, booking |-> b, version |-> verdict.row.version]

Codes == {"CREATED", "RESCHEDULED", "SLOT_CONFLICT", "STATE_CONFLICT",
          "VERSION_CONFLICT", "RESCHEDULE_CLOSED", "TIME_RULE_VIOLATION",
          "CANCELLATION_CLOSED", "OUTCOME_TOO_EARLY"} \cup Terminal

Responses == [code: Codes, booking: Bookings \cup {NoBooking}, version: Nat]
=============================================================================

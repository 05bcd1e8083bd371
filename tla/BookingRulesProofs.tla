------------------------- MODULE BookingRulesProofs -------------------------
(***************************************************************************)
(* Lemmas about the verdicts of the commands, for the proofs about the     *)
(* concurrent commands and about the HTTP handlers.                        *)
(***************************************************************************)
EXTENDS BookingRules, TLAPS

LEMMA Division ==
  ASSUME NEW n \in Int, NEW d \in Nat \ {0}
  PROVE  /\ n \div d \in Int /\ n % d \in 0..(d - 1)
         /\ n = d * (n \div d) + (n % d)
<1>1. n \div d \in Int
  OBVIOUS
<1>2. n % d \in 0..(d - 1)
  OBVIOUS
<1>3. n = d * (n \div d) + (n % d)
  OBVIOUS
<1> QED
  BY <1>1, <1>2, <1>3

LEMMA CommandShape ==
  ASSUME NEW c \in Commands
  PROVE  /\ c.op \in Ops /\ c.key \in Keys /\ ReceiptId(c) \in ReceiptIds
         /\ IsCreate(c) => c.barber \in Barbers /\ c.service \in Services /\ c.start \in Nat
         /\ ~IsCreate(c) => c.booking \in Bookings /\ c.expected \in Nat \ {0}
         /\ c.op = "RESCHEDULE_BOOKING" => c.start \in Nat
         /\ c.op = "CANCEL_BOOKING" => c.override \in BOOLEAN
<1>1. c \in CreateCommand \cup ChangeCommand
  BY CommandsAssumption
<1> QED
  BY <1>1 DEF CreateCommand, ChangeCommand, RescheduleCommand, CancelCommand,
              OutcomeCommand, Ops, ReceiptId, ReceiptIds, IsCreate

LEMMA NextVersionType ==
  ASSUME NEW row \in Row
  PROVE  /\ NextVersion(row) \in Row
         /\ NextVersion(row).version = row.version + 1
         /\ NextVersion(row).status = row.status /\ NextVersion(row).barber = row.barber
         /\ NextVersion(row).start = row.start /\ NextVersion(row).duration = row.duration
BY DEF NextVersion, Row

LEMMA NewRowType ==
  ASSUME NEW c \in Commands, IsCreate(c)
  PROVE  NewRow(c) \in Row
BY CommandShape, CatalogAssumption DEF NewRow, Row, Statuses, Terminal

LEMMA CreateVerdictType ==
  ASSUME NEW c \in Commands, IsCreate(c), NEW b, NEW table
  PROVE  /\ CreateVerdict(c, b, table).code \in Codes
         /\ CreateVerdict(c, b, table).row \in Row \cup {NoRow}
BY NewRowType DEF CreateVerdict, Verdict, Codes

LEMMA ChangeVerdictType ==
  ASSUME NEW c \in Commands, ~IsCreate(c), NEW row \in Row, NEW now \in Nat, NEW table
  PROVE  /\ ChangeVerdict(c, row, now, table).code \in Codes
         /\ ChangeVerdict(c, row, now, table).row \in Row
<1>1. CASE c.op = "RESCHEDULE_BOOKING"
  <2>1. c.start \in Nat
    BY <1>1, CommandShape
  <2>2. [NextVersion(row) EXCEPT !.start = c.start] \in Row
    BY <2>1, NextVersionType DEF Row
  <2> QED
    BY <1>1, <2>2 DEF ChangeVerdict, RescheduleVerdict, Verdict, Codes
<1>2. CASE c.op = "CANCEL_BOOKING"
  <2>1. [NextVersion(row) EXCEPT !.status = "CANCELLED"] \in Row
    BY NextVersionType DEF Row, Statuses, Terminal
  <2> QED
    BY <1>2, <2>1 DEF ChangeVerdict, CancelVerdict, Verdict, Codes, Terminal
<1>3. CASE c.op \notin {"RESCHEDULE_BOOKING", "CANCEL_BOOKING"}
  <2>1. OutcomeStatus(c) \in Terminal
    BY DEF OutcomeStatus, Terminal
  <2>2. [NextVersion(row) EXCEPT !.status = OutcomeStatus(c)] \in Row
    BY <2>1, NextVersionType DEF Row, Statuses
  <2> QED
    BY <1>3, <2>1, <2>2 DEF ChangeVerdict, OutcomeVerdict, Verdict, Codes
<1> QED
  BY <1>1, <1>2, <1>3

LEMMA ResponseType ==
  ASSUME NEW b \in Bookings \cup {NoBooking}, NEW v,
         v.code \in Codes, v.row \in Row \cup {NoRow}
  PROVE  Response(b, v) \in Responses
BY DEF Response, Responses, Row

\* A change keeps the barber, raises the version or changes nothing at all, and
\* never reports a creation.
LEMMA ChangeShape ==
  ASSUME NEW c \in Commands, ~IsCreate(c), NEW row \in Row, NEW now, NEW table,
         NEW verdict, verdict = ChangeVerdict(c, row, now, table)
  PROVE  /\ verdict.code # "CREATED" /\ verdict.row.barber = row.barber
         /\ verdict.row = row \/ verdict.row.version = row.version + 1
<1>1. CASE c.op = "RESCHEDULE_BOOKING"
  <2> DEFINE moved == [NextVersion(row) EXCEPT !.start = c.start]
  <2>1. moved.barber = row.barber /\ moved.version = row.version + 1
    BY NextVersionType DEF Row
  <2> HIDE DEF moved
  <2> QED
    BY <1>1, <2>1 DEF moved, ChangeVerdict, RescheduleVerdict, Verdict
<1>2. CASE c.op # "RESCHEDULE_BOOKING"
  <2> DEFINE changed(status) == [NextVersion(row) EXCEPT !.status = status]
  <2>1. \A status : changed(status).barber = row.barber
                    /\ changed(status).version = row.version + 1
    BY NextVersionType DEF Row
  <2> HIDE DEF changed
  <2>2. CASE c.op = "CANCEL_BOOKING"
    BY <2>1, <2>2 DEF changed, ChangeVerdict, CancelVerdict, Verdict
  <2>3. CASE c.op # "CANCEL_BOOKING"
    BY <1>2, <2>1, <2>3 DEF changed, ChangeVerdict, OutcomeVerdict, OutcomeStatus, Verdict
  <2> QED
    BY <2>2, <2>3
<1> QED
  BY <1>1, <1>2
=============================================================================

---------------------------- MODULE BookingLedger ----------------------------
(***************************************************************************)
(* What the booking commands promise to their clients, without             *)
(* transactions, locks, retries and failures: every command that leaves a  *)
(* result takes effect in one instant, on the bookings as they are at that *)
(* instant and under the rules at some time that has passed, and it leaves *)
(* one result per receipt.                                                 *)
(***************************************************************************)
EXTENDS BookingRules

CONSTANTS
  Existing,   \* the bookings at the start
  NoReceipt   \* no result yet

VARIABLES
  clock,      \* the time
  rows,       \* the bookings
  results     \* receipt identity -> its command and response

ledger == <<clock, rows, results>>

Init ==
  /\ clock = 0
  /\ rows = Existing
  /\ results = [id \in ReceiptIds |-> NoReceipt]

\* The command leaves its result; the row is the one its verdict names.
Record(c, b, verdict) ==
  /\ results[ReceiptId(c)] = NoReceipt
  /\ results' = [results EXCEPT ![ReceiptId(c)] =
       [state |-> "COMPLETED", cmd |-> c, response |-> Response(b, verdict)]]
  /\ rows' = [rows EXCEPT ![b] = verdict.row]
  /\ UNCHANGED clock

PerformCreate(c, b) ==
  /\ IsCreate(c) /\ rows[b] = NoRow
  /\ \E at \in 0..clock : ~BreaksCreateRules(c, at)
  /\ Record(c, b, CreateVerdict(c, b, rows))

PerformChange(c) ==
  /\ ~IsCreate(c)
  /\ rows[c.booking] # NoRow
  /\ \E at \in 0..clock :
       Record(c, c.booking, ChangeVerdict(c, rows[c.booking], at, rows))

Forget(id) ==
  /\ results[id] # NoReceipt
  /\ results' = [results EXCEPT ![id].state = "TOMBSTONE"]
  /\ UNCHANGED <<clock, rows>>

Tick == clock' = clock + 1 /\ UNCHANGED <<rows, results>>

Next ==
  \/ \E c \in Commands : PerformChange(c) \/ \E b \in Bookings : PerformCreate(c, b)
  \/ \E id \in ReceiptIds : Forget(id)
  \/ Tick

Spec == Init /\ [][Next]_ledger
=============================================================================

-------------------------- MODULE BookingCommands --------------------------
(***************************************************************************)
(* The five booking commands as concurrent PostgreSQL transactions.  A     *)
(* request runs create_booking, reschedule_booking, cancel_booking,        *)
(* complete_booking or mark_no_show: it claims an idempotency receipt,     *)
(* locks the barber and then the booking, reads the database clock,        *)
(* decides, writes the booking, its journal entry and the receipt, and     *)
(* commits all of it at once.  Statements of an open transaction are       *)
(* invisible to others except through the locks they take, so a request    *)
(* keeps what it will commit in `staged`.                                  *)
(*                                                                         *)
(* Transactions fail by lock or statement timeout, by deadlock or          *)
(* serialization error, and by the death of the process; a response may be *)
(* lost after its commit.  A client that got no answer sends its command   *)
(* again as another request.                                               *)
(***************************************************************************)
EXTENDS BookingRules, FiniteSets

CONSTANTS
  Requests,     \* executions of a command by the web processes
  Existing,     \* the bookings made before the behaviour starts
  Earlier,      \* stands for the requests that made them
  MaxAttempts,  \* range(3) of the retry loops
  MaxTime,      \* bound on the clock, for model checking
  Nobody,       \* a lock that is free
  NoReceipt,    \* no committed receipt
  NoCommand,    \* an idle request
  Nothing,      \* a transaction without uncommitted writes
  NoAnswer      \* a request without an answer

ASSUME RequestsAssumption ==
  /\ Nobody \notin Requests /\ Earlier \notin Requests
  /\ NoCommand \notin Commands
  /\ MaxAttempts \in Nat \ {0} /\ MaxTime \in Nat

\* Bookings made before are confirmed, at their first version and disjoint.
ASSUME ExistingAssumption ==
  /\ Existing \in [Bookings -> Row \cup {NoRow}]
  /\ \A b \in Bookings : Existing[b] # NoRow =>
       Existing[b].status = "CONFIRMED" /\ Existing[b].version = 1
  /\ \A a, b \in Bookings : a # b => ~Clash(Existing[a], Existing[b])

Receipt == [state: {"COMPLETED", "TOMBSTONE"}, cmd: Commands, response: Responses]

Staged == [booking: Bookings \cup {NoBooking}, code: Codes, row: Row \cup {NoRow}]

Entry == [booking: Bookings, version: Nat \ {0}, status: Statuses,
          by: Requests \cup {Earlier}]

\* Answers that no receipt stores: the command raised.
ErrorCodes == {"OUT_OF_SCOPE", "RULE_VIOLATION", "RETRY_LATER",
               "IDEMPOTENCY_CONFLICT", "RESULT_EXPIRED"}

Error(code) == [code |-> code, booking |-> NoBooking, version |-> 0]

Answers == Responses \cup {Error(code) : code \in ErrorCodes}

ASSUME NullValuesAssumption ==
  NoReceipt \notin Receipt /\ Nothing \notin Staged /\ NoAnswer \notin Answers

VARIABLES
  clock,        \* clock_timestamp() of the database
  rows,         \* committed bookings
  journal,      \* committed AuditEntry / OutboxEvent pairs
  receipts,     \* committed command receipts
  barberLock,   \* barber -> the transaction that holds FOR UPDATE on it
  bookingLock,  \* booking -> the transaction that holds FOR UPDATE on it
  pc,           \* where each request is
  cmd,          \* the command it runs
  attempt,      \* the attempt of the retry loop it is in
  seen,         \* the row it read under the booking lock
  staged,       \* its uncommitted writes
  answer        \* what the client gets

data == <<rows, journal, receipts>>
locks == <<barberLock, bookingLock>>
vars == <<clock, rows, journal, receipts, barberLock, bookingLock,
          pc, cmd, attempt, seen, staged, answer>>

InTransaction == {"claimed", "barber", "booking", "staged"}
Finished == {"settled", "lost"}

Init ==
  /\ clock = 0
  /\ rows = Existing
  /\ journal = {[booking |-> b, version |-> 1, status |-> "CONFIRMED", by |-> Earlier] :
                  b \in {x \in Bookings : Existing[x] # NoRow}}
  /\ receipts = [id \in ReceiptIds |-> NoReceipt]
  /\ barberLock = [x \in Barbers |-> Nobody]
  /\ bookingLock = [b \in Bookings |-> Nobody]
  /\ pc = [r \in Requests |-> "idle"]
  /\ cmd = [r \in Requests |-> NoCommand]
  /\ attempt = [r \in Requests |-> 1]
  /\ seen = [r \in Requests |-> NoRow]
  /\ staged = [r \in Requests |-> Nothing]
  /\ answer = [r \in Requests |-> NoAnswer]

-----------------------------------------------------------------------------
(* Locks and the end of a transaction. *)

\* Mutated form of Free: FOR UPDATE is forgotten, the row is only read.
FreeWithoutForUpdate(lock, x) == TRUE

\* SELECT ... FOR UPDATE waits until the row's lock is free.
Free(lock, x) == lock[x] = Nobody

Released(lock, r) == [x \in DOMAIN lock |-> IF lock[x] = r THEN Nobody ELSE lock[x]]

ReleaseLocks(r) ==
  /\ barberLock' = Released(barberLock, r)
  /\ bookingLock' = Released(bookingLock, r)

\* The transaction ends without an effect; the request goes on at `next`.
Rollback(r, next) ==
  /\ ReleaseLocks(r)
  /\ pc' = [pc EXCEPT ![r] = next]
  /\ seen' = [seen EXCEPT ![r] = NoRow]
  /\ staged' = [staged EXCEPT ![r] = Nothing]
  /\ UNCHANGED <<clock, data, cmd>>

Answer(r, response) == answer' = [answer EXCEPT ![r] = response]

-----------------------------------------------------------------------------
(* The request and its receipt. *)

UnknownBooking(c) == ~IsCreate(c) /\ rows[c.booking] = NoRow

\* A request arrives.  The commands on a booking first check, outside any
\* transaction, that it exists.
Submit(r, c) ==
  /\ pc[r] = "idle"
  /\ ~UnknownBooking(c)
  /\ pc' = [pc EXCEPT ![r] = "begin"]
  /\ cmd' = [cmd EXCEPT ![r] = c]
  /\ UNCHANGED <<clock, data, locks, attempt, seen, staged, answer>>

RefuseUnknownBooking(r, c) ==
  /\ pc[r] = "idle"
  /\ UnknownBooking(c)
  /\ pc' = [pc EXCEPT ![r] = "settled"]
  /\ cmd' = [cmd EXCEPT ![r] = c]
  /\ Answer(r, Error("OUT_OF_SCOPE"))
  /\ UNCHANGED <<clock, data, locks, attempt, seen, staged>>

\* Mutated form of ClaimedByOther: the unique index on receipts is missing.
ClaimedByNobody(r) == FALSE

\* An open transaction has inserted the same receipt: the unique index makes
\* a second insert wait for it.
ClaimedByOther(r) ==
  \E q \in Requests \ {r} :
    pc[q] \in InTransaction /\ ReceiptId(cmd[q]) = ReceiptId(cmd[r])

\* The insert of the PROCESSING receipt succeeds.
ClaimReceipt(r) ==
  /\ pc[r] = "begin"
  /\ ~ClaimedByOther(r)
  /\ receipts[ReceiptId(cmd[r])] = NoReceipt
  /\ pc' = [pc EXCEPT ![r] = "claimed"]
  /\ UNCHANGED <<clock, data, locks, cmd, attempt, seen, staged, answer>>

\* Mutated form of ReplayedAnswer: the fingerprint is not compared.
ReplayedAnswerOfAnyCommand(receipt, c) ==
  IF receipt.state = "TOMBSTONE" THEN Error("RESULT_EXPIRED")
  ELSE receipt.response

ReplayedAnswer(receipt, c) ==
  IF receipt.cmd # c THEN Error("IDEMPOTENCY_CONFLICT")
  ELSE IF receipt.state = "TOMBSTONE" THEN Error("RESULT_EXPIRED")
  ELSE receipt.response

\* The insert fails on a committed receipt: its result is the answer.
Replay(r) ==
  /\ pc[r] = "begin"
  /\ receipts[ReceiptId(cmd[r])] # NoReceipt
  /\ pc' = [pc EXCEPT ![r] = "committed"]
  /\ Answer(r, ReplayedAnswer(receipts[ReceiptId(cmd[r])], cmd[r]))
  /\ UNCHANGED <<clock, data, locks, cmd, attempt, seen, staged>>

-----------------------------------------------------------------------------
(* The effect: locks, clock, decision and uncommitted writes. *)

\* barber_id of a booking is read before any lock is taken.
BarberOf(c) == IF IsCreate(c) THEN c.barber ELSE rows[c.booking].barber

LockBarber(r) ==
  /\ pc[r] = "claimed"
  /\ Free(barberLock, BarberOf(cmd[r]))
  /\ barberLock' = [barberLock EXCEPT ![BarberOf(cmd[r])] = r]
  /\ pc' = [pc EXCEPT ![r] = "barber"]
  /\ UNCHANGED <<clock, data, bookingLock, cmd, attempt, seen, staged, answer>>

LockBooking(r) ==
  /\ pc[r] = "barber" /\ ~IsCreate(cmd[r])
  /\ Free(bookingLock, cmd[r].booking)
  /\ bookingLock' = [bookingLock EXCEPT ![cmd[r].booking] = r]
  /\ seen' = [seen EXCEPT ![r] = rows[cmd[r].booking]]
  /\ pc' = [pc EXCEPT ![r] = "booking"]
  /\ UNCHANGED <<clock, data, barberLock, cmd, attempt, staged, answer>>

\* The row that the transaction will save differs from the one it read.
Writes(r) == staged[r] # Nothing /\ staged[r].row # seen[r]

\* An uncommitted row of another transaction, or the row it replaces, clashes:
\* the exclusion constraint waits for the end of that transaction.
WaitsForExclusion(r, b, row) ==
  \E q \in Requests \ {r} :
    /\ Writes(q) /\ staged[q].booking # b
    /\ \/ Clash(row, staged[q].row)
       \/ Clash(row, rows[staged[q].booking])

\* The effect reaches a verdict; `tried` is the row it has tried to save.
Stage(r, b, verdict, tried) ==
  /\ verdict.code \in {"CREATED", "RESCHEDULED", "SLOT_CONFLICT"}
       => ~WaitsForExclusion(r, b, tried)
  /\ pc' = [pc EXCEPT ![r] = "staged"]
  /\ staged' = [staged EXCEPT ![r] =
       [booking |-> b, code |-> verdict.code, row |-> verdict.row]]
  /\ UNCHANGED <<clock, data, locks, cmd, attempt, seen, answer>>

\* A creation that breaks a rule raises: its receipt is rolled back with it.
RejectCreate(r) ==
  /\ pc[r] = "barber" /\ IsCreate(cmd[r])
  /\ BreaksCreateRules(cmd[r], clock)
  /\ Rollback(r, "settled")
  /\ Answer(r, Error("RULE_VIOLATION"))
  /\ UNCHANGED attempt

FreshBooking(b) ==
  rows[b] = NoRow /\ \A q \in Requests : staged[q] # Nothing => staged[q].booking # b

DecideCreate(r, b) ==
  /\ pc[r] = "barber" /\ IsCreate(cmd[r])
  /\ ~BreaksCreateRules(cmd[r], clock)
  /\ FreshBooking(b)
  /\ Stage(r, b, CreateVerdict(cmd[r], b, rows), NewRow(cmd[r]))

\* Mutated form of DecideChange: the clock may have been read before the locks.
DecideChangeByEarlierClock(r) ==
  /\ pc[r] = "booking"
  /\ \E at \in 0..clock :
       Stage(r, cmd[r].booking, ChangeVerdict(cmd[r], seen[r], at, rows),
             IF cmd[r].op = "RESCHEDULE_BOOKING"
               THEN [seen[r] EXCEPT !.start = cmd[r].start] ELSE seen[r])

DecideChange(r) ==
  /\ pc[r] = "booking"
  /\ Stage(r, cmd[r].booking, ChangeVerdict(cmd[r], seen[r], clock, rows),
           IF cmd[r].op = "RESCHEDULE_BOOKING"
             THEN [seen[r] EXCEPT !.start = cmd[r].start] ELSE seen[r])

-----------------------------------------------------------------------------
(* The outcome of the transaction. *)

\* The columns an effect saves (update_fields); an insert saves all of them.
Saved(c, current, row) ==
  LET versioned == [current EXCEPT !.version = row.version]
  IN  CASE IsCreate(c) -> row
        [] c.op = "RESCHEDULE_BOOKING" -> [versioned EXCEPT !.start = row.start]
        [] OTHER -> [versioned EXCEPT !.status = row.status]

\* Mutated form of JournalEntries: a no-op is journalled as a change.
JournalEntriesOfEveryVerdict(r) ==
  IF staged[r].row = NoRow THEN {} ELSE
  {[booking |-> staged[r].booking, version |-> staged[r].row.version,
    status |-> staged[r].row.status, by |-> r]}

JournalEntries(r) ==
  IF ~Writes(r) THEN {} ELSE
  {[booking |-> staged[r].booking, version |-> staged[r].row.version,
    status |-> staged[r].row.status, by |-> r]}

\* Booking, journal and receipt become visible together, and the locks go.
Commit(r) ==
  LET c == cmd[r]
      b == staged[r].booking
      response == Response(b, staged[r])
  IN  /\ pc[r] = "staged"
      /\ rows' = IF Writes(r)
                   THEN [rows EXCEPT ![b] = Saved(c, rows[b], staged[r].row)]
                   ELSE rows
      /\ journal' = journal \cup JournalEntries(r)
      /\ receipts' = [receipts EXCEPT ![ReceiptId(c)] =
           [state |-> "COMPLETED", cmd |-> c, response |-> response]]
      /\ ReleaseLocks(r)
      /\ pc' = [pc EXCEPT ![r] = "committed"]
      /\ seen' = [seen EXCEPT ![r] = NoRow]
      /\ staged' = [staged EXCEPT ![r] = Nothing]
      /\ Answer(r, response)
      /\ UNCHANGED <<clock, cmd, attempt>>

Deliver(r) ==
  /\ pc[r] = "committed"
  /\ pc' = [pc EXCEPT ![r] = "settled"]
  /\ UNCHANGED <<clock, data, locks, cmd, attempt, seen, staged, answer>>

\* Mutated form of Timeout: a timeout reported after the commit is taken for
\* a failed transaction.
TimeoutAfterCommit(r) ==
  /\ pc[r] \in InTransaction \cup {"committed"}
  /\ Rollback(r, "settled")
  /\ Answer(r, Error("RETRY_LATER"))
  /\ UNCHANGED attempt

\* lock_timeout or statement_timeout: never retried by the service.
Timeout(r) ==
  /\ pc[r] \in InTransaction
  /\ Rollback(r, "settled")
  /\ Answer(r, Error("RETRY_LATER"))
  /\ UNCHANGED attempt

\* Mutated form of MayRetry: the retry budget is not counted.
MayAlwaysRetry(r) == TRUE

MayRetry(r) == attempt[r] < MaxAttempts

\* Mutated form of Retry: the attempt is not counted.
RetryUncounted(r) ==
  /\ pc[r] \in InTransaction
  /\ MayRetry(r)
  /\ Rollback(r, "begin")
  /\ UNCHANGED <<attempt, answer>>

\* 40P01 or 40001: the whole transaction is run again.
Retry(r) ==
  /\ pc[r] \in InTransaction
  /\ MayRetry(r)
  /\ Rollback(r, "begin")
  /\ attempt' = [attempt EXCEPT ![r] = @ + 1]
  /\ UNCHANGED answer

\* 40P01 or 40001 when the attempts or the deadline are used up.
GiveUp(r) ==
  /\ pc[r] \in InTransaction
  /\ Rollback(r, "settled")
  /\ Answer(r, Error("RETRY_LATER"))
  /\ UNCHANGED attempt

\* The process or its connection dies; after a commit, only the answer is lost.
Crash(r) ==
  /\ pc[r] \in InTransaction \cup {"begin", "committed"}
  /\ Rollback(r, "lost")
  /\ Answer(r, NoAnswer)
  /\ UNCHANGED attempt

-----------------------------------------------------------------------------
(* The environment. *)

Tick ==
  /\ clock < MaxTime
  /\ clock' = clock + 1
  /\ UNCHANGED <<data, locks, pc, cmd, attempt, seen, staged, answer>>

\* The retention of a result passes and the housekeeping replaces it by a
\* tombstone; when the retention ends is left open.
Redact(id) ==
  /\ receipts[id] # NoReceipt /\ receipts[id].state = "COMPLETED"
  /\ receipts' = [receipts EXCEPT ![id].state = "TOMBSTONE"]
  /\ UNCHANGED <<clock, rows, journal, locks, pc, cmd, attempt, seen, staged, answer>>

\* Every request has run to its end.
AllFinished ==
  /\ \A r \in Requests : pc[r] \in Finished
  /\ UNCHANGED vars

\* What the code and the database do for a request once it has started.
Proceed(r) ==
  \/ ClaimReceipt(r) \/ Replay(r)
  \/ LockBarber(r) \/ LockBooking(r)
  \/ RejectCreate(r) \/ (\E b \in Bookings : DecideCreate(r, b)) \/ DecideChange(r)
  \/ Commit(r) \/ Deliver(r) \/ Timeout(r)

Next ==
  \/ \E r \in Requests, c \in Commands : Submit(r, c) \/ RefuseUnknownBooking(r, c)
  \/ \E r \in Requests : Proceed(r) \/ Retry(r) \/ GiveUp(r) \/ Crash(r)
  \/ \E id \in ReceiptIds : Redact(id)
  \/ Tick
  \/ AllFinished

Spec == Init /\ [][Next]_vars

\* A started request keeps running: the process is scheduled, the database
\* answers, and lock_timeout ends a wait that nothing else ends.
Fairness == \A r \in Requests : WF_vars(Proceed(r))

FairSpec == Spec /\ Fairness
-----------------------------------------------------------------------------
(* Properties. *)

\* Every variable holds a value of its kind; a request that has claimed its
\* receipt runs a known command.
TypeOK ==
  /\ clock \in 0..MaxTime
  /\ rows \in [Bookings -> Row \cup {NoRow}]
  /\ journal \subseteq Entry
  /\ receipts \in [ReceiptIds -> Receipt \cup {NoReceipt}]
  /\ barberLock \in [Barbers -> Requests \cup {Nobody}]
  /\ bookingLock \in [Bookings -> Requests \cup {Nobody}]
  /\ pc \in [Requests -> {"idle", "begin", "committed"} \cup InTransaction \cup Finished]
  /\ cmd \in [Requests -> Commands \cup {NoCommand}]
  /\ attempt \in [Requests -> 1..MaxAttempts]
  /\ seen \in [Requests -> Row \cup {NoRow}]
  /\ staged \in [Requests -> Staged \cup {Nothing}]
  /\ answer \in [Requests -> Answers \cup {NoAnswer}]

\* No barber ever has two live bookings that share an instant, whatever the
\* commands, retries and failures (the exclusion constraint and the SLOT_CONFLICT
\* paths of create and reschedule).
NoDoubleBooking ==
  \A a, b \in Bookings :
    /\ a # b /\ Live(rows[a]) /\ Live(rows[b])
    /\ rows[a].barber = rows[b].barber
    => End(rows[a]) <= rows[b].start \/ End(rows[b]) <= rows[a].start

\* The journal of a booking has one entry for each version it went through, and
\* the entry of its current version carries its current status: no change
\* without a journal entry, no entry without a change, no version twice.
JournalFollowsVersions ==
  \A b \in Bookings :
    LET entries == {e \in journal : e.booking = b}
    IN  IF rows[b] = NoRow THEN entries = {}
        ELSE /\ {e.version : e \in entries} = 1..rows[b].version
             /\ Cardinality(entries) = rows[b].version
             /\ \A e \in entries : e.status =
                  IF e.version = rows[b].version THEN rows[b].status ELSE "CONFIRMED"

\* Two requests with the same receipt never both change a booking, also when the
\* result has been redacted in between, and a change is never there without the
\* receipt of its command (receipt, booking and journal commit together).
OneEffectPerReceipt ==
  /\ \A e, f \in journal :
       /\ e.by # Earlier /\ f.by # Earlier
       /\ ReceiptId(cmd[e.by]) = ReceiptId(cmd[f.by])
       => e = f
  /\ \A e \in journal : e.by # Earlier =>
       receipts[ReceiptId(cmd[e.by])] # NoReceipt

\* Answers that come from a receipt agree: a duplicate with the same key and
\* the same payload gets the first result, one with another payload never does.
RepliesAgree ==
  \A q, r \in Requests :
    /\ answer[q] \in Responses /\ answer[r] \in Responses
    /\ ReceiptId(cmd[q]) = ReceiptId(cmd[r])
    => cmd[q] = cmd[r] /\ answer[q] = answer[r]

\* What a client is told is true: a request that changed a booking and was
\* answered was answered with the version it made, never with an error, and a
\* success names a version that is in the journal.
AnswersMatchJournal ==
  /\ \A e \in journal : e.by # Earlier /\ pc[e.by] = "settled" =>
       answer[e.by].booking = e.booking /\ answer[e.by].version = e.version
  /\ \A r \in Requests :
       answer[r] # NoAnswer /\ answer[r].code \in {"CREATED", "RESCHEDULED"} \cup Terminal =>
         \E e \in journal : e.booking = answer[r].booking /\ e.version = answer[r].version

\* A visit has an outcome only after its end, although it could be moved while
\* the outcome command waits for its locks.
OutcomesFollowVisits ==
  \A b \in Bookings :
    rows[b] # NoRow /\ rows[b].status \in {"COMPLETED", "NO_SHOW"} =>
      End(rows[b]) <= clock

\* Decisions are made on current data: from the locks to the commit, the row a
\* request has read is the committed one, and no other transaction has an
\* uncommitted change in the calendar of its barber.
DecidesOnCurrentData ==
  \A r \in Requests : pc[r] \in {"booking", "staged"} =>
    /\ ~IsCreate(cmd[r]) => seen[r] = rows[cmd[r].booking]
    /\ \A q \in Requests \ {r} :
         Writes(q) => staged[q].row.barber # BarberOf(cmd[r])

\* A committed booking changes only from CONFIRMED, by exactly one version, for
\* a command that expected the version it changes, and never to another barber
\* or length (no lost update, no change of a terminal booking).
ChangesAreVersioned ==
  [][\A b \in Bookings : rows[b] # NoRow /\ rows'[b] # rows[b] =>
       /\ rows[b].status = "CONFIRMED"
       /\ rows'[b].version = rows[b].version + 1
       /\ rows'[b].barber = rows[b].barber /\ rows'[b].duration = rows[b].duration
       /\ \E r \in Requests : /\ pc[r] = "staged" /\ pc'[r] = "committed"
                              /\ cmd[r].booking = b
                              /\ cmd[r].expected = rows[b].version]_vars

\* A booking can be moved only while its client may still cancel it.
RescheduledInTime ==
  [][\A r \in Requests :
       pc[r] = "booking" /\ pc'[r] = "staged" /\ Writes(r)'
         /\ cmd[r].op = "RESCHEDULE_BOOKING"
       => seen[r].start - clock >= CancelWindow]_vars

\* A started request ends: nobody waits forever for a receipt or a lock, and
\* the retry loop is bounded.
EveryRequestFinishes ==
  \A r \in Requests : pc[r] = "begin" ~> pc[r] \in Finished
=============================================================================

------------------------ MODULE BookingCommandsProofs ------------------------
(***************************************************************************)
(* Proofs about BookingCommands for every value of its constants: types,   *)
(* no double booking, decisions on current data, changes by versions.      *)
(*                                                                         *)
(* TypeOK is not inductive: that a commit stores a row, or that a lock has *)
(* a barber, depends on how far the request has come.  Phases adds what    *)
(* each value of pc says of the request's other variables.                 *)
(*                                                                         *)
(* The argument for the slots is the lock discipline of the effects: a     *)
(* request that decides holds the lock of its barber, so the rows it reads *)
(* stay as they are until it commits, and what it stages fits among the    *)
(* committed bookings of that barber.                                      *)
(***************************************************************************)
EXTENDS BookingCommands, BookingRulesProofs

PCs == {"idle", "begin", "committed"} \cup InTransaction \cup Finished

\* From the check of its target to the end of its transaction.
Started == {"begin"} \cup InTransaction

\* The request has read the row of an existing booking under its lock.
HasRead(r) == pc[r] \in {"booking", "staged"} /\ ~IsCreate(cmd[r])

Phase(r) ==
  /\ pc[r] # "idle" => cmd[r] \in Commands
  /\ pc[r] \in Started /\ ~IsCreate(cmd[r]) => rows[cmd[r].booking] \in Row
  /\ pc[r] = "booking" => ~IsCreate(cmd[r])
  /\ IF HasRead(r) THEN seen[r] \in Row ELSE seen[r] = NoRow
  /\ staged[r] # Nothing <=> pc[r] = "staged"
  /\ pc[r] = "staged" =>
       /\ staged[r].booking \in Bookings
       /\ ~IsCreate(cmd[r]) =>
            staged[r].booking = cmd[r].booking /\ staged[r].row \in Row

Phases == \A r \in Requests : Phase(r)

TypeInv == TypeOK /\ Phases

-----------------------------------------------------------------------------
(* TypeInv is inductive: one lemma per group of actions. *)

LEMMA ReleasedType ==
  ASSUME NEW S, NEW lock \in [S -> Requests \cup {Nobody}], NEW r
  PROVE  Released(lock, r) \in [S -> Requests \cup {Nobody}]
BY DEF Released

LEMMA ErrorType ==
  ASSUME NEW code \in ErrorCodes
  PROVE  Error(code) \in Answers
BY DEF Answers

LEMMA InitType == Init => TypeInv
<1> SUFFICES ASSUME Init PROVE TypeInv
  OBVIOUS
<1>1. clock \in 0..MaxTime
  BY RequestsAssumption DEF Init
<1>2. journal \subseteq Entry
  BY ExistingAssumption DEF Init, Entry, Statuses
<1>3. 1 \in 1..MaxAttempts
  BY RequestsAssumption
<1>4. TypeOK
  BY <1>1, <1>2, <1>3, ExistingAssumption DEF Init, TypeOK
<1>5. Phases
  BY DEF Init, Phases, Phase, HasRead, Started, InTransaction
<1> QED
  BY <1>4, <1>5 DEF TypeInv

LEMMA SubmitType ==
  ASSUME TypeInv, NEW r \in Requests, NEW c \in Commands,
         Submit(r, c) \/ RefuseUnknownBooking(r, c)
  PROVE  TypeInv'
<1> USE DEF TypeInv
<1>1. CASE Submit(r, c)
  <2>1. TypeOK'
    BY <1>1 DEF TypeOK, Submit, data, locks
  <2>2. ~IsCreate(c) => rows[c.booking] \in Row
    BY <1>1, CommandShape DEF Submit, UnknownBooking, TypeOK
  <2>3. Phases'
    BY <1>1, <2>2 DEF Submit, Phases, Phase, HasRead, Started, InTransaction,
                      TypeOK, data, locks
  <2> QED
    BY <2>1, <2>3
<1>2. CASE RefuseUnknownBooking(r, c)
  <2>1. Error("OUT_OF_SCOPE") \in Answers
    BY ErrorType DEF ErrorCodes
  <2>2. TypeOK'
    BY <1>2, <2>1 DEF TypeOK, RefuseUnknownBooking, Answer, data, locks, Finished
  <2>3. Phases'
    BY <1>2 DEF RefuseUnknownBooking, Phases, Phase, HasRead, Started,
                InTransaction, TypeOK, data, locks
  <2> QED
    BY <2>2, <2>3
<1> QED
  BY <1>1, <1>2

LEMMA ReceiptStepType ==
  ASSUME TypeInv, NEW r \in Requests, ClaimReceipt(r) \/ Replay(r) \/ Deliver(r)
  PROVE  TypeInv'
<1> USE DEF TypeInv
<1>1. CASE ClaimReceipt(r)
  BY <1>1 DEF ClaimReceipt, TypeOK, Phases, Phase, HasRead, Started,
              InTransaction, data, locks
<1>2. CASE Replay(r)
  <2>1. cmd[r] \in Commands
    BY <1>2 DEF Replay, Phases, Phase
  <2>2. receipts[ReceiptId(cmd[r])] \in Receipt
    BY <1>2, <2>1, CommandShape DEF Replay, TypeOK
  <2>3. ReplayedAnswer(receipts[ReceiptId(cmd[r])], cmd[r]) \in Answers
    <3>1. /\ Error("IDEMPOTENCY_CONFLICT") \in Answers
          /\ Error("RESULT_EXPIRED") \in Answers
      BY ErrorType DEF ErrorCodes
    <3> QED
      BY <2>2, <3>1 DEF ReplayedAnswer, Receipt, Answers
  <2>4. TypeOK'
    BY <1>2, <2>3 DEF Replay, Answer, TypeOK, data, locks
  <2>5. Phases'
    BY <1>2 DEF Replay, TypeOK, Phases, Phase, HasRead, Started,
                InTransaction, data, locks
  <2> QED
    BY <2>4, <2>5
<1>3. CASE Deliver(r)
  BY <1>3 DEF Deliver, TypeOK, Phases, Phase, HasRead, Started,
              InTransaction, Finished, data, locks
<1> QED
  BY <1>1, <1>2, <1>3

LEMMA LockType ==
  ASSUME TypeInv, NEW r \in Requests, LockBarber(r) \/ LockBooking(r)
  PROVE  TypeInv'
<1> USE DEF TypeInv
<1>1. CASE LockBarber(r)
  BY <1>1 DEF LockBarber, TypeOK, Phases, Phase, HasRead, Started,
              InTransaction, data
<1>2. CASE LockBooking(r)
  <2>1. rows[cmd[r].booking] \in Row
    BY <1>2 DEF LockBooking, Phases, Phase, Started, InTransaction
  <2>2. TypeOK'
    BY <1>2, <2>1 DEF LockBooking, TypeOK, InTransaction, data
  <2>3. Phases'
    BY <1>2, <2>1 DEF LockBooking, TypeOK, Phases, Phase, HasRead, Started,
                      InTransaction, data
  <2> QED
    BY <2>2, <2>3
<1> QED
  BY <1>1, <1>2

\* The verdict of a step that stages its writes.
LEMMA StageType ==
  ASSUME TypeInv, NEW r \in Requests, NEW b \in Bookings, NEW v, NEW tried,
         Stage(r, b, v, tried),
         pc[r] = IF IsCreate(cmd[r]) THEN "barber" ELSE "booking",
         v.code \in Codes, v.row \in Row \cup {NoRow},
         ~IsCreate(cmd[r]) => b = cmd[r].booking /\ v.row \in Row
  PROVE  TypeInv'
<1> USE DEF TypeInv
<1>1. [booking |-> b, code |-> v.code, row |-> v.row] \in Staged
  BY DEF Staged
<1>2. TypeOK'
  BY <1>1 DEF Stage, TypeOK, InTransaction, data, locks
<1>3. Phases'
  BY <1>1, NullValuesAssumption
     DEF Stage, TypeOK, Phases, Phase, HasRead, Started, InTransaction, data, locks
<1> QED
  BY <1>2, <1>3

LEMMA DecideType ==
  ASSUME TypeInv, NEW r \in Requests,
         (\E b \in Bookings : DecideCreate(r, b)) \/ DecideChange(r)
  PROVE  TypeInv'
<1>1. pc[r] # "idle" => cmd[r] \in Commands
  BY DEF TypeInv, Phases, Phase
<1>2. ASSUME NEW b \in Bookings, DecideCreate(r, b) PROVE TypeInv'
  <2>1. /\ cmd[r] \in Commands /\ IsCreate(cmd[r]) /\ pc[r] = "barber"
        /\ Stage(r, b, CreateVerdict(cmd[r], b, rows), NewRow(cmd[r]))
    BY <1>1, <1>2 DEF DecideCreate
  <2> QED
    BY <2>1, CreateVerdictType, StageType
<1>3. CASE DecideChange(r)
  <2>1. PICK tried : Stage(r, cmd[r].booking,
                           ChangeVerdict(cmd[r], seen[r], clock, rows), tried)
    BY <1>3 DEF DecideChange
  <2>2. /\ cmd[r] \in Commands /\ ~IsCreate(cmd[r]) /\ pc[r] = "booking"
        /\ seen[r] \in Row
    BY <1>1, <1>3 DEF DecideChange, TypeInv, Phases, Phase, HasRead
  <2>3. cmd[r].booking \in Bookings /\ clock \in Nat
    BY <2>2, CommandShape DEF TypeInv, TypeOK
  <2> QED
    BY <2>1, <2>2, <2>3, ChangeVerdictType, StageType
<1> QED
  BY <1>2, <1>3

LEMMA RollbackType ==
  ASSUME TypeInv, NEW r \in Requests, NEW next \in {"begin", "settled", "lost"},
         pc[r] \in Started \cup {"committed"},
         next = "begin" => pc[r] \in Started,
         Rollback(r, next),
         attempt' \in [Requests -> 1..MaxAttempts],
         answer' \in [Requests -> Answers \cup {NoAnswer}]
  PROVE  TypeInv'
<1> USE DEF TypeInv
<1>1. barberLock' \in [Barbers -> Requests \cup {Nobody}]
  BY ReleasedType DEF Rollback, ReleaseLocks, TypeOK
<1>2. bookingLock' \in [Bookings -> Requests \cup {Nobody}]
  BY ReleasedType DEF Rollback, ReleaseLocks, TypeOK
<1>3. TypeOK'
  BY <1>1, <1>2 DEF Rollback, TypeOK, Finished, data
<1>4. Phases'
  BY DEF Rollback, TypeOK, Phases, Phase, HasRead, Started, InTransaction, data
<1> QED
  BY <1>3, <1>4

LEMMA FailureType ==
  ASSUME TypeInv, NEW r \in Requests,
         RejectCreate(r) \/ Timeout(r) \/ Retry(r) \/ GiveUp(r) \/ Crash(r)
  PROVE  TypeInv'
<1>1. /\ Error("RULE_VIOLATION") \in Answers
      /\ Error("RETRY_LATER") \in Answers
  BY ErrorType DEF ErrorCodes
<1>2. answer' \in [Requests -> Answers \cup {NoAnswer}]
  BY <1>1 DEF RejectCreate, Timeout, Retry, GiveUp, Crash, Answer, TypeInv, TypeOK
<1>3. attempt' \in [Requests -> 1..MaxAttempts]
  BY RequestsAssumption
     DEF RejectCreate, Timeout, Retry, MayRetry, GiveUp, Crash, TypeInv, TypeOK
<1>4. CASE Retry(r)
  BY <1>2, <1>3, <1>4, RollbackType DEF Retry, Started
<1>5. CASE Crash(r)
  BY <1>2, <1>3, <1>5, RollbackType DEF Crash, Started
<1>6. CASE RejectCreate(r) \/ Timeout(r) \/ GiveUp(r)
  BY <1>2, <1>3, <1>6, RollbackType
     DEF RejectCreate, Timeout, GiveUp, Started, InTransaction
<1> QED
  BY <1>4, <1>5, <1>6

LEMMA SavedType ==
  ASSUME NEW c \in Commands, NEW current \in Row \cup {NoRow}, NEW row \in Row,
         ~IsCreate(c) => current \in Row
  PROVE  Saved(c, current, row) \in Row
<1>1. CASE IsCreate(c)
  BY <1>1 DEF Saved, IsCreate
<1>2. CASE ~IsCreate(c)
  <2>1. [current EXCEPT !.version = row.version] \in Row
    BY <1>2 DEF Row
  <2>2. [[current EXCEPT !.version = row.version] EXCEPT !.start = row.start] \in Row
    BY <2>1 DEF Row
  <2>3. [[current EXCEPT !.version = row.version] EXCEPT !.status = row.status] \in Row
    BY <2>1 DEF Row
  <2> QED
    BY <1>2, <2>2, <2>3 DEF Saved, IsCreate
<1> QED
  BY <1>1, <1>2

LEMMA CommitType ==
  ASSUME TypeInv, NEW r \in Requests, Commit(r)
  PROVE  TypeInv'
<1> DEFINE c == cmd[r]
           b == staged[r].booking
           row == staged[r].row
<1>1. /\ pc[r] = "staged" /\ c \in Commands /\ staged[r] \in Staged
      /\ b \in Bookings /\ row \in Row \cup {NoRow} /\ staged[r].code \in Codes
  BY DEF Commit, TypeInv, TypeOK, Phases, Phase, Staged
<1>2. /\ ~IsCreate(c) => rows[b] \in Row /\ row \in Row
      /\ Writes(r) => row \in Row
  BY <1>1 DEF Writes, TypeInv, Phases, Phase, HasRead, Started, InTransaction
<1>3. /\ rows' \in [Bookings -> Row \cup {NoRow}]
      /\ \A x \in Bookings : rows[x] \in Row => rows'[x] \in Row
  <2>1. rows \in [Bookings -> Row \cup {NoRow}]
    BY DEF TypeInv, TypeOK
  <2>2. Writes(r) => Saved(c, rows[b], row) \in Row
    BY <1>1, <1>2, <2>1, SavedType
  <2> QED
    BY <1>1, <2>1, <2>2 DEF Commit
<1>4. journal' \subseteq Entry
  <2>1. JournalEntries(r) \subseteq Entry
    BY <1>1, <1>2 DEF JournalEntries, Entry, Row
  <2> QED
    BY <2>1 DEF Commit, TypeInv, TypeOK
<1>5. Response(b, staged[r]) \in Responses
  BY <1>1, ResponseType
<1>6. receipts' \in [ReceiptIds -> Receipt \cup {NoReceipt}]
  <2>1. [state |-> "COMPLETED", cmd |-> c, response |-> Response(b, staged[r])] \in Receipt
    BY <1>1, <1>5 DEF Receipt
  <2> QED
    BY <1>1, <2>1, CommandShape DEF Commit, TypeInv, TypeOK
<1>7. /\ barberLock' \in [Barbers -> Requests \cup {Nobody}]
      /\ bookingLock' \in [Bookings -> Requests \cup {Nobody}]
  BY ReleasedType DEF Commit, ReleaseLocks, TypeInv, TypeOK
<1>8. answer' \in [Requests -> Answers \cup {NoAnswer}]
  BY <1>5 DEF Commit, Answer, Answers, TypeInv, TypeOK
<1>9. TypeOK'
  BY <1>3, <1>4, <1>6, <1>7, <1>8 DEF Commit, TypeInv, TypeOK
<1>10. Phases'
  <2> SUFFICES ASSUME NEW q \in Requests PROVE Phase(q)'
    BY DEF Phases
  <2>1. CASE q = r
    BY <1>1, <2>1 DEF Commit, TypeInv, TypeOK, Phases, Phase, HasRead, Started,
                      InTransaction
  <2>2. CASE q # r
    <3>1. /\ pc'[q] = pc[q] /\ cmd'[q] = cmd[q] /\ seen'[q] = seen[q]
          /\ staged'[q] = staged[q]
      BY <2>2 DEF Commit, TypeInv, TypeOK
    <3>2. pc[q] \in Started /\ ~IsCreate(cmd[q]) => rows'[cmd[q].booking] \in Row
      <4> SUFFICES ASSUME pc[q] \in Started, ~IsCreate(cmd[q])
                   PROVE  rows'[cmd[q].booking] \in Row
        OBVIOUS
      <4>1. cmd[q] \in Commands /\ rows[cmd[q].booking] \in Row
        BY DEF TypeInv, Phases, Phase, Started, InTransaction
      <4> QED
        BY <1>3, <4>1, CommandShape
    <3> QED
      BY <3>1, <3>2 DEF TypeInv, Phases, Phase, HasRead
  <2> QED
    BY <2>1, <2>2
<1> QED
  BY <1>9, <1>10 DEF TypeInv

LEMMA EnvironmentType ==
  ASSUME TypeInv, (\E id \in ReceiptIds : Redact(id)) \/ Tick
  PROVE  TypeInv'
<1>1. ASSUME NEW id \in ReceiptIds, Redact(id) PROVE TypeInv'
  <2>1. receipts[id] \in Receipt
    BY <1>1 DEF Redact, TypeInv, TypeOK
  <2>2. [receipts[id] EXCEPT !.state = "TOMBSTONE"] \in Receipt
    BY <2>1 DEF Receipt
  <2>3. receipts' = [receipts EXCEPT ![id] = [receipts[id] EXCEPT !.state = "TOMBSTONE"]]
    BY <1>1 DEF Redact
  <2>4. TypeOK'
    BY <1>1, <2>2, <2>3 DEF Redact, TypeInv, TypeOK, locks
  <2> QED
    BY <1>1, <2>4 DEF Redact, TypeInv, Phases, Phase, HasRead
<1>2. CASE Tick
  <2>1. clock' \in 0..MaxTime
    BY <1>2, RequestsAssumption DEF Tick, TypeInv, TypeOK
  <2>2. TypeOK'
    BY <1>2, <2>1 DEF Tick, TypeInv, TypeOK, data, locks
  <2> QED
    BY <1>2, <2>2 DEF Tick, TypeInv, Phases, Phase, HasRead, data, locks
<1> QED
  BY <1>1, <1>2

LEMMA NextType == TypeInv /\ [Next]_vars => TypeInv'
<1> SUFFICES ASSUME TypeInv, [Next]_vars PROVE TypeInv'
  OBVIOUS
<1>1. ASSUME NEW r \in Requests, NEW c \in Commands,
             Submit(r, c) \/ RefuseUnknownBooking(r, c)
      PROVE  TypeInv'
  BY <1>1, SubmitType
<1>2. ASSUME NEW r \in Requests, Proceed(r) PROVE TypeInv'
  BY <1>2, ReceiptStepType, LockType, DecideType, FailureType, CommitType DEF Proceed
<1>3. ASSUME NEW r \in Requests, Retry(r) \/ GiveUp(r) \/ Crash(r) PROVE TypeInv'
  BY <1>3, FailureType
<1>4. CASE UNCHANGED vars
  BY <1>4 DEF vars, TypeInv, TypeOK, Phases, Phase, HasRead, Writes
<1> QED
  BY <1>1, <1>2, <1>3, <1>4, EnvironmentType DEF Next, AllFinished

\* The variables of the commands keep their types, for any number of requests,
\* barbers, bookings and keys and any catalog: no handler leaves a request, a
\* lock or a stored result in a state that the code has no name for.
THEOREM TypeCorrect == Spec => []TypeOK
<1>1. Spec => []TypeInv
  BY InitType, NextType, PTL DEF Spec
<1> QED
  BY <1>1, PTL DEF TypeInv

-----------------------------------------------------------------------------
(* Locks and slots. *)

Deciding(r) == pc[r] \in {"barber", "booking", "staged"}

HoldsBarber(r) == Deciding(r) => barberLock[BarberOf(cmd[r])] = r

\* What was read under the locks is still what is committed.
ReadsCurrent(r) ==
  /\ HasRead(r) => seen[r] = rows[cmd[r].booking]
  /\ pc[r] = "staged" /\ IsCreate(cmd[r]) => rows[staged[r].booking] = NoRow

\* What verdict.row may be when a command changes a booking.
Revises(c, old, new) ==
  /\ old.status = "CONFIRMED" /\ c.expected = old.version
  /\ new.version = old.version + 1
  /\ new.barber = old.barber /\ new.duration = old.duration
  /\ Saved(c, old, new) = new

StagesRevision(r) ==
  Writes(r) =>
    /\ staged[r].row.barber = BarberOf(cmd[r])
    /\ ~IsCreate(cmd[r]) => Revises(cmd[r], seen[r], staged[r].row)

FindsSlotFree(r) ==
  Writes(r) => ~SlotTaken(rows, staged[r].booking, staged[r].row)

StagedApart ==
  \A q, r \in Requests :
    pc[q] = "staged" /\ pc[r] = "staged" /\ q # r => staged[q].booking # staged[r].booking

LockInv == \A r \in Requests : HoldsBarber(r) /\ ReadsCurrent(r)
StageInv == \A r \in Requests : StagesRevision(r) /\ FindsSlotFree(r)
RowsApart == \A a, b \in Bookings : a # b => ~Clash(rows[a], rows[b])

SlotInv == TypeInv /\ LockInv /\ StageInv /\ StagedApart /\ RowsApart

-----------------------------------------------------------------------------
(* Rows and verdicts. *)

LEMMA ClashSymmetric ==
  ASSUME NEW x, NEW y
  PROVE  Clash(x, y) <=> Clash(y, x)
BY DEF Clash, Overlap

LEMMA RescheduleRevises ==
  ASSUME NEW c \in Commands, c.op = "RESCHEDULE_BOOKING", NEW row \in Row,
         NEW now, NEW table, NEW new, new = RescheduleVerdict(c, row, now, table).row,
         new # row
  PROVE  /\ Revises(c, row, new)
         /\ ~SlotTaken(table, c.booking, new)
<1> DEFINE moved == [NextVersion(row) EXCEPT !.start = c.start]
<1>1. /\ new = moved /\ row.status = "CONFIRMED" /\ row.version = c.expected
      /\ ~SlotTaken(table, c.booking, moved)
  BY DEF RescheduleVerdict, Verdict
<1>2. c.start \in Nat
  BY CommandShape
<1>3. /\ moved.version = row.version + 1 /\ moved.start = c.start
      /\ moved.status = row.status /\ moved.barber = row.barber
      /\ moved.duration = row.duration
  BY <1>2, NextVersionType DEF Row
<1>4. Saved(c, row, moved) = moved
  <2>1. [row EXCEPT !.version = moved.version] = NextVersion(row)
    BY <1>3 DEF NextVersion
  <2> HIDE DEF moved
  <2>2. Saved(c, row, moved) = [NextVersion(row) EXCEPT !.start = moved.start]
    BY <2>1 DEF Saved, IsCreate
  <2> QED
    BY <1>3, <2>2 DEF moved
<1> QED
  BY <1>1, <1>3, <1>4 DEF Revises

LEMMA StatusRevises ==
  ASSUME NEW c \in Commands, c.op # "RESCHEDULE_BOOKING", ~IsCreate(c),
         NEW row \in Row, NEW now, NEW table,
         NEW new, new = ChangeVerdict(c, row, now, table).row, new # row
  PROVE  /\ Revises(c, row, new)
         /\ new.start = row.start
<1> DEFINE target == IF c.op = "CANCEL_BOOKING" THEN "CANCELLED" ELSE OutcomeStatus(c)
           changed == [NextVersion(row) EXCEPT !.status = target]
<1>1. new = changed /\ row.status = "CONFIRMED" /\ row.version = c.expected
  <2>1. CASE c.op = "CANCEL_BOOKING"
    BY <2>1 DEF ChangeVerdict, CancelVerdict, Verdict
  <2>2. CASE c.op # "CANCEL_BOOKING"
    BY <2>2 DEF ChangeVerdict, OutcomeVerdict, Verdict
  <2> QED
    BY <2>1, <2>2
<1>2. target \in Statuses
  BY DEF OutcomeStatus, Statuses, Terminal
<1> HIDE DEF target
<1>3. /\ changed.version = row.version + 1 /\ changed.start = row.start
      /\ changed.status = target /\ changed.barber = row.barber
      /\ changed.duration = row.duration
  BY NextVersionType DEF Row
<1>4. Saved(c, row, changed) = changed
  <2>1. [row EXCEPT !.version = changed.version] = NextVersion(row)
    BY <1>3 DEF NextVersion
  <2> HIDE DEF changed
  <2>2. Saved(c, row, changed) = [NextVersion(row) EXCEPT !.status = changed.status]
    BY <2>1 DEF Saved, IsCreate
  <2> QED
    BY <1>3, <2>2 DEF changed
<1> QED
  BY <1>1, <1>3, <1>4 DEF Revises

\* A command that changes a booking finds its slot free: a move looks, and the
\* other changes keep the slot that the booking already had to itself.
LEMMA ChangeRevises ==
  ASSUME NEW c \in Commands, ~IsCreate(c), NEW now,
         rows \in [Bookings -> Row \cup {NoRow}], RowsApart,
         rows[c.booking] \in Row,
         NEW new, new = ChangeVerdict(c, rows[c.booking], now, rows).row,
         new # rows[c.booking]
  PROVE  /\ Revises(c, rows[c.booking], new)
         /\ ~SlotTaken(rows, c.booking, new)
<1>1. CASE c.op = "RESCHEDULE_BOOKING"
  BY <1>1, RescheduleRevises DEF ChangeVerdict
<1>2. CASE c.op # "RESCHEDULE_BOOKING"
  <2> DEFINE old == rows[c.booking]
  <2>1. Revises(c, old, new) /\ new.start = old.start
    BY <1>2, StatusRevises
  <2>2. c.booking \in Bookings /\ old # NoRow
    BY CommandShape, NullAssumption
  <2>3. ASSUME NEW other \in Bookings \ {c.booking}, Clash(new, rows[other])
        PROVE  FALSE
    <3>1. Clash(old, rows[other])
      BY <2>1, <2>2, <2>3 DEF Revises, Clash, Live, Overlap, End
    <3> QED
      BY <2>2, <3>1 DEF RowsApart
  <2> QED
    BY <2>1, <2>3 DEF SlotTaken
<1> QED
  BY <1>1, <1>2
-----------------------------------------------------------------------------
(* SlotInv is inductive: one lemma per kind of step. *)

\* Two deciding requests have different barbers, hence different bookings.
LEMMA DecidersApart ==
  ASSUME SlotInv, NEW q \in Requests, NEW r \in Requests, q # r,
         Deciding(q), Deciding(r)
  PROVE  BarberOf(cmd[q]) # BarberOf(cmd[r])
BY DEF SlotInv, LockInv, HoldsBarber

LEMMA BarberOfType ==
  ASSUME TypeInv, NEW r \in Requests, pc[r] \in InTransaction
  PROVE  BarberOf(cmd[r]) \in Barbers
BY CommandShape DEF TypeInv, Phases, Phase, BarberOf, Started, InTransaction, Row

LEMMA InitSlots == Init => SlotInv
<1> SUFFICES ASSUME Init PROVE SlotInv
  OBVIOUS
<1>1. TypeInv
  BY InitType
<1>2. RowsApart
  BY ExistingAssumption DEF Init, RowsApart
<1>3. \A r \in Requests : pc[r] = "idle" /\ staged[r] = Nothing
  BY DEF Init
<1> QED
  BY <1>1, <1>2, <1>3
     DEF SlotInv, LockInv, StageInv, StagedApart, HoldsBarber, ReadsCurrent,
         StagesRevision, FindsSlotFree, Deciding, HasRead, Writes

\* Steps outside the locks: rows and staged writes stay, and the requests that
\* decide stay where they are.
LEMMA QuietStep ==
  ASSUME SlotInv, TypeInv', UNCHANGED <<rows, barberLock, seen, staged>>,
         \A q \in Requests :
           Deciding(q) \/ Deciding(q)' => pc'[q] = pc[q] /\ cmd'[q] = cmd[q]
  PROVE  SlotInv'
<1>1. \A q \in Requests : Writes(q) => pc[q] = "staged"
  BY DEF SlotInv, TypeInv, Phases, Phase, Writes
<1>2. LockInv'
  BY DEF SlotInv, LockInv, HoldsBarber, ReadsCurrent, HasRead, Deciding, BarberOf
<1>3. StageInv'
  <2> SUFFICES ASSUME NEW q \in Requests
               PROVE  StagesRevision(q)' /\ FindsSlotFree(q)'
    BY DEF StageInv
  <2>1. Writes(q)' <=> Writes(q)
    BY DEF Writes
  <2>2. Writes(q) => cmd'[q] = cmd[q]
    BY <1>1 DEF Deciding
  <2> QED
    BY <2>1, <2>2 DEF SlotInv, StageInv, StagesRevision, FindsSlotFree, BarberOf
<1>4. StagedApart'
  BY DEF SlotInv, StagedApart, Deciding
<1>5. RowsApart'
  BY DEF SlotInv, RowsApart
<1> QED
  BY <1>2, <1>3, <1>4, <1>5 DEF SlotInv

LEMMA QuietSteps ==
  ASSUME SlotInv, TypeInv',
         \/ \E r \in Requests, c \in Commands : Submit(r, c) \/ RefuseUnknownBooking(r, c)
         \/ \E r \in Requests : ClaimReceipt(r) \/ Replay(r) \/ Deliver(r)
         \/ (\E id \in ReceiptIds : Redact(id)) \/ Tick
         \/ UNCHANGED vars
  PROVE  SlotInv'
<1> USE DEF SlotInv, TypeInv, TypeOK, Deciding
<1>1. ASSUME NEW r \in Requests, NEW c \in Commands,
             Submit(r, c) \/ RefuseUnknownBooking(r, c)
      PROVE  SlotInv'
  BY <1>1, QuietStep DEF Submit, RefuseUnknownBooking, data, locks
<1>2. ASSUME NEW r \in Requests, ClaimReceipt(r) \/ Replay(r) \/ Deliver(r)
      PROVE  SlotInv'
  BY <1>2, QuietStep DEF ClaimReceipt, Replay, Deliver, data, locks
<1>3. ASSUME (\E id \in ReceiptIds : Redact(id)) \/ Tick \/ UNCHANGED vars
      PROVE  SlotInv'
  BY <1>3, QuietStep DEF Redact, Tick, data, locks, vars
<1> QED
  BY <1>1, <1>2, <1>3

\* Taking a lock: rows and staged writes stay.
LEMMA LockSteps ==
  ASSUME SlotInv, TypeInv', NEW r \in Requests, LockBarber(r) \/ LockBooking(r)
  PROVE  SlotInv'
<1>1. TypeInv /\ TypeOK
  BY DEF SlotInv, TypeInv
<1>2. /\ UNCHANGED <<rows, staged, cmd>>
      /\ pc[r] \in {"claimed", "barber"} /\ pc'[r] \in {"barber", "booking"}
      /\ \A q \in Requests \ {r} : pc'[q] = pc[q] /\ seen'[q] = seen[q]
  BY <1>1 DEF LockBarber, LockBooking, data, TypeOK
<1>3. \A q \in Requests : BarberOf(cmd[q])' = BarberOf(cmd[q])
  BY <1>2 DEF BarberOf
<1>4. LockInv'
  <2> SUFFICES ASSUME NEW q \in Requests PROVE HoldsBarber(q)' /\ ReadsCurrent(q)'
    BY DEF LockInv
  <2>1. HoldsBarber(q)'
    <3>1. CASE LockBarber(r)
      <4>1. BarberOf(cmd[r]) \in Barbers
        BY <1>1, <3>1, BarberOfType DEF LockBarber, InTransaction
      <4>2. CASE q = r
        BY <1>1, <1>3, <3>1, <4>1, <4>2 DEF LockBarber, HoldsBarber, TypeOK
      <4>3. CASE q # r
        <5>1. Deciding(q) => BarberOf(cmd[q]) # BarberOf(cmd[r])
          BY <3>1, RequestsAssumption DEF LockBarber, Free, SlotInv, LockInv, HoldsBarber
        <5> QED
          BY <1>1, <1>2, <1>3, <3>1, <4>3, <5>1
             DEF LockBarber, SlotInv, LockInv, HoldsBarber, Deciding, TypeOK
      <4> QED
        BY <4>2, <4>3
    <3>2. CASE LockBooking(r)
      BY <1>1, <1>2, <1>3, <3>2
         DEF LockBooking, SlotInv, LockInv, HoldsBarber, Deciding, TypeOK
    <3> QED
      BY <3>1, <3>2
  <2>2. ReadsCurrent(q)'
    <3>1. CASE q = r
      BY <1>1, <1>2, <3>1 DEF LockBarber, LockBooking, ReadsCurrent, HasRead, TypeOK
    <3>2. CASE q # r
      BY <1>2, <3>2 DEF SlotInv, LockInv, ReadsCurrent, HasRead
    <3> QED
      BY <3>1, <3>2
  <2> QED
    BY <2>1, <2>2
<1>5. StageInv'
  <2> SUFFICES ASSUME NEW q \in Requests
               PROVE  StagesRevision(q)' /\ FindsSlotFree(q)'
    BY DEF StageInv
  <2>1. CASE q = r
    <3>1. ~Writes(r)'
      BY <1>1, <1>2 DEF TypeInv, Phases, Phase, Writes
    <3> QED
      BY <2>1, <3>1 DEF StagesRevision, FindsSlotFree
  <2>2. CASE q # r
    BY <1>2, <1>3, <2>2
       DEF SlotInv, StageInv, StagesRevision, FindsSlotFree, Writes
  <2> QED
    BY <2>1, <2>2
<1>6. StagedApart'
  BY <1>2 DEF SlotInv, StagedApart
<1>7. RowsApart'
  BY <1>2 DEF SlotInv, RowsApart
<1> QED
  BY <1>4, <1>5, <1>6, <1>7 DEF SlotInv

\* A request stages a verdict that is a revision in a free slot.
LEMMA StageStep ==
  ASSUME SlotInv, TypeInv', NEW r \in Requests, NEW b \in Bookings, NEW v, NEW tried,
         Stage(r, b, v, tried),
         pc[r] = IF IsCreate(cmd[r]) THEN "barber" ELSE "booking",
         IF IsCreate(cmd[r]) THEN FreshBooking(b) ELSE b = cmd[r].booking,
         v.row # seen[r] =>
           /\ v.row.barber = BarberOf(cmd[r])
           /\ ~IsCreate(cmd[r]) => Revises(cmd[r], seen[r], v.row)
           /\ ~SlotTaken(rows, b, v.row)
  PROVE  SlotInv'
<1>1. TypeInv /\ TypeOK
  BY DEF SlotInv, TypeInv
<1>2. /\ UNCHANGED <<rows, cmd, seen, barberLock>>
      /\ pc'[r] = "staged" /\ staged'[r].booking = b /\ staged'[r].row = v.row
      /\ \A q \in Requests \ {r} : pc'[q] = pc[q] /\ staged'[q] = staged[q]
  BY <1>1 DEF Stage, data, locks, TypeOK
<1>3. \A q \in Requests : BarberOf(cmd[q])' = BarberOf(cmd[q])
  BY <1>2 DEF BarberOf
<1>4. LockInv'
  <2> SUFFICES ASSUME NEW q \in Requests PROVE HoldsBarber(q)' /\ ReadsCurrent(q)'
    BY DEF LockInv
  <2>1. HoldsBarber(q)'
    BY <1>2, <1>3 DEF SlotInv, LockInv, HoldsBarber, Deciding
  <2>2. CASE q = r
    BY <1>1, <1>2, <2>1, <2>2
       DEF SlotInv, LockInv, ReadsCurrent, HasRead, FreshBooking
  <2>3. CASE q # r
    BY <1>2, <2>1, <2>3 DEF SlotInv, LockInv, ReadsCurrent, HasRead
  <2> QED
    BY <2>2, <2>3
<1>5. StageInv'
  <2> SUFFICES ASSUME NEW q \in Requests
               PROVE  StagesRevision(q)' /\ FindsSlotFree(q)'
    BY DEF StageInv
  <2>1. CASE q = r
    BY <1>2, <1>3, <2>1 DEF StagesRevision, FindsSlotFree, Writes
  <2>2. CASE q # r
    BY <1>2, <1>3, <2>2
       DEF SlotInv, StageInv, StagesRevision, FindsSlotFree, Writes
  <2> QED
    BY <2>1, <2>2
<1>6. StagedApart'
  <2>1. ASSUME NEW q \in Requests \ {r}, pc[q] = "staged"
        PROVE  staged[q].booking # b
    <3>1. /\ staged[q] # Nothing
          /\ ~IsCreate(cmd[q]) => staged[q].booking = cmd[q].booking
          /\ ~IsCreate(cmd[q]) => rows[cmd[q].booking] \in Row
          /\ ~IsCreate(cmd[r]) => rows[cmd[r].booking] \in Row
      BY <1>1, <2>1 DEF TypeInv, Phases, Phase, Started, InTransaction
    <3>2. CASE IsCreate(cmd[r])
      BY <2>1, <3>1, <3>2 DEF FreshBooking
    <3>3. CASE ~IsCreate(cmd[r]) /\ IsCreate(cmd[q])
      BY <2>1, <3>1, <3>3, NullAssumption DEF SlotInv, LockInv, ReadsCurrent
    <3>4. CASE ~IsCreate(cmd[r]) /\ ~IsCreate(cmd[q])
      <4>1. BarberOf(cmd[q]) # BarberOf(cmd[r])
        BY <2>1, <3>4, DecidersApart DEF Deciding
      <4> QED
        BY <3>1, <3>4, <4>1 DEF BarberOf
    <3> QED
      BY <3>2, <3>3, <3>4
  <2> QED
    BY <1>2, <2>1 DEF SlotInv, StagedApart
<1>7. RowsApart'
  BY <1>2 DEF SlotInv, RowsApart
<1> QED
  BY <1>4, <1>5, <1>6, <1>7 DEF SlotInv

LEMMA DecideSteps ==
  ASSUME SlotInv, TypeInv', NEW r \in Requests,
         (\E b \in Bookings : DecideCreate(r, b)) \/ DecideChange(r)
  PROVE  SlotInv'
<1>1. TypeInv /\ TypeOK /\ (pc[r] # "idle" => cmd[r] \in Commands)
  BY DEF SlotInv, TypeInv, Phases, Phase
<1>2. ASSUME NEW b \in Bookings, DecideCreate(r, b) PROVE SlotInv'
  <2> DEFINE v == CreateVerdict(cmd[r], b, rows)
  <2>1. /\ cmd[r] \in Commands /\ IsCreate(cmd[r]) /\ pc[r] = "barber"
        /\ FreshBooking(b) /\ Stage(r, b, v, NewRow(cmd[r]))
    BY <1>1, <1>2 DEF DecideCreate
  <2>2. seen[r] = NoRow
    BY <1>1, <2>1 DEF TypeInv, Phases, Phase, HasRead
  <2>3. v.row # NoRow => v.row = NewRow(cmd[r]) /\ ~SlotTaken(rows, b, v.row)
    BY DEF CreateVerdict, Verdict
  <2>4. NewRow(cmd[r]).barber = BarberOf(cmd[r])
    BY <2>1 DEF NewRow, BarberOf
  <2> HIDE DEF v
  <2> QED
    BY <2>1, <2>2, <2>3, <2>4, StageStep
<1>3. CASE DecideChange(r)
  <2> DEFINE v == ChangeVerdict(cmd[r], seen[r], clock, rows)
  <2>1. PICK tried : Stage(r, cmd[r].booking, v, tried)
    BY <1>3 DEF DecideChange
  <2>2. /\ cmd[r] \in Commands /\ ~IsCreate(cmd[r]) /\ pc[r] = "booking"
        /\ seen[r] = rows[cmd[r].booking] /\ rows[cmd[r].booking] \in Row
    BY <1>1, <1>3 DEF DecideChange, SlotInv, LockInv, ReadsCurrent, HasRead,
                      TypeInv, Phases, Phase, Started, InTransaction
  <2>3. cmd[r].booking \in Bookings
    BY <2>2, CommandShape
  <2>4. v.row # seen[r] =>
          Revises(cmd[r], seen[r], v.row) /\ ~SlotTaken(rows, cmd[r].booking, v.row)
    BY <1>1, <2>2, ChangeRevises DEF SlotInv, TypeOK
  <2>5. seen[r].barber = BarberOf(cmd[r])
    BY <2>2 DEF BarberOf
  <2> HIDE DEF v
  <2> QED
    BY <2>1, <2>2, <2>3, <2>4, <2>5, StageStep DEF Revises
<1> QED
  BY <1>2, <1>3
-----------------------------------------------------------------------------
(* The end of a transaction. *)

\* The other requests keep what they hold when a request that leaves its
\* transaction releases its locks.
LEMMA ReleaseKeepsOthers ==
  ASSUME TypeInv, NEW r \in Requests, ReleaseLocks(r),
         NEW x \in Barbers, barberLock[x] # r
  PROVE  barberLock'[x] = barberLock[x]
BY DEF ReleaseLocks, Released, TypeInv, TypeOK

LEMMA RollbackStep ==
  ASSUME SlotInv, TypeInv', NEW r \in Requests,
         NEW next \in {"begin", "settled", "lost"}, Rollback(r, next)
  PROVE  SlotInv'
<1>1. TypeInv /\ TypeOK
  BY DEF SlotInv, TypeInv
<1>2. /\ UNCHANGED <<rows, cmd>>
      /\ pc'[r] = next /\ staged'[r] = Nothing /\ ReleaseLocks(r)
      /\ \A q \in Requests \ {r} :
           pc'[q] = pc[q] /\ staged'[q] = staged[q] /\ seen'[q] = seen[q]
  BY <1>1 DEF Rollback, data, TypeOK
<1>3. \A q \in Requests : BarberOf(cmd[q])' = BarberOf(cmd[q])
  BY <1>2 DEF BarberOf
<1>4. LockInv'
  <2> SUFFICES ASSUME NEW q \in Requests PROVE HoldsBarber(q)' /\ ReadsCurrent(q)'
    BY DEF LockInv
  <2>1. CASE q = r
    BY <1>2, <2>1 DEF HoldsBarber, ReadsCurrent, HasRead, Deciding
  <2>2. CASE q # r
    <3>1. Deciding(q) => BarberOf(cmd[q]) \in Barbers /\ barberLock[BarberOf(cmd[q])] = q
      BY <1>1, BarberOfType DEF Deciding, InTransaction, SlotInv, LockInv, HoldsBarber
    <3>2. Deciding(q) => barberLock'[BarberOf(cmd[q])] = q
      BY <1>1, <1>2, <2>2, <3>1, ReleaseKeepsOthers
    <3>3. HoldsBarber(q)'
      BY <1>2, <1>3, <2>2, <3>2 DEF HoldsBarber, Deciding
    <3>4. ReadsCurrent(q)'
      BY <1>2, <2>2 DEF SlotInv, LockInv, ReadsCurrent, HasRead
    <3> QED
      BY <3>3, <3>4
  <2> QED
    BY <2>1, <2>2
<1>5. StageInv'
  <2> SUFFICES ASSUME NEW q \in Requests
               PROVE  StagesRevision(q)' /\ FindsSlotFree(q)'
    BY DEF StageInv
  <2>1. CASE q = r
    BY <1>2, <2>1 DEF StagesRevision, FindsSlotFree, Writes
  <2>2. CASE q # r
    BY <1>2, <1>3, <2>2
       DEF SlotInv, StageInv, StagesRevision, FindsSlotFree, Writes
  <2> QED
    BY <2>1, <2>2
<1>6. StagedApart'
  BY <1>2 DEF SlotInv, StagedApart
<1>7. RowsApart'
  BY <1>2 DEF SlotInv, RowsApart
<1> QED
  BY <1>4, <1>5, <1>6, <1>7 DEF SlotInv

LEMMA FailureSteps ==
  ASSUME SlotInv, TypeInv', NEW r \in Requests,
         RejectCreate(r) \/ Timeout(r) \/ Retry(r) \/ GiveUp(r) \/ Crash(r)
  PROVE  SlotInv'
<1>1. PICK next \in {"begin", "settled", "lost"} : Rollback(r, next)
  BY DEF RejectCreate, Timeout, Retry, GiveUp, Crash
<1> QED
  BY <1>1, RollbackStep

\* A commit stores exactly the staged row.
LEMMA CommitStores ==
  ASSUME SlotInv, NEW r \in Requests, Commit(r)
  PROVE  /\ staged[r].booking \in Bookings
         /\ rows' = IF Writes(r) THEN [rows EXCEPT ![staged[r].booking] = staged[r].row]
                                 ELSE rows
<1>1. /\ pc[r] = "staged" /\ staged[r].booking \in Bookings
      /\ ~IsCreate(cmd[r]) => /\ staged[r].booking = cmd[r].booking
                              /\ seen[r] = rows[cmd[r].booking]
  BY DEF Commit, SlotInv, TypeInv, Phases, Phase, LockInv, ReadsCurrent, HasRead
<1>2. Writes(r) => Saved(cmd[r], rows[staged[r].booking], staged[r].row) = staged[r].row
  <2>1. CASE IsCreate(cmd[r])
    BY <2>1 DEF Saved, IsCreate
  <2>2. CASE ~IsCreate(cmd[r])
    BY <1>1, <2>2 DEF SlotInv, StageInv, StagesRevision, Revises
  <2> QED
    BY <2>1, <2>2
<1> QED
  BY <1>1, <1>2 DEF Commit

LEMMA CommitStep ==
  ASSUME SlotInv, TypeInv', NEW r \in Requests, Commit(r)
  PROVE  SlotInv'
<1> DEFINE b == staged[r].booking
           row == staged[r].row
<1>1. TypeInv /\ TypeOK
  BY DEF SlotInv, TypeInv
<1>2. /\ cmd' = cmd /\ pc[r] = "staged" /\ pc'[r] = "committed"
      /\ staged'[r] = Nothing /\ ReleaseLocks(r)
      /\ \A q \in Requests \ {r} :
           pc'[q] = pc[q] /\ staged'[q] = staged[q] /\ seen'[q] = seen[q]
  BY <1>1 DEF Commit, TypeOK
<1>3. /\ b \in Bookings
      /\ \A x \in Bookings \ {b} : rows'[x] = rows[x]
      /\ Writes(r) => rows'[b] = row
      /\ ~Writes(r) => rows'[b] = rows[b]
  BY <1>1, CommitStores DEF TypeOK
<1>4. Writes(r) => row.barber = BarberOf(cmd[r]) /\ ~SlotTaken(rows, b, row)
  BY DEF SlotInv, StageInv, StagesRevision, FindsSlotFree
\* Another deciding request changes another booking, of another barber.
<1>5. ASSUME NEW q \in Requests \ {r}, Deciding(q)
      PROVE  /\ BarberOf(cmd[q]) # BarberOf(cmd[r])
             /\ BarberOf(cmd[q])' = BarberOf(cmd[q])
             /\ ~IsCreate(cmd[q]) => rows'[cmd[q].booking] = rows[cmd[q].booking]
  <2>1. BarberOf(cmd[q]) # BarberOf(cmd[r])
    BY <1>2, <1>5, DecidersApart DEF Deciding
  <2>2. ~IsCreate(cmd[q]) => cmd[q].booking \in Bookings /\ rows[cmd[q].booking] \in Row
    BY <1>1, <1>5, CommandShape
       DEF TypeInv, Phases, Phase, Deciding, Started, InTransaction
  <2>3. ~IsCreate(cmd[q]) => cmd[q].booking # b
    <3>1. CASE IsCreate(cmd[r])
      BY <1>2, <2>2, <3>1, NullAssumption DEF SlotInv, LockInv, ReadsCurrent
    <3>2. CASE ~IsCreate(cmd[r])
      <4>1. b = cmd[r].booking
        BY <1>1, <1>2, <3>2 DEF TypeInv, Phases, Phase
      <4> QED
        BY <2>1, <3>2, <4>1 DEF BarberOf
    <3> QED
      BY <3>1, <3>2
  <2> QED
    BY <1>2, <1>3, <2>1, <2>2, <2>3 DEF BarberOf
<1>6. LockInv'
  <2> SUFFICES ASSUME NEW q \in Requests PROVE HoldsBarber(q)' /\ ReadsCurrent(q)'
    BY DEF LockInv
  <2>1. CASE q = r
    BY <1>2, <2>1 DEF HoldsBarber, ReadsCurrent, HasRead, Deciding
  <2>2. CASE q # r
    <3>1. Deciding(q) => barberLock'[BarberOf(cmd[q])] = q
      <4>1. Deciding(q) => BarberOf(cmd[q]) \in Barbers /\ barberLock[BarberOf(cmd[q])] = q
        BY <1>1, BarberOfType DEF Deciding, InTransaction, SlotInv, LockInv, HoldsBarber
      <4> QED
        BY <1>1, <1>2, <2>2, <4>1, ReleaseKeepsOthers
    <3>2. HoldsBarber(q)'
      BY <1>2, <1>5, <2>2, <3>1 DEF HoldsBarber, Deciding
    <3>3. HasRead(q)' => seen'[q] = rows'[cmd'[q].booking]
      BY <1>2, <1>5, <2>2 DEF HasRead, Deciding, SlotInv, LockInv, ReadsCurrent
    <3>4. pc[q] = "staged" /\ IsCreate(cmd[q]) => rows'[staged[q].booking] = NoRow
      <4> SUFFICES ASSUME pc[q] = "staged", IsCreate(cmd[q])
                   PROVE  rows'[staged[q].booking] = NoRow
        OBVIOUS
      <4>1. staged[q].booking \in Bookings /\ staged[q].booking # b
        BY <1>1, <1>2, <2>2 DEF TypeInv, Phases, Phase, SlotInv, StagedApart
      <4> QED
        BY <1>3, <4>1 DEF SlotInv, LockInv, ReadsCurrent
    <3> QED
      BY <1>2, <2>2, <3>2, <3>3, <3>4 DEF ReadsCurrent
  <2> QED
    BY <2>1, <2>2
<1>7. StageInv'
  <2> SUFFICES ASSUME NEW q \in Requests
               PROVE  StagesRevision(q)' /\ FindsSlotFree(q)'
    BY DEF StageInv
  <2>1. CASE q = r
    BY <1>2, <2>1 DEF StagesRevision, FindsSlotFree, Writes
  <2>2. CASE q # r
    <3> SUFFICES ASSUME Writes(q) PROVE StagesRevision(q)' /\ FindsSlotFree(q)'
      BY <1>2, <2>2 DEF Writes, StagesRevision, FindsSlotFree
    <3>1. Deciding(q) /\ StagesRevision(q) /\ FindsSlotFree(q)
      BY <1>1 DEF TypeInv, Phases, Phase, Writes, Deciding, SlotInv, StageInv
    <3>2. StagesRevision(q)'
      BY <1>2, <1>5, <2>2, <3>1 DEF StagesRevision, Writes
    <3>3. ASSUME NEW other \in Bookings \ {staged[q].booking},
                 Clash(staged[q].row, rows'[other])
          PROVE  FALSE
      <4>1. CASE other = b /\ Writes(r)
        <5>1. staged[q].row.barber = row.barber
          BY <1>3, <3>3, <4>1 DEF Clash, Overlap
        <5> QED
          BY <1>4, <1>5, <2>2, <3>1, <4>1, <5>1 DEF StagesRevision
      <4>2. CASE ~(other = b /\ Writes(r))
        BY <1>3, <3>1, <3>3, <4>2 DEF FindsSlotFree, SlotTaken
      <4> QED
        BY <4>1, <4>2
    <3>4. FindsSlotFree(q)'
      BY <1>2, <2>2, <3>3 DEF FindsSlotFree, SlotTaken
    <3> QED
      BY <3>2, <3>4
  <2> QED
    BY <2>1, <2>2
<1>8. StagedApart'
  BY <1>2 DEF SlotInv, StagedApart
<1>9. RowsApart'
  <2> SUFFICES ASSUME NEW x \in Bookings, NEW y \in Bookings, x # y,
                      Clash(rows'[x], rows'[y])
               PROVE  FALSE
    BY DEF RowsApart
  <2>1. CASE ~Writes(r) \/ (x # b /\ y # b)
    <3>1. rows'[x] = rows[x] /\ rows'[y] = rows[y]
      BY <1>3, <2>1
    <3> QED
      BY <3>1 DEF SlotInv, RowsApart
  <2>2. CASE Writes(r) /\ x = b
    BY <1>3, <1>4, <2>2 DEF SlotTaken
  <2>3. CASE Writes(r) /\ y = b
    BY <1>3, <1>4, <2>3, ClashSymmetric DEF SlotTaken
  <2> QED
    BY <2>1, <2>2, <2>3
<1> QED
  BY <1>6, <1>7, <1>8, <1>9 DEF SlotInv

LEMMA NextSlots == SlotInv /\ [Next]_vars => SlotInv'
<1> SUFFICES ASSUME SlotInv, [Next]_vars PROVE SlotInv'
  OBVIOUS
<1>1. TypeInv'
  BY NextType DEF SlotInv
<1>2. ASSUME NEW r \in Requests, Proceed(r) PROVE SlotInv'
  BY <1>1, <1>2, QuietSteps, LockSteps, DecideSteps, FailureSteps, CommitStep
     DEF Proceed
<1>3. ASSUME NEW r \in Requests, Retry(r) \/ GiveUp(r) \/ Crash(r) PROVE SlotInv'
  BY <1>1, <1>3, FailureSteps
<1>4. CASE AllFinished \/ UNCHANGED vars
  BY <1>1, <1>4, QuietSteps DEF AllFinished
<1> QED
  BY <1>1, <1>2, <1>3, <1>4, QuietSteps DEF Next

LEMMA SlotInvHolds == Spec => []SlotInv
BY InitSlots, NextSlots, PTL DEF Spec

-----------------------------------------------------------------------------
(* The theorems. *)

\* Two live bookings of one barber never share an instant: creations, moves and
\* cancellations racing under retries, timeouts and crashes keep every barber's
\* calendar disjoint, for any number of requests and any catalog.
THEOREM NoBarberDoubleBooked == Spec => []NoDoubleBooking
<1>1. SlotInv => NoDoubleBooking
  <2> SUFFICES ASSUME SlotInv, NEW a \in Bookings, NEW b \in Bookings, a # b,
                      Live(rows[a]), Live(rows[b]), rows[a].barber = rows[b].barber
               PROVE  End(rows[a]) <= rows[b].start \/ End(rows[b]) <= rows[a].start
    BY DEF NoDoubleBooking
  <2>1. rows[a] \in Row /\ rows[b] \in Row
    BY DEF SlotInv, TypeInv, TypeOK, Live
  <2>2. ~Overlap(rows[a], rows[b])
    BY DEF SlotInv, RowsApart, Clash
  <2> QED
    BY <2>1, <2>2 DEF Row, Overlap, End
<1> QED
  BY <1>1, SlotInvHolds, PTL

\* From its locks to its commit a request works on committed data that no other
\* transaction changes: the barber lock that every effect takes first is enough.
THEOREM DecisionsAreCurrent == Spec => []DecidesOnCurrentData
<1>1. SlotInv => DecidesOnCurrentData
  <2> SUFFICES ASSUME SlotInv, NEW r \in Requests, pc[r] \in {"booking", "staged"}
               PROVE  /\ ~IsCreate(cmd[r]) => seen[r] = rows[cmd[r].booking]
                      /\ \A q \in Requests \ {r} :
                           Writes(q) => staged[q].row.barber # BarberOf(cmd[r])
    BY DEF DecidesOnCurrentData
  <2>1. ~IsCreate(cmd[r]) => seen[r] = rows[cmd[r].booking]
    BY DEF SlotInv, LockInv, ReadsCurrent, HasRead
  <2>2. ASSUME NEW q \in Requests \ {r}, Writes(q)
        PROVE  staged[q].row.barber # BarberOf(cmd[r])
    <3>1. pc[q] = "staged" /\ staged[q].row.barber = BarberOf(cmd[q])
      BY <2>2 DEF SlotInv, TypeInv, Phases, Phase, Writes, StageInv, StagesRevision
    <3> QED
      BY <3>1, DecidersApart DEF Deciding
  <2> QED
    BY <2>1, <2>2
<1> QED
  BY <1>1, SlotInvHolds, PTL

\* A committed booking changes only from CONFIRMED, by one version, for a command
\* that expected exactly the version it replaces: no update is lost and no
\* terminal booking changes.
THEOREM VersionedChanges == Spec => ChangesAreVersioned
<1> DEFINE Versioned(b) ==
      rows[b] # NoRow /\ rows'[b] # rows[b] =>
       /\ rows[b].status = "CONFIRMED"
       /\ rows'[b].version = rows[b].version + 1
       /\ rows'[b].barber = rows[b].barber /\ rows'[b].duration = rows[b].duration
       /\ \E r \in Requests : /\ pc[r] = "staged" /\ pc'[r] = "committed"
                              /\ cmd[r].booking = b
                              /\ cmd[r].expected = rows[b].version
<1>1. ASSUME SlotInv, [Next]_vars, NEW b \in Bookings PROVE Versioned(b)
  <2>1. ASSUME NEW r \in Requests, Commit(r) PROVE Versioned(b)
    <3> SUFFICES ASSUME rows[b] # NoRow, rows'[b] # rows[b] PROVE Versioned(b)
      OBVIOUS
    <3>1. TypeInv /\ TypeOK
      BY <1>1 DEF SlotInv, TypeInv
    <3>2. Writes(r) /\ b = staged[r].booking /\ rows'[b] = staged[r].row
      BY <1>1, <2>1, <3>1, CommitStores DEF TypeOK
    <3>3. pc[r] = "staged" /\ pc'[r] = "committed"
      BY <2>1, <3>1 DEF Commit, TypeOK
    <3>4. ~IsCreate(cmd[r])
      BY <1>1, <3>2, <3>3 DEF SlotInv, LockInv, ReadsCurrent
    <3>5. b = cmd[r].booking /\ seen[r] = rows[b]
      BY <1>1, <3>1, <3>2, <3>3, <3>4
         DEF TypeInv, Phases, Phase, SlotInv, LockInv, ReadsCurrent, HasRead
    <3>6. Revises(cmd[r], rows[b], rows'[b])
      BY <1>1, <3>2, <3>4, <3>5 DEF SlotInv, StageInv, StagesRevision
    <3> QED
      BY <3>3, <3>5, <3>6 DEF Revises
  <2>2. CASE ~(\E r \in Requests : Commit(r))
    <3>1. UNCHANGED rows
      BY <1>1, <2>2
         DEF Next, Proceed, Submit, RefuseUnknownBooking, ClaimReceipt, Replay,
             LockBarber, LockBooking, RejectCreate, DecideCreate, DecideChange,
             Stage, Deliver, Timeout, Retry, GiveUp, Crash, Rollback, Redact,
             Tick, AllFinished, data, vars
    <3> QED
      BY <3>1
  <2> QED
    BY <2>1, <2>2
<1>2. SlotInv /\ [Next]_vars => [\A b \in Bookings : Versioned(b)]_vars
  BY <1>1
<1> QED
  BY <1>2, SlotInvHolds, PTL DEF Spec, ChangesAreVersioned
=============================================================================

------------------------ MODULE BookingReceiptsProofs ------------------------
(***************************************************************************)
(* One effect per receipt, true answers, an exact journal and the          *)
(* implementation of BookingLedger: proofs for every value of the          *)
(* constants.                                                              *)
(*                                                                         *)
(* The invariant has two halves.  What a request has staged stays the      *)
(* verdict of an atomic command on the committed bookings, because nobody  *)
(* else changes the calendar of its barber.  And a receipt belongs to at   *)
(* most one open transaction, so that it is stored once, together with the *)
(* journal entry and the answer.                                           *)
(***************************************************************************)
EXTENDS BookingCommandsProofs, LockTimes, FiniteSetTheorems

Successes == {"CREATED", "RESCHEDULED"} \cup Terminal

\* The staged writes are what the rules say at a time not before `since`, on the
\* bookings as they are committed now.
VerdictSince(r, since) ==
  pc[r] = "staged" =>
    \E at \in since..clock :
      LET verdict == IF IsCreate(cmd[r])
                       THEN CreateVerdict(cmd[r], staged[r].booking, rows)
                       ELSE ChangeVerdict(cmd[r], seen[r], at, rows)
      IN  /\ staged[r].code = verdict.code /\ staged[r].row = verdict.row
          /\ IsCreate(cmd[r]) => ~BreaksCreateRules(cmd[r], at)

StagesVerdict(r) == VerdictSince(r, 0)

VerdictInv == \A r \in Requests : StagesVerdict(r)

\* A receipt that somebody is about to write is not there yet, and nobody else
\* is about to write it.
ReceiptInv ==
  \A r \in Requests : pc[r] \in InTransaction =>
    /\ receipts[ReceiptId(cmd[r])] = NoReceipt
    /\ \A q \in Requests \ {r} :
         pc[q] \in InTransaction => ReceiptId(cmd[q]) # ReceiptId(cmd[r])

EntriesOf(b) == {e \in journal : e.booking = b}

\* The entries of a booking are the versions it went through.
Journalled(b) ==
  /\ IsFiniteSet(EntriesOf(b))
  /\ IF rows[b] = NoRow THEN EntriesOf(b) = {}
     ELSE /\ {e.version : e \in EntriesOf(b)} = 1..rows[b].version
          /\ Cardinality(EntriesOf(b)) = rows[b].version
          /\ \A e \in EntriesOf(b) : e.status =
               IF e.version = rows[b].version THEN rows[b].status ELSE "CONFIRMED"

JournalInv == \A b \in Bookings : Journalled(b)

Answered(r, e) == answer[r].booking = e.booking /\ answer[r].version = e.version

\* Who made an entry of the journal has left its receipt and, unless it died,
\* its answer.
EffectInv ==
  /\ OneEffectPerReceipt
  /\ \A e \in journal : e.by # Earlier =>
       /\ pc[e.by] \in {"committed", "settled", "lost"}
       /\ pc[e.by] # "lost" => Answered(e.by, e)

\* An answer that names a result is the one that its receipt stores.
AnswerInv ==
  \A r \in Requests :
    /\ pc[r] \in {"idle"} \cup Started => answer[r] = NoAnswer
    /\ answer[r] \in Responses =>
         /\ receipts[ReceiptId(cmd[r])] # NoReceipt
         /\ receipts[ReceiptId(cmd[r])].cmd = cmd[r]
         /\ receipts[ReceiptId(cmd[r])].response = answer[r]

\* A stored success names a version that is in the journal.
StoredInv ==
  \A id \in ReceiptIds :
    receipts[id] # NoReceipt /\ receipts[id].response.code \in Successes =>
      \E e \in journal : /\ e.booking = receipts[id].response.booking
                         /\ e.version = receipts[id].response.version

LedgerInv ==
  /\ SlotInv /\ VerdictInv /\ OutcomesFollowVisits
  /\ ReceiptInv /\ JournalInv /\ EffectInv /\ AnswerInv /\ StoredInv

-----------------------------------------------------------------------------
(* Which steps change what. *)

\* Only a commit changes bookings or the journal; a stored result is replaced
\* only by its tombstone.
LEMMA DataSteps ==
  ASSUME [Next]_vars
  PROVE  \/ \E r \in Requests : Commit(r)
         \/ /\ UNCHANGED <<rows, journal>>
            /\ UNCHANGED receipts \/ \E id \in ReceiptIds : Redact(id)
<1>1. CASE UNCHANGED vars
  BY <1>1 DEF vars
<1>2. CASE Next
  BY <1>2 DEF Next, Proceed, Submit, RefuseUnknownBooking, ClaimReceipt, Replay,
              LockBarber, LockBooking, RejectCreate, DecideCreate, DecideChange,
              Stage, Deliver, Timeout, Retry, GiveUp, Crash, Rollback, Redact,
              Tick, AllFinished, data, vars
<1> QED
  BY <1>1, <1>2

LEMMA ClockSteps ==
  ASSUME TypeInv, [Next]_vars
  PROVE  clock \in Nat /\ clock' \in Nat /\ clock <= clock'
<1>1. clock \in 0..MaxTime /\ MaxTime \in Nat
  BY RequestsAssumption DEF TypeInv, TypeOK
<1>2. clock' = clock \/ Tick
  BY DEF Next, Proceed, Submit, RefuseUnknownBooking, ClaimReceipt, Replay,
         LockBarber, LockBooking, RejectCreate, DecideCreate, DecideChange,
         Stage, Commit, Deliver, Timeout, Retry, GiveUp, Crash, Rollback, Redact,
         AllFinished, vars
<1> QED
  BY <1>1, <1>2 DEF Tick

\* A step of a request, and what the steps of the others leave it.
Acts(q) ==
  \/ \E c \in Commands : Submit(q, c) \/ RefuseUnknownBooking(q, c)
  \/ Proceed(q) \/ Retry(q) \/ GiveUp(q) \/ Crash(q)

Rests(q) ==
  /\ pc'[q] = pc[q] /\ cmd'[q] = cmd[q] /\ answer'[q] = answer[q]
  /\ seen'[q] = seen[q] /\ staged'[q] = staged[q]

LEMMA OneActs ==
  ASSUME TypeInv, [Next]_vars, NEW q \in Requests
  PROVE  Acts(q) \/ Rests(q)
<1> USE DEF TypeInv, TypeOK, Rests
<1>1. ASSUME NEW r \in Requests \ {q}, NEW c \in Commands,
             Submit(r, c) \/ RefuseUnknownBooking(r, c)
      PROVE  Rests(q)
  BY <1>1 DEF Submit, RefuseUnknownBooking, Answer
<1>2. ASSUME NEW r \in Requests \ {q},
             ClaimReceipt(r) \/ Replay(r) \/ Deliver(r) \/ LockBarber(r) \/ LockBooking(r)
      PROVE  Rests(q)
  BY <1>2 DEF ClaimReceipt, Replay, Deliver, LockBarber, LockBooking, Answer
<1>3. ASSUME NEW r \in Requests \ {q},
             (\E b \in Bookings : DecideCreate(r, b)) \/ DecideChange(r)
      PROVE  Rests(q)
  BY <1>3 DEF DecideCreate, DecideChange, Stage
<1>4. ASSUME NEW r \in Requests \ {q},
             RejectCreate(r) \/ Timeout(r) \/ Retry(r) \/ GiveUp(r) \/ Crash(r)
      PROVE  Rests(q)
  BY <1>4 DEF RejectCreate, Timeout, Retry, GiveUp, Crash, Rollback, Answer
<1>5. ASSUME NEW r \in Requests \ {q}, Commit(r) PROVE Rests(q)
  BY <1>5 DEF Commit, Answer
<1>6. CASE (\E id \in ReceiptIds : Redact(id)) \/ Tick \/ AllFinished \/ UNCHANGED vars
  BY <1>6 DEF Redact, Tick, AllFinished, vars
<1> QED
  BY <1>1, <1>2, <1>3, <1>4, <1>5, <1>6 DEF Next, Proceed, Acts

\* A request that is staged was staged before, or has just decided.
LEMMA StagedSteps ==
  ASSUME TypeInv, [Next]_vars, NEW q \in Requests, pc'[q] = "staged"
  PROVE  \/ pc[q] = "staged" /\ Rests(q)
         \/ (\E b \in Bookings : DecideCreate(q, b)) \/ DecideChange(q)
<1>1. CASE Rests(q)
  BY <1>1 DEF Rests
<1>2. CASE Acts(q)
  BY <1>2 DEF Acts, Proceed, Submit, RefuseUnknownBooking, ClaimReceipt, Replay,
              LockBarber, LockBooking, RejectCreate, Commit, Deliver, Timeout,
              Retry, GiveUp, Crash, Rollback, TypeInv, TypeOK
<1> QED
  BY <1>1, <1>2, OneActs

-----------------------------------------------------------------------------
(* Staged verdicts stay true: VerdictInv. *)

\* A commit for another barber leaves the slots of this one as they are.
LEMMA SlotsOfOthers ==
  ASSUME SlotInv, NEW r \in Requests, NEW q \in Requests, q # r,
         Commit(r), Deciding(q),
         NEW b \in Bookings, NEW row, row.barber = BarberOf(cmd[q])
  PROVE  SlotTaken(rows', b, row) <=> SlotTaken(rows, b, row)
<1> DEFINE x == staged[r].booking
<1>1. BarberOf(cmd[q]) # BarberOf(cmd[r])
  BY DecidersApart DEF Commit, Deciding
<1>2. TypeInv /\ TypeOK /\ pc[r] = "staged"
  BY DEF SlotInv, TypeInv, Commit
<1>3. /\ x \in Bookings
      /\ \A o \in Bookings \ {x} : rows'[o] = rows[o]
      /\ Writes(r) => rows'[x] = staged[r].row
      /\ ~Writes(r) => rows'[x] = rows[x]
  BY <1>2, CommitStores DEF TypeOK
<1>4. Writes(r) => ~Clash(row, rows'[x])
  BY <1>1, <1>3 DEF SlotInv, StageInv, StagesRevision, Clash, Overlap
<1>5. Writes(r) => ~Clash(row, rows[x])
  <2>1. CASE IsCreate(cmd[r])
    BY <1>2, <2>1 DEF SlotInv, LockInv, ReadsCurrent, Clash, Live
  <2>2. CASE ~IsCreate(cmd[r])
    <3>1. x = cmd[r].booking
      BY <1>2, <2>2 DEF TypeInv, Phases, Phase
    <3> QED
      BY <1>1, <2>2, <3>1 DEF BarberOf, Clash, Overlap
  <2> QED
    BY <2>1, <2>2
<1>6. \A o \in Bookings : Clash(row, rows'[o]) <=> Clash(row, rows[o])
  BY <1>3, <1>4, <1>5
<1> QED
  BY <1>6 DEF SlotTaken

LEMMA ChangeVerdictStays ==
  ASSUME NEW c \in Commands, ~IsCreate(c), NEW row \in Row, NEW now, NEW t, NEW u,
         \A moved : moved.barber = row.barber =>
           (SlotTaken(t, c.booking, moved) <=> SlotTaken(u, c.booking, moved))
  PROVE  ChangeVerdict(c, row, now, t) = ChangeVerdict(c, row, now, u)
<1>1. [NextVersion(row) EXCEPT !.start = c.start].barber = row.barber
  BY NextVersionType DEF Row
<1>2. RescheduleVerdict(c, row, now, t) = RescheduleVerdict(c, row, now, u)
  BY <1>1 DEF RescheduleVerdict
<1> QED
  BY <1>2 DEF ChangeVerdict

LEMMA VerdictStays ==
  ASSUME SlotInv, [Next]_vars, NEW q \in Requests, NEW since \in Nat,
         VerdictSince(q, since), pc[q] = "staged", Rests(q)
  PROVE  VerdictSince(q, since)'
<1>1. TypeInv /\ cmd[q] \in Commands /\ staged[q].booking \in Bookings
  BY DEF SlotInv, TypeInv, Phases, Phase
<1>2. PICK at \in since..clock :
        /\ staged[q].code = (IF IsCreate(cmd[q])
             THEN CreateVerdict(cmd[q], staged[q].booking, rows)
             ELSE ChangeVerdict(cmd[q], seen[q], at, rows)).code
        /\ staged[q].row = (IF IsCreate(cmd[q])
             THEN CreateVerdict(cmd[q], staged[q].booking, rows)
             ELSE ChangeVerdict(cmd[q], seen[q], at, rows)).row
        /\ IsCreate(cmd[q]) => ~BreaksCreateRules(cmd[q], at)
  BY DEF VerdictSince
<1>3. at \in since..clock'
  BY <1>1, ClockSteps
<1>4. \A b \in Bookings : \A row : row.barber = BarberOf(cmd[q]) =>
        (SlotTaken(rows', b, row) <=> SlotTaken(rows, b, row))
  <2>1. CASE UNCHANGED rows
    BY <2>1
  <2>2. ASSUME NEW r \in Requests, Commit(r)
        PROVE  \A b \in Bookings : \A row : row.barber = BarberOf(cmd[q]) =>
                 (SlotTaken(rows', b, row) <=> SlotTaken(rows, b, row))
    <3>1. q # r
      BY <1>1, <2>2 DEF Rests, Commit, TypeInv, TypeOK
    <3> QED
      BY <2>2, <3>1, SlotsOfOthers DEF Deciding
  <2> QED
    BY <2>1, <2>2, DataSteps
<1>5. CASE IsCreate(cmd[q])
  <2>1. NewRow(cmd[q]).barber = BarberOf(cmd[q])
    BY <1>5 DEF NewRow, BarberOf
  <2>2. CreateVerdict(cmd[q], staged[q].booking, rows')
          = CreateVerdict(cmd[q], staged[q].booking, rows)
    BY <1>1, <1>4, <2>1 DEF CreateVerdict
  <2> QED
    BY <1>2, <1>3, <1>5, <2>2 DEF VerdictSince, Rests
<1>6. CASE ~IsCreate(cmd[q])
  <2>1. /\ seen[q] \in Row /\ cmd[q].booking \in Bookings
        /\ seen[q].barber = BarberOf(cmd[q])
    BY <1>1, <1>6, CommandShape
       DEF TypeInv, Phases, Phase, HasRead, SlotInv, LockInv, ReadsCurrent, BarberOf
  <2>2. ChangeVerdict(cmd[q], seen[q], at, rows')
          = ChangeVerdict(cmd[q], seen[q], at, rows)
    BY <1>1, <1>4, <1>6, <2>1, ChangeVerdictStays
  <2> QED
    BY <1>2, <1>3, <1>6, <2>2 DEF VerdictSince, Rests
<1> QED
  BY <1>5, <1>6

\* A request that decides does so by the clock of that instant.
LEMMA FreshVerdict ==
  ASSUME TypeInv, NEW q \in Requests, NEW since \in Nat, since <= clock,
         (\E b \in Bookings : DecideCreate(q, b)) \/ DecideChange(q)
  PROVE  VerdictSince(q, since)'
<1>1. TypeOK /\ clock \in since..clock
  BY RequestsAssumption DEF TypeInv, TypeOK
<1>2. ASSUME NEW b \in Bookings, DecideCreate(q, b) PROVE VerdictSince(q, since)'
  <2>1. /\ IsCreate(cmd[q]) /\ ~BreaksCreateRules(cmd[q], clock)
        /\ UNCHANGED <<clock, rows, cmd>>
        /\ staged'[q].booking = b
        /\ staged'[q].code = CreateVerdict(cmd[q], b, rows).code
        /\ staged'[q].row = CreateVerdict(cmd[q], b, rows).row
    BY <1>1, <1>2 DEF DecideCreate, Stage, data, TypeOK
  <2> QED
    BY <1>1, <2>1 DEF VerdictSince
<1>3. CASE DecideChange(q)
  <2>1. /\ ~IsCreate(cmd[q]) /\ UNCHANGED <<clock, rows, cmd, seen>>
        /\ staged'[q].code = ChangeVerdict(cmd[q], seen[q], clock, rows).code
        /\ staged'[q].row = ChangeVerdict(cmd[q], seen[q], clock, rows).row
    BY <1>1, <1>3 DEF DecideChange, Stage, data, TypeInv, TypeOK, Phases, Phase
  <2> QED
    BY <1>1, <2>1 DEF VerdictSince
<1> QED
  BY <1>2, <1>3

LEMMA NextVerdicts ==
  ASSUME SlotInv, VerdictInv, [Next]_vars
  PROVE  VerdictInv'
<1> SUFFICES ASSUME NEW q \in Requests, pc'[q] = "staged"
             PROVE  VerdictSince(q, 0)'
  BY DEF VerdictInv, StagesVerdict, VerdictSince
<1>1. TypeInv /\ 0 \in Nat /\ 0 <= clock
  BY ClockSteps DEF SlotInv
<1>2. CASE pc[q] = "staged" /\ Rests(q)
  BY <1>1, <1>2, VerdictStays DEF VerdictInv, StagesVerdict
<1>3. CASE (\E b \in Bookings : DecideCreate(q, b)) \/ DecideChange(q)
  BY <1>1, <1>3, FreshVerdict
<1> QED
  BY <1>1, <1>2, <1>3, StagedSteps

-----------------------------------------------------------------------------
(* Outcomes: a staged outcome was decided after the end of its visit. *)

LEMMA OutcomeAfterEnd ==
  ASSUME NEW c \in Commands, ~IsCreate(c), NEW row \in Row, NEW at \in Nat, NEW table,
         LET new == ChangeVerdict(c, row, at, table).row
         IN  new # row /\ new.status \in {"COMPLETED", "NO_SHOW"}
  PROVE  End(ChangeVerdict(c, row, at, table).row) <= at
<1> DEFINE new == ChangeVerdict(c, row, at, table).row
           ended == [NextVersion(row) EXCEPT !.status = OutcomeStatus(c)]
<1>1. CASE c.op = "RESCHEDULE_BOOKING"
  <2>1. [NextVersion(row) EXCEPT !.start = c.start].status = row.status
    BY NextVersionType DEF Row
  <2>2. new = RescheduleVerdict(c, row, at, table).row
    BY <1>1 DEF ChangeVerdict
  <2>3. new = row \/ new.status = "CONFIRMED"
    BY <2>1, <2>2 DEF RescheduleVerdict, Verdict
  <2> QED
    BY <2>3
<1>2. CASE c.op = "CANCEL_BOOKING"
  <2>1. [NextVersion(row) EXCEPT !.status = "CANCELLED"].status = "CANCELLED"
    BY NextVersionType DEF Row
  <2>2. new = CancelVerdict(c, row, at).row
    BY <1>2 DEF ChangeVerdict
  <2>3. new = row \/ new.status = "CANCELLED"
    BY <2>1, <2>2 DEF CancelVerdict, Verdict
  <2> QED
    BY <2>3
<1>3. CASE c.op \notin {"RESCHEDULE_BOOKING", "CANCEL_BOOKING"}
  <2>1. ended.start = row.start /\ ended.duration = row.duration
    BY NextVersionType DEF Row
  <2>2. new = OutcomeVerdict(c, row, at).row
    BY <1>3 DEF ChangeVerdict
  <2>3. new = row \/ (new = ended /\ ~(at < End(row)))
    BY <2>2 DEF OutcomeVerdict, Verdict
  <2>4. row.start \in Nat /\ row.duration \in Nat
    BY DEF Row
  <2>5. ~(at < End(row)) => End(ended) <= at
    BY <2>1, <2>4 DEF End
  <2> HIDE DEF ended
  <2> QED
    BY <2>3, <2>5
<1> QED
  BY <1>1, <1>2, <1>3

LEMMA NextOutcomes ==
  ASSUME SlotInv, VerdictInv, OutcomesFollowVisits, [Next]_vars
  PROVE  OutcomesFollowVisits'
<1>1. TypeInv /\ TypeOK /\ TypeInv' /\ TypeOK'
  BY NextType DEF SlotInv, TypeInv
<1>2. ASSUME NEW b \in Bookings, rows'[b] = rows[b], rows'[b] # NoRow,
             rows'[b].status \in {"COMPLETED", "NO_SHOW"}
      PROVE  End(rows'[b]) <= clock'
  <2>1. rows[b] \in Row /\ End(rows[b]) <= clock
    BY <1>1, <1>2 DEF OutcomesFollowVisits, TypeOK
  <2> QED
    BY <1>1, <1>2, <2>1, ClockSteps DEF End, Row
<1>3. CASE UNCHANGED rows
  BY <1>2, <1>3 DEF OutcomesFollowVisits
<1>4. ASSUME NEW r \in Requests, Commit(r), NEW b \in Bookings, rows'[b] # rows[b],
             rows'[b].status \in {"COMPLETED", "NO_SHOW"}
      PROVE  End(rows'[b]) <= clock'
  <2>1. /\ pc[r] = "staged" /\ cmd[r] \in Commands /\ clock' = clock
        /\ Writes(r) /\ b = staged[r].booking /\ rows'[b] = staged[r].row
    <3>1. pc[r] = "staged" /\ cmd[r] \in Commands /\ clock' = clock
      BY <1>1, <1>4 DEF Commit, TypeInv, Phases, Phase
    <3>2. rows \in [Bookings -> Row \cup {NoRow}]
      BY <1>1 DEF TypeOK
    <3> QED
      BY <1>4, <3>1, <3>2, CommitStores
  <2>2. CASE IsCreate(cmd[r])
    <3>1. staged[r].row = NoRow \/ staged[r].row = NewRow(cmd[r])
      BY <2>1, <2>2 DEF VerdictInv, StagesVerdict, VerdictSince, CreateVerdict, Verdict
    <3>2. seen[r] = NoRow
      BY <1>1, <2>2 DEF TypeInv, Phases, Phase, HasRead
    <3> QED
      BY <1>4, <2>1, <3>1, <3>2 DEF NewRow, Writes
  <2>3. CASE ~IsCreate(cmd[r])
    <3>1. seen[r] \in Row
      BY <1>1, <2>1, <2>3 DEF TypeInv, Phases, Phase, HasRead
    <3>2. PICK at \in 0..clock :
            staged[r].row = ChangeVerdict(cmd[r], seen[r], at, rows).row
      BY <2>1, <2>3 DEF VerdictInv, StagesVerdict, VerdictSince
    <3>3. End(staged[r].row) <= at
      BY <1>4, <2>1, <2>3, <3>1, <3>2, OutcomeAfterEnd DEF Writes
    <3>4. staged[r].row \in Row
      BY <1>1, <2>1, <2>3 DEF TypeInv, Phases, Phase
    <3> QED
      BY <1>1, <2>1, <3>2, <3>3, <3>4 DEF TypeOK, End, Row
  <2> QED
    BY <2>2, <2>3
<1> QED
  BY <1>2, <1>3, <1>4, DataSteps DEF OutcomesFollowVisits

-----------------------------------------------------------------------------
(* One open transaction per receipt: ReceiptInv. *)

\* A request comes into a transaction only through the insert of its receipt.
LEMMA TransactionSteps ==
  ASSUME TypeInv, [Next]_vars, NEW q \in Requests, pc'[q] \in InTransaction
  PROVE  /\ cmd'[q] = cmd[q] /\ ~Commit(q)
         /\ pc[q] \in InTransaction \/ ClaimReceipt(q)
<1>1. CASE Rests(q)
  BY <1>1 DEF Rests, Commit, InTransaction, TypeInv, TypeOK
<1>2. CASE Acts(q)
  BY <1>2 DEF Acts, Proceed, Submit, RefuseUnknownBooking, ClaimReceipt, Replay,
              LockBarber, LockBooking, RejectCreate, DecideCreate, DecideChange,
              Stage, Commit, Deliver, Timeout, Retry, GiveUp, Crash, Rollback,
              InTransaction, TypeInv, TypeOK
<1> QED
  BY <1>1, <1>2, OneActs

LEMMA NextReceipts ==
  ASSUME TypeInv, ReceiptInv, [Next]_vars
  PROVE  ReceiptInv'
<1>1. TypeOK
  BY DEF TypeInv
<1>2. ASSUME NEW q \in Requests, NEW r \in Requests, q # r,
             pc'[q] \in InTransaction, pc'[r] \in InTransaction
      PROVE  ReceiptId(cmd'[q]) # ReceiptId(cmd'[r])
  <2>1. cmd'[q] = cmd[q] /\ cmd'[r] = cmd[r]
    BY <1>2, TransactionSteps
  <2>2. CASE pc[q] \in InTransaction /\ pc[r] \in InTransaction
    BY <1>2, <2>1, <2>2 DEF ReceiptInv
  <2>3. CASE ClaimReceipt(q)
    <3>1. pc[r] \in InTransaction
      BY <1>1, <1>2, <2>3 DEF ClaimReceipt, TypeOK
    <3> QED
      BY <1>2, <2>1, <2>3, <3>1 DEF ClaimReceipt, ClaimedByOther
  <2>4. CASE ClaimReceipt(r)
    <3>1. pc[q] \in InTransaction
      BY <1>1, <1>2, <2>4 DEF ClaimReceipt, TypeOK
    <3> QED
      BY <1>2, <2>1, <2>4, <3>1 DEF ClaimReceipt, ClaimedByOther
  <2> QED
    BY <1>2, <2>2, <2>3, <2>4, TransactionSteps
<1>3. ASSUME NEW r \in Requests, pc'[r] \in InTransaction
      PROVE  receipts'[ReceiptId(cmd'[r])] = NoReceipt
  <2>1. cmd'[r] = cmd[r] /\ ~Commit(r)
    BY <1>3, TransactionSteps
  <2>2. /\ receipts[ReceiptId(cmd[r])] = NoReceipt
        /\ \A q \in Requests \ {r} :
             pc[q] \in InTransaction => ReceiptId(cmd[q]) # ReceiptId(cmd[r])
    BY <1>3, TransactionSteps DEF ReceiptInv, ClaimReceipt, ClaimedByOther
  <2>3. ASSUME NEW q \in Requests, Commit(q)
        PROVE  receipts'[ReceiptId(cmd[r])] = receipts[ReceiptId(cmd[r])]
    <3>1. pc[q] \in InTransaction /\ q # r
      BY <2>1, <2>3 DEF Commit, InTransaction
    <3> QED
      BY <1>1, <2>2, <2>3, <3>1 DEF Commit, TypeOK
  <2>4. ASSUME NEW id \in ReceiptIds, Redact(id)
        PROVE  receipts'[ReceiptId(cmd[r])] = receipts[ReceiptId(cmd[r])]
    BY <1>1, <2>2, <2>4 DEF Redact, TypeOK
  <2> QED
    BY <2>1, <2>2, <2>3, <2>4, DataSteps
<1> QED
  BY <1>2, <1>3 DEF ReceiptInv

-----------------------------------------------------------------------------
(* The journal: one entry for each version. *)

\* What a request that writes has staged: a first version or the next one.
LEMMA StagedRow ==
  ASSUME SlotInv, VerdictInv, NEW r \in Requests, pc[r] = "staged", Writes(r)
  PROVE  /\ staged[r].row \in Row
         /\ IsCreate(cmd[r]) =>
              /\ rows[staged[r].booking] = NoRow
              /\ staged[r].row = NewRow(cmd[r])
         /\ ~IsCreate(cmd[r]) =>
              /\ staged[r].booking = cmd[r].booking
              /\ rows[cmd[r].booking] \in Row
              /\ Revises(cmd[r], rows[cmd[r].booking], staged[r].row)
<1>1. TypeInv /\ cmd[r] \in Commands
  BY DEF SlotInv, TypeInv, Phases, Phase
<1>2. CASE IsCreate(cmd[r])
  <2>1. seen[r] = NoRow /\ rows[staged[r].booking] = NoRow
    BY <1>1, <1>2 DEF TypeInv, Phases, Phase, HasRead, SlotInv, LockInv, ReadsCurrent
  <2>2. staged[r].row = NoRow \/ staged[r].row = NewRow(cmd[r])
    BY <1>2 DEF VerdictInv, StagesVerdict, VerdictSince, CreateVerdict, Verdict
  <2> QED
    BY <1>1, <1>2, <2>1, <2>2, NewRowType DEF Writes
<1>3. CASE ~IsCreate(cmd[r])
  BY <1>1, <1>3 DEF TypeInv, Phases, Phase, HasRead, Started, InTransaction,
                    SlotInv, LockInv, ReadsCurrent, StageInv, StagesRevision
<1> QED
  BY <1>2, <1>3

LEMMA FirstEntry ==
  ASSUME NEW b \in Bookings, NEW e, rows'[b] \in Row, rows'[b].version = 1,
         rows'[b].status = "CONFIRMED",
         e.version = 1, e.status = "CONFIRMED", EntriesOf(b)' = {e}
  PROVE  Journalled(b)'
<1>1. IsFiniteSet({e}) /\ Cardinality({e}) = 1
  BY FS_Singleton
<1>2. {f.version : f \in {e}} = 1..1
  OBVIOUS
<1> QED
  BY <1>1, <1>2, NullAssumption DEF Journalled

LEMMA NextEntry ==
  ASSUME NEW b \in Bookings, Journalled(b), NEW e,
         rows[b] \in Row, rows'[b] \in Row, rows[b].status = "CONFIRMED",
         rows'[b].version = rows[b].version + 1,
         e.version = rows'[b].version, e.status = rows'[b].status,
         EntriesOf(b)' = EntriesOf(b) \cup {e}
  PROVE  Journalled(b)'
<1> DEFINE entries == EntriesOf(b)
           v == rows[b].version
<1>1. /\ v \in Nat \ {0} /\ rows[b] # NoRow /\ rows'[b] # NoRow
      /\ IsFiniteSet(entries) /\ Cardinality(entries) = v
      /\ {f.version : f \in entries} = 1..v
      /\ \A f \in entries : f.status = "CONFIRMED"
  BY NullAssumption DEF Journalled, Row
<1>2. \A f \in entries : f.version \in 1..v
  BY <1>1
<1>3. e \notin entries
  BY <1>1, <1>2
<1>4. IsFiniteSet(entries \cup {e}) /\ Cardinality(entries \cup {e}) = v + 1
  BY <1>1, <1>3, FS_AddElement
<1>5. {f.version : f \in entries \cup {e}} = 1..(v + 1)
  <2>1. {f.version : f \in entries \cup {e}} = {f.version : f \in entries} \cup {v + 1}
    OBVIOUS
  <2> QED
    BY <1>1, <2>1
<1>6. \A f \in entries \cup {e} :
        f.status = IF f.version = v + 1 THEN rows'[b].status ELSE "CONFIRMED"
  BY <1>1, <1>2
<1> QED
  BY <1>1, <1>4, <1>5, <1>6 DEF Journalled

LEMMA NextJournal ==
  ASSUME SlotInv, VerdictInv, JournalInv, [Next]_vars
  PROVE  JournalInv'
<1>1. TypeInv /\ TypeOK
  BY DEF SlotInv, TypeInv
<1>2. ASSUME NEW b \in Bookings, rows'[b] = rows[b], EntriesOf(b)' = EntriesOf(b)
      PROVE  Journalled(b)'
  BY <1>2 DEF JournalInv, Journalled
<1>3. CASE UNCHANGED <<rows, journal>>
  BY <1>2, <1>3 DEF JournalInv, EntriesOf
<1>4. ASSUME NEW r \in Requests, Commit(r), NEW b \in Bookings PROVE Journalled(b)'
  <2> DEFINE row == staged[r].row
             e == [booking |-> staged[r].booking, version |-> row.version,
                   status |-> row.status, by |-> r]
  <2>1. /\ pc[r] = "staged" /\ cmd[r] \in Commands /\ staged[r].booking \in Bookings
        /\ rows' = (IF Writes(r) THEN [rows EXCEPT ![staged[r].booking] = row] ELSE rows)
        /\ journal' = journal \cup (IF Writes(r) THEN {e} ELSE {})
    BY <1>1, <1>4, CommitStores DEF Commit, JournalEntries, TypeInv, Phases, Phase
  <2>2. CASE ~Writes(r) \/ b # staged[r].booking
    <3>1. rows'[b] = rows[b]
      BY <1>1, <2>1, <2>2 DEF TypeOK
    <3>2. EntriesOf(b)' = EntriesOf(b)
      BY <2>1, <2>2 DEF EntriesOf
    <3> QED
      BY <1>2, <3>1, <3>2
  <2>3. CASE Writes(r) /\ b = staged[r].booking
    <3>1. rows'[b] = row /\ e.version = row.version /\ e.status = row.status
      BY <1>1, <2>1, <2>3 DEF TypeOK
    <3>2. EntriesOf(b)' = EntriesOf(b) \cup {e}
      BY <2>1, <2>3 DEF EntriesOf
    <3>3. row \in Row /\ Journalled(b)
      BY <2>1, <2>3, StagedRow DEF JournalInv
    <3> HIDE DEF e
    <3>4. CASE IsCreate(cmd[r])
      <4>1. rows[b] = NoRow /\ row = NewRow(cmd[r])
        BY <2>1, <2>3, <3>4, StagedRow
      <4>2. EntriesOf(b) = {} /\ row.version = 1 /\ row.status = "CONFIRMED"
        BY <3>3, <4>1 DEF Journalled, NewRow
      <4> QED
        BY <3>1, <3>2, <3>3, <4>2, FirstEntry
    <3>5. CASE ~IsCreate(cmd[r])
      <4>1. /\ rows[b] \in Row /\ rows[b].status = "CONFIRMED"
            /\ row.version = rows[b].version + 1
        BY <2>1, <2>3, <3>5, StagedRow DEF Revises
      <4> QED
        BY <3>1, <3>2, <3>3, <4>1, NextEntry
    <3> QED
      BY <3>4, <3>5
  <2> QED
    BY <2>2, <2>3
<1> QED
  BY <1>3, <1>4, DataSteps DEF JournalInv

-----------------------------------------------------------------------------
(* Results are stored once, and answers come from them. *)

\* What a commit leaves: the staged row, and the result as receipt and answer.
LEMMA CommitResult ==
  ASSUME SlotInv, ReceiptInv, NEW r \in Requests, Commit(r)
  PROVE  LET id == ReceiptId(cmd[r])
             response == Response(staged[r].booking, staged[r])
         IN  /\ pc[r] = "staged" /\ cmd[r] \in Commands /\ id \in ReceiptIds
             /\ staged[r].booking \in Bookings
             /\ UNCHANGED <<clock, cmd>> /\ pc'[r] = "committed"
             /\ rows' = [rows EXCEPT ![staged[r].booking] = staged[r].row]
             /\ receipts[id] = NoReceipt
             /\ receipts' = [receipts EXCEPT ![id] =
                  [state |-> "COMPLETED", cmd |-> cmd[r], response |-> response]]
             /\ answer'[r] = response /\ response \in Responses
<1> DEFINE b == staged[r].booking
<1>1. /\ pc[r] = "staged" /\ cmd[r] \in Commands /\ UNCHANGED <<clock, cmd>>
      /\ TypeInv /\ TypeOK /\ b \in Bookings
  BY DEF SlotInv, TypeInv, Phases, Phase, Commit
<1>2. rows' = [rows EXCEPT ![b] = staged[r].row]
  <2>1. rows \in [Bookings -> Row \cup {NoRow}]
    BY <1>1 DEF TypeOK
  <2>2. CASE Writes(r)
    BY <2>2, CommitStores
  <2>3. CASE ~Writes(r)
    <3>1. staged[r].row = seen[r]
      BY <1>1, <2>3 DEF Writes, TypeInv, Phases, Phase
    <3>2. seen[r] = rows[b]
      BY <1>1 DEF TypeInv, Phases, Phase, HasRead, SlotInv, LockInv, ReadsCurrent
    <3>3. rows' = rows
      BY <2>3 DEF Commit
    <3> QED
      BY <1>1, <2>1, <3>1, <3>2, <3>3
  <2> QED
    BY <2>2, <2>3
<1>3. ReceiptId(cmd[r]) \in ReceiptIds
  BY <1>1, CommandShape
<1>4. receipts[ReceiptId(cmd[r])] = NoReceipt
  BY <1>1 DEF ReceiptInv, InTransaction
<1>5. Response(b, staged[r]) \in Responses
  <2>1. staged[r] \in Staged
    BY <1>1 DEF TypeInv, TypeOK, Phases, Phase
  <2>2. staged[r].code \in Codes /\ staged[r].row \in Row \cup {NoRow}
    BY <2>1 DEF Staged
  <2> QED
    BY <1>1, <2>2, ResponseType
<1>6. /\ pc'[r] = "committed"
      /\ answer'[r] = Response(b, staged[r])
      /\ receipts' = [receipts EXCEPT ![ReceiptId(cmd[r])] =
           [state |-> "COMPLETED", cmd |-> cmd[r], response |-> Response(b, staged[r])]]
  BY <1>1 DEF Commit, Answer, TypeOK
<1> QED
  BY <1>1, <1>2, <1>3, <1>4, <1>5, <1>6

\* A stored result keeps its command and its response.
LEMMA ReceiptsStay ==
  ASSUME SlotInv, ReceiptInv, [Next]_vars, NEW id \in ReceiptIds, receipts[id] # NoReceipt
  PROVE  /\ receipts'[id] # NoReceipt
         /\ receipts'[id].cmd = receipts[id].cmd
         /\ receipts'[id].response = receipts[id].response
<1>1. receipts \in [ReceiptIds -> Receipt \cup {NoReceipt}]
  BY DEF SlotInv, TypeInv, TypeOK
<1>2. ASSUME NEW r \in Requests, Commit(r) PROVE receipts'[id] = receipts[id]
  BY <1>1, <1>2, CommitResult
<1>3. ASSUME NEW i \in ReceiptIds, Redact(i), i = id
      PROVE  /\ receipts'[id] \in Receipt
             /\ receipts'[id].cmd = receipts[id].cmd
             /\ receipts'[id].response = receipts[id].response
  BY <1>1, <1>3 DEF Redact, Receipt
<1>4. ASSUME NEW i \in ReceiptIds, Redact(i), i # id PROVE receipts'[id] = receipts[id]
  BY <1>1, <1>4 DEF Redact
<1> QED
  BY <1>2, <1>3, <1>4, DataSteps, NullValuesAssumption

\* A request whose transaction is over keeps its command and its answer.
LEMMA DoneSteps ==
  ASSUME TypeInv, [Next]_vars, NEW q \in Requests, pc[q] \in {"committed", "settled", "lost"}
  PROVE  /\ pc'[q] \in {"committed", "settled", "lost"} /\ cmd'[q] = cmd[q]
         /\ pc'[q] # "lost" => pc[q] # "lost" /\ answer'[q] = answer[q]
<1>1. CASE Rests(q)
  BY <1>1 DEF Rests
<1>2. CASE Acts(q)
  BY <1>2 DEF Acts, Proceed, Submit, RefuseUnknownBooking, ClaimReceipt, Replay,
              LockBarber, LockBooking, RejectCreate, DecideCreate, DecideChange,
              Commit, Deliver, Timeout, Retry, GiveUp, Crash, Rollback,
              InTransaction, TypeInv, TypeOK
<1> QED
  BY <1>1, <1>2, OneActs

\* An entry of the journal is older, or a commit makes it now.
LEMMA JournalSteps ==
  ASSUME SlotInv, VerdictInv, [Next]_vars, NEW e \in journal', e \notin journal
  PROVE  \E r \in Requests :
           /\ Commit(r) /\ e.by = r
           /\ e.booking = staged[r].booking /\ e.version = staged[r].row.version
           /\ staged[r].row \in Row
           /\ \A f \in journal' : f \notin journal => f = e
<1>1. PICK r \in Requests : Commit(r)
  BY DataSteps DEF SlotInv
<1>2. Writes(r) /\ pc[r] = "staged"
  BY <1>1 DEF Commit, JournalEntries
<1>3. journal' = journal \cup {[booking |-> staged[r].booking, version |-> staged[r].row.version,
                                status |-> staged[r].row.status, by |-> r]}
  BY <1>1, <1>2 DEF Commit, JournalEntries
<1> QED
  BY <1>1, <1>2, <1>3, StagedRow

LEMMA NextEffects ==
  ASSUME SlotInv, VerdictInv, ReceiptInv, EffectInv, [Next]_vars
  PROVE  EffectInv'
<1>1. TypeInv /\ TypeOK /\ TypeOK'
  BY NextType DEF SlotInv, TypeInv
<1>2. ASSUME NEW e \in journal, e.by # Earlier
      PROVE  /\ e.by \in Requests /\ ReceiptId(cmd[e.by]) \in ReceiptIds
             /\ cmd'[e.by] = cmd[e.by]
             /\ receipts[ReceiptId(cmd[e.by])] # NoReceipt
             /\ receipts'[ReceiptId(cmd[e.by])] # NoReceipt
             /\ pc'[e.by] \in {"committed", "settled", "lost"}
             /\ pc'[e.by] # "lost" => Answered(e.by, e)'
  <2>1. e.by \in Requests /\ pc[e.by] \in {"committed", "settled", "lost"}
    BY <1>1, <1>2 DEF TypeOK, Entry, EffectInv
  <2>2. cmd[e.by] \in Commands
    BY <1>1, <2>1 DEF TypeInv, Phases, Phase
  <2>3. receipts[ReceiptId(cmd[e.by])] # NoReceipt
    BY <1>2 DEF EffectInv, OneEffectPerReceipt
  <2> QED
    BY <1>1, <1>2, <2>1, <2>2, <2>3, CommandShape, DoneSteps, ReceiptsStay
       DEF EffectInv, Answered
<1>3. ASSUME NEW e \in journal', e \notin journal
      PROVE  /\ e.by \in Requests /\ cmd'[e.by] = cmd[e.by]
             /\ ReceiptId(cmd[e.by]) \in ReceiptIds
             /\ receipts[ReceiptId(cmd[e.by])] = NoReceipt
             /\ receipts'[ReceiptId(cmd[e.by])] # NoReceipt
             /\ pc'[e.by] = "committed" /\ Answered(e.by, e)'
             /\ \A f \in journal' : f \notin journal => f = e
  <2>1. PICK r \in Requests :
          /\ Commit(r) /\ e.by = r
          /\ e.booking = staged[r].booking /\ e.version = staged[r].row.version
          /\ staged[r].row \in Row
          /\ \A f \in journal' : f \notin journal => f = e
    BY <1>3, JournalSteps
  <2>2. /\ cmd' = cmd /\ pc'[r] = "committed" /\ ReceiptId(cmd[r]) \in ReceiptIds
        /\ answer'[r] = Response(staged[r].booking, staged[r])
        /\ receipts[ReceiptId(cmd[r])] = NoReceipt
    BY <2>1, CommitResult
  <2>3. receipts'[ReceiptId(cmd[r])] # NoReceipt
    <3>1. [state |-> "COMPLETED", cmd |-> cmd[r],
           response |-> Response(staged[r].booking, staged[r])] \in Receipt
      BY <2>1, CommitResult DEF Receipt
    <3> QED
      BY <1>1, <2>1, <3>1, CommitResult, NullValuesAssumption DEF TypeOK
  <2>4. Answered(r, e)'
    BY <2>1, <2>2, NullAssumption DEF Answered, Response
  <2> QED
    BY <2>1, <2>2, <2>3, <2>4
<1>4. ASSUME NEW e \in journal', NEW f \in journal', e.by # Earlier, f.by # Earlier,
             ReceiptId(cmd'[e.by]) = ReceiptId(cmd'[f.by])
      PROVE  e = f
  <2>1. CASE e \in journal /\ f \in journal
    BY <1>2, <1>4, <2>1 DEF EffectInv, OneEffectPerReceipt
  <2>2. CASE e \notin journal /\ f \notin journal
    BY <1>3, <2>2
  <2>3. CASE e \in journal <=> f \notin journal
    BY <1>2, <1>3, <1>4, <2>3
  <2> QED
    BY <2>1, <2>2, <2>3
<1>5. \A e \in journal' : e.by # Earlier =>
        /\ receipts'[ReceiptId(cmd'[e.by])] # NoReceipt
        /\ pc'[e.by] \in {"committed", "settled", "lost"}
        /\ pc'[e.by] # "lost" => Answered(e.by, e)'
  BY <1>2, <1>3
<1> QED
  BY <1>4, <1>5 DEF EffectInv, OneEffectPerReceipt

LEMMA ErrorsAreNoResults ==
  ASSUME NEW code \in ErrorCodes
  PROVE  Error(code) \notin Responses /\ Error(code).code \notin Successes
BY DEF Error, ErrorCodes, Responses, Codes, Successes, Terminal

\* Where the answers of a request come from.
LEMMA AnswerSteps ==
  ASSUME SlotInv, ReceiptInv, AnswerInv, [Next]_vars, NEW q \in Requests,
         answer'[q] \in Responses
  PROVE  /\ cmd'[q] \in Commands /\ cmd'[q] = cmd[q]
         /\ \/ answer'[q] = answer[q]
            \/ Commit(q)
            \/ LET receipt == receipts[ReceiptId(cmd[q])]
               IN  /\ Replay(q) /\ receipt # NoReceipt
                   /\ receipt.cmd = cmd[q] /\ receipt.response = answer'[q]
<1>1. TypeInv /\ TypeOK /\ TypeInv' /\ TypeOK'
  BY NextType DEF SlotInv, TypeInv
<1>2. NoAnswer \notin Responses
  BY NullValuesAssumption DEF Answers
<1>3. \A code \in ErrorCodes : answer'[q] # Error(code)
  BY ErrorsAreNoResults
<1>4. CASE Rests(q)
  <2>1. pc[q] # "idle"
    BY <1>2, <1>4 DEF Rests, AnswerInv
  <2> QED
    BY <1>1, <1>4, <2>1 DEF Rests, TypeInv, Phases, Phase
<1>5. ASSUME NEW c \in Commands, Submit(q, c) \/ RefuseUnknownBooking(q, c) PROVE FALSE
  BY <1>1, <1>2, <1>3, <1>5
     DEF Submit, RefuseUnknownBooking, Answer, ErrorCodes, AnswerInv, TypeOK
<1>6. ASSUME RejectCreate(q) \/ Timeout(q) \/ GiveUp(q) \/ Crash(q) PROVE FALSE
  BY <1>1, <1>2, <1>3, <1>6
     DEF RejectCreate, Timeout, GiveUp, Crash, Answer, ErrorCodes, TypeOK
<1>7. CASE \/ ClaimReceipt(q) \/ LockBarber(q) \/ LockBooking(q) \/ Deliver(q) \/ Retry(q)
           \/ (\E b \in Bookings : DecideCreate(q, b)) \/ DecideChange(q)
  <2>1. answer' = answer /\ cmd' = cmd /\ pc[q] # "idle"
    BY <1>7 DEF ClaimReceipt, LockBarber, LockBooking, Deliver, Retry, Rollback,
                DecideCreate, DecideChange, Stage, InTransaction
  <2> QED
    BY <1>1, <2>1 DEF TypeInv, Phases, Phase
<1>8. CASE Commit(q)
  BY <1>8, CommitResult
<1>9. CASE Replay(q)
  <2>1. /\ pc[q] = "begin" /\ cmd' = cmd /\ receipts[ReceiptId(cmd[q])] # NoReceipt
        /\ answer'[q] = ReplayedAnswer(receipts[ReceiptId(cmd[q])], cmd[q])
    BY <1>1, <1>9 DEF Replay, Answer, TypeOK
  <2>2. /\ receipts[ReceiptId(cmd[q])].cmd = cmd[q]
        /\ receipts[ReceiptId(cmd[q])].response = answer'[q]
    BY <1>3, <2>1 DEF ReplayedAnswer, ErrorCodes
  <2> QED
    BY <1>1, <1>9, <2>1, <2>2 DEF TypeInv, Phases, Phase
<1> QED
  BY <1>4, <1>5, <1>6, <1>7, <1>8, <1>9, OneActs, <1>1 DEF Acts, Proceed

LEMMA NextAnswers ==
  ASSUME SlotInv, ReceiptInv, AnswerInv, [Next]_vars
  PROVE  AnswerInv'
<1>1. TypeInv /\ TypeOK
  BY DEF SlotInv, TypeInv
<1>2. ASSUME NEW q \in Requests, pc'[q] \in {"idle"} \cup Started
      PROVE  answer'[q] = NoAnswer
  <2>1. CASE Rests(q)
    BY <1>2, <2>1 DEF Rests, AnswerInv
  <2>2. CASE Acts(q)
    <3>1. /\ answer'[q] = answer[q] /\ pc[q] \in {"idle"} \cup Started
      BY <1>1, <1>2, <2>2
         DEF Acts, Proceed, Submit, RefuseUnknownBooking, ClaimReceipt, Replay,
             LockBarber, LockBooking, RejectCreate, DecideCreate, DecideChange,
             Stage, Commit, Deliver, Timeout, Retry, GiveUp, Crash, Rollback,
             Started, InTransaction, TypeOK
    <3> QED
      BY <3>1 DEF AnswerInv
  <2> QED
    BY <1>1, <2>1, <2>2, OneActs
<1>3. ASSUME NEW q \in Requests, answer'[q] \in Responses
      PROVE  /\ receipts'[ReceiptId(cmd'[q])] # NoReceipt
             /\ receipts'[ReceiptId(cmd'[q])].cmd = cmd'[q]
             /\ receipts'[ReceiptId(cmd'[q])].response = answer'[q]
  <2>1. cmd[q] \in Commands /\ cmd'[q] = cmd[q] /\ ReceiptId(cmd[q]) \in ReceiptIds
    BY <1>3, AnswerSteps, CommandShape
  <2>2. CASE Commit(q)
    <3> DEFINE result == [state |-> "COMPLETED", cmd |-> cmd[q], response |-> answer'[q]]
    <3>1. receipts' = [receipts EXCEPT ![ReceiptId(cmd[q])] = result]
      BY <2>2, CommitResult
    <3>2. result \in Receipt
      BY <1>3, <2>1 DEF Receipt
    <3> QED
      BY <1>1, <2>1, <3>1, <3>2, NullValuesAssumption DEF TypeOK
  <2>3. CASE /\ receipts[ReceiptId(cmd[q])] # NoReceipt
             /\ receipts[ReceiptId(cmd[q])].cmd = cmd[q]
             /\ receipts[ReceiptId(cmd[q])].response = answer'[q]
    BY <2>1, <2>3, ReceiptsStay
  <2> QED
    BY <1>3, <2>2, <2>3, AnswerSteps DEF AnswerInv
<1> QED
  BY <1>2, <1>3 DEF AnswerInv, Started, InTransaction

\* A success is about a booking that exists: its row is the staged one.
LEMMA SuccessHasRow ==
  ASSUME SlotInv, VerdictInv, NEW r \in Requests, pc[r] = "staged",
         staged[r].code \in Successes
  PROVE  staged[r].row \in Row
<1>1. TypeInv /\ cmd[r] \in Commands
  BY DEF SlotInv, TypeInv, Phases, Phase
<1>2. CASE IsCreate(cmd[r])
  <2>1. /\ staged[r].code = CreateVerdict(cmd[r], staged[r].booking, rows).code
        /\ staged[r].row = CreateVerdict(cmd[r], staged[r].booking, rows).row
    BY <1>2 DEF VerdictInv, StagesVerdict, VerdictSince
  <2>2. staged[r].row = NewRow(cmd[r])
    BY <2>1 DEF CreateVerdict, Verdict, Successes, Terminal
  <2> QED
    BY <1>1, <1>2, <2>2, NewRowType
<1>3. CASE ~IsCreate(cmd[r])
  BY <1>1, <1>3 DEF TypeInv, Phases, Phase
<1> QED
  BY <1>2, <1>3

LEMMA NextStored ==
  ASSUME SlotInv, VerdictInv, ReceiptInv, JournalInv', StoredInv, [Next]_vars
  PROVE  StoredInv'
<1> SUFFICES ASSUME NEW id \in ReceiptIds, receipts'[id] # NoReceipt,
                    receipts'[id].response.code \in Successes
             PROVE  \E e \in journal' : /\ e.booking = receipts'[id].response.booking
                                        /\ e.version = receipts'[id].response.version
  BY DEF StoredInv
<1>1. TypeInv /\ TypeOK
  BY DEF SlotInv, TypeInv
<1>2. CASE receipts[id] # NoReceipt
  <2>1. receipts'[id].response = receipts[id].response
    BY <1>2, ReceiptsStay
  <2>2. journal \subseteq journal'
    BY <1>1, DataSteps DEF Commit
  <2> QED
    BY <1>2, <2>1, <2>2 DEF StoredInv
<1>3. CASE receipts[id] = NoReceipt
  <2>1. PICK r \in Requests : Commit(r)
    BY <1>1, <1>3, DataSteps DEF Redact, TypeOK
  <2> DEFINE row == staged[r].row
  <2>2. PICK b \in Bookings : b = staged[r].booking
    BY <2>1, CommitResult
  <2>3. /\ pc[r] = "staged"
        /\ rows' = [rows EXCEPT ![b] = row]
        /\ receipts'[id].response = Response(b, staged[r])
    BY <1>1, <1>3, <2>1, <2>2, CommitResult DEF TypeOK
  <2>4. row \in Row
    <3>1. staged[r].code \in Successes
      BY <2>3 DEF Response
    <3> QED
      BY <2>1, <2>3, <3>1, SuccessHasRow
  <2>5. /\ receipts'[id].response.booking = b
        /\ receipts'[id].response.version = row.version
    BY <2>3, <2>4, NullAssumption DEF Response
  <2>6. rows'[b] = row /\ rows'[b] # NoRow /\ row.version \in 1..row.version
    BY <1>1, <2>3, <2>4, NullAssumption DEF TypeOK, Row
  <2>7. {e.version : e \in EntriesOf(b)'} = 1..row.version
    BY <2>6 DEF JournalInv, Journalled
  <2>8. PICK e \in EntriesOf(b)' : e.version = row.version
    BY <2>6, <2>7
  <2> QED
    BY <2>5, <2>8 DEF EntriesOf
<1> QED
  BY <1>2, <1>3

-----------------------------------------------------------------------------
(* The invariants hold together. *)

LEMMA InitLedger == Init => LedgerInv
<1> SUFFICES ASSUME Init PROVE LedgerInv
  OBVIOUS
<1>1. SlotInv
  BY InitSlots
<1>2. /\ \A r \in Requests : pc[r] = "idle" /\ answer[r] = NoAnswer
      /\ \A id \in ReceiptIds : receipts[id] = NoReceipt
      /\ rows = Existing /\ clock = 0
      /\ journal = {[booking |-> b, version |-> 1, status |-> "CONFIRMED", by |-> Earlier] :
                      b \in {x \in Bookings : Existing[x] # NoRow}}
  BY DEF Init
<1>3. VerdictInv /\ ReceiptInv /\ StoredInv
  BY <1>2 DEF VerdictInv, StagesVerdict, VerdictSince, ReceiptInv, InTransaction, StoredInv
<1>4. OutcomesFollowVisits
  BY <1>2, ExistingAssumption DEF OutcomesFollowVisits
<1>5. EffectInv
  BY <1>2 DEF EffectInv, OneEffectPerReceipt
<1>6. AnswerInv
  BY <1>2, NullValuesAssumption DEF AnswerInv, Answers
<1>7. ASSUME NEW b \in Bookings PROVE Journalled(b)
  <2> DEFINE e == [booking |-> b, version |-> 1, status |-> "CONFIRMED", by |-> Earlier]
  <2>1. CASE rows[b] = NoRow
    <3>1. EntriesOf(b) = {}
      BY <1>2, <2>1 DEF EntriesOf
    <3> QED
      BY <2>1, <3>1, FS_EmptySet DEF Journalled
  <2>2. CASE rows[b] # NoRow
    <3>1. EntriesOf(b) = {e} /\ rows[b].version = 1 /\ rows[b].status = "CONFIRMED"
      BY <1>2, <2>2, ExistingAssumption DEF EntriesOf
    <3>2. IsFiniteSet({e}) /\ Cardinality({e}) = 1
      BY FS_Singleton
    <3>3. {f.version : f \in {e}} = 1..1
      OBVIOUS
    <3> QED
      BY <2>2, <3>1, <3>2, <3>3 DEF Journalled
  <2> QED
    BY <2>1, <2>2
<1> QED
  BY <1>1, <1>3, <1>4, <1>5, <1>6, <1>7 DEF LedgerInv, JournalInv

LEMMA NextLedger == LedgerInv /\ [Next]_vars => LedgerInv'
<1> SUFFICES ASSUME LedgerInv, [Next]_vars PROVE LedgerInv'
  OBVIOUS
<1> USE DEF LedgerInv
<1>1. TypeInv
  BY DEF SlotInv
<1>2. SlotInv' /\ VerdictInv' /\ OutcomesFollowVisits'
  BY NextSlots, NextVerdicts, NextOutcomes
<1>3. ReceiptInv' /\ EffectInv' /\ AnswerInv'
  BY <1>1, NextReceipts, NextEffects, NextAnswers
<1>4. JournalInv' /\ StoredInv'
  BY NextJournal, NextStored
<1> QED
  BY <1>2, <1>3, <1>4

LEMMA LedgerInvHolds == Spec => []LedgerInv
BY InitLedger, NextLedger, PTL DEF Spec

-----------------------------------------------------------------------------
(* The theorems. *)

\* Every change of a booking is journalled exactly once and nothing else is: the
\* entries of a booking are its versions, the last one with its current status,
\* through any number of retries, crashes and replays (INV-08).
THEOREM JournalIsExact == Spec => []JournalFollowsVersions
<1>1. LedgerInv => JournalFollowsVersions
  BY DEF LedgerInv, JournalInv, Journalled, EntriesOf, JournalFollowsVersions
<1> QED
  BY <1>1, LedgerInvHolds, PTL

\* Requests with the same key and operation change a booking at most once, also
\* after the result is redacted, and a change is never without its receipt.
THEOREM EffectsComeOnce == Spec => []OneEffectPerReceipt
<1>1. LedgerInv => OneEffectPerReceipt
  BY DEF LedgerInv, EffectInv
<1> QED
  BY <1>1, LedgerInvHolds, PTL

\* Two clients that get results under one key get the same result, and only for
\* the same payload, whoever of them ran first and whatever was retried.
THEOREM DuplicatesAgree == Spec => []RepliesAgree
<1>1. LedgerInv => RepliesAgree
  BY DEF LedgerInv, AnswerInv, RepliesAgree
<1> QED
  BY <1>1, LedgerInvHolds, PTL

\* What clients are told is what the journal says: a change is never answered
\* with an error, and a success, replayed or fresh, names a version that exists.
THEOREM AnswersAreTrue == Spec => []AnswersMatchJournal
<1>1. ASSUME LedgerInv PROVE AnswersMatchJournal
  <2>1. \A e \in journal : e.by # Earlier /\ pc[e.by] = "settled" =>
          answer[e.by].booking = e.booking /\ answer[e.by].version = e.version
    BY <1>1 DEF LedgerInv, EffectInv, Answered
  <2>2. ASSUME NEW r \in Requests, answer[r] # NoAnswer, answer[r].code \in Successes
        PROVE  \E e \in journal :
                 e.booking = answer[r].booking /\ e.version = answer[r].version
    <3>1. answer[r] \in Answers /\ TypeInv
      BY <1>1, <2>2 DEF LedgerInv, SlotInv, TypeInv, TypeOK
    <3>2. answer[r] \in Responses
      BY <2>2, <3>1, ErrorsAreNoResults DEF Answers
    <3>3. /\ receipts[ReceiptId(cmd[r])] # NoReceipt
          /\ receipts[ReceiptId(cmd[r])].response = answer[r]
      BY <1>1, <3>2 DEF LedgerInv, AnswerInv
    <3>4. ReceiptId(cmd[r]) \in ReceiptIds
      <4>1. pc[r] # "idle"
        BY <1>1, <2>2 DEF LedgerInv, AnswerInv
      <4> QED
        BY <3>1, <4>1, CommandShape DEF TypeInv, Phases, Phase
    <3> QED
      BY <1>1, <2>2, <3>3, <3>4 DEF LedgerInv, StoredInv
  <2> QED
    BY <2>1, <2>2 DEF AnswersMatchJournal, Successes
<1> QED
  BY <1>1, LedgerInvHolds, PTL

\* No visit has an outcome before its end, although it may be moved while the
\* outcome command waits for its locks.
THEOREM OutcomesComeAfterVisits == Spec => []OutcomesFollowVisits
<1>1. LedgerInv => OutcomesFollowVisits
  BY DEF LedgerInv
<1> QED
  BY <1>1, LedgerInvHolds, PTL

-----------------------------------------------------------------------------
(* The commands implement the ledger. *)

\* The ledger decides by the same rules.
LEMMA LedgerShapes ==
  ASSUME NEW c, NEW b, NEW row, NEW other, NEW table, NEW now
  PROVE  /\ Ledger!IsCreate(c) <=> IsCreate(c)
         /\ Ledger!ReceiptId(c) = ReceiptId(c)
         /\ Ledger!NewRow(c) = NewRow(c)
         /\ Ledger!NextVersion(row) = NextVersion(row)
         /\ Ledger!End(row) = End(row)
         /\ Ledger!Response(b, row) = Response(b, row)
BY DEF Ledger!IsCreate, IsCreate, Ledger!ReceiptId, ReceiptId, Ledger!NewRow, NewRow,
       Ledger!NextVersion, NextVersion, Ledger!End, End, Ledger!Response, Response

LEMMA LedgerSlots ==
  ASSUME NEW b, NEW row, NEW table, NEW start, NEW now
  PROVE  /\ Ledger!ValidStart(start, now) <=> ValidStart(start, now)
         /\ Ledger!FitsSchedule(row) <=> FitsSchedule(row)
         /\ Ledger!SlotTaken(table, b, row) <=> SlotTaken(table, b, row)
BY DEF Ledger!ValidStart, ValidStart, Ledger!FitsSchedule, FitsSchedule, Ledger!End, End,
       Ledger!SlotTaken, SlotTaken, Ledger!Clash, Clash, Ledger!Live, Live,
       Ledger!Overlap, Overlap

LEMMA LedgerVerdicts ==
  ASSUME NEW c, NEW b, NEW row, NEW table, NEW now
  PROVE  /\ Ledger!BreaksCreateRules(c, now) <=> BreaksCreateRules(c, now)
         /\ Ledger!CreateVerdict(c, b, table) = CreateVerdict(c, b, table)
         /\ Ledger!ChangeVerdict(c, row, now, table) = ChangeVerdict(c, row, now, table)
<1>1. Ledger!BreaksCreateRules(c, now) <=> BreaksCreateRules(c, now)
  BY LedgerShapes, LedgerSlots DEF Ledger!BreaksCreateRules, BreaksCreateRules
<1>2. Ledger!CreateVerdict(c, b, table) = CreateVerdict(c, b, table)
  BY LedgerShapes, LedgerSlots
     DEF Ledger!CreateVerdict, CreateVerdict, Ledger!Verdict, Verdict
<1>3. Ledger!RescheduleVerdict(c, row, now, table) = RescheduleVerdict(c, row, now, table)
  BY LedgerShapes, LedgerSlots
     DEF Ledger!RescheduleVerdict, RescheduleVerdict, Ledger!Verdict, Verdict
<1>4. Ledger!CancelVerdict(c, row, now) = CancelVerdict(c, row, now)
  BY LedgerShapes DEF Ledger!CancelVerdict, CancelVerdict, Ledger!Verdict, Verdict
<1>5. Ledger!OutcomeVerdict(c, row, now) = OutcomeVerdict(c, row, now)
  BY LedgerShapes DEF Ledger!OutcomeVerdict, OutcomeVerdict, Ledger!Verdict, Verdict,
                      Ledger!OutcomeStatus, OutcomeStatus
<1> QED
  BY <1>1, <1>2, <1>3, <1>4, <1>5 DEF Ledger!ChangeVerdict, ChangeVerdict

\* A transaction that commits is the atomic command.
LEMMA CommitIsRecorded ==
  ASSUME LedgerInv, NEW r \in Requests, Commit(r)
  PROVE  \E c \in Commands :
           Ledger!PerformChange(c) \/ \E b \in Bookings : Ledger!PerformCreate(c, b)
<1> DEFINE c == cmd[r]
           b == staged[r].booking
           Records(v) == /\ receipts[ReceiptId(c)] = NoReceipt
                         /\ receipts' = [receipts EXCEPT ![ReceiptId(c)] =
                              [state |-> "COMPLETED", cmd |-> c, response |-> Response(b, v)]]
                         /\ rows' = [rows EXCEPT ![b] = v.row]
                         /\ UNCHANGED clock
<1>1. /\ pc[r] = "staged" /\ c \in Commands /\ b \in Bookings
      /\ Records(staged[r])
  BY CommitResult DEF LedgerInv
<1>2. TypeInv
  BY DEF LedgerInv, SlotInv
<1>3. \A v : v.code = staged[r].code /\ v.row = staged[r].row => Records(v)
  BY <1>1 DEF Response
<1>4. PICK at \in 0..clock :
        LET verdict == IF IsCreate(c) THEN CreateVerdict(c, b, rows)
                                      ELSE ChangeVerdict(c, seen[r], at, rows)
        IN  /\ staged[r].code = verdict.code /\ staged[r].row = verdict.row
            /\ IsCreate(c) => ~BreaksCreateRules(c, at)
  BY <1>1 DEF LedgerInv, VerdictInv, StagesVerdict, VerdictSince
<1>5. CASE IsCreate(c)
  <2>1. rows[b] = NoRow
    BY <1>1, <1>5 DEF LedgerInv, SlotInv, LockInv, ReadsCurrent
  <2>2. Records(CreateVerdict(c, b, rows))
    BY <1>3, <1>4, <1>5
  <2>3. Ledger!Record(c, b, CreateVerdict(c, b, rows))
    BY <2>2, LedgerShapes DEF Ledger!Record
  <2>4. Ledger!PerformCreate(c, b)
    BY <1>4, <1>5, <2>1, <2>3, LedgerShapes, LedgerVerdicts DEF Ledger!PerformCreate
  <2> QED
    BY <1>1, <2>4
<1>6. CASE ~IsCreate(c)
  <2>1. b = c.booking /\ seen[r] = rows[b] /\ seen[r] \in Row
    BY <1>1, <1>2, <1>6
       DEF TypeInv, Phases, Phase, HasRead, LedgerInv, SlotInv, LockInv, ReadsCurrent
  <2>2. Records(ChangeVerdict(c, rows[b], at, rows))
    BY <1>3, <1>4, <1>6, <2>1
  <2>3. Ledger!Record(c, b, ChangeVerdict(c, rows[b], at, rows))
    BY <2>2, LedgerShapes DEF Ledger!Record
  <2>4. Ledger!PerformChange(c)
    BY <1>6, <2>1, <2>3, LedgerShapes, LedgerVerdicts, NullAssumption
       DEF Ledger!PerformChange
  <2> QED
    BY <1>1, <2>4
<1> QED
  BY <1>5, <1>6

\* The refinement: for every client the service behaves like one that performs
\* each command at once.  A commit performs it, the housekeeping forgets its
\* result, and every lock, wait, retry and failure is a stutter.
THEOREM CommandsImplementTheLedger == Spec => ImplementsLedger
<1>1. Init => Ledger!Init
  BY DEF Init, Ledger!Init, Ledger!ReceiptIds, ReceiptIds, Ledger!Ops, Ops
<1>2. ASSUME LedgerInv, [Next]_vars PROVE [Ledger!Next]_(Ledger!ledger)
  <2>1. ASSUME NEW r \in Requests, Commit(r) PROVE Ledger!Next
    BY <1>2, <2>1, CommitIsRecorded DEF Ledger!Next
  <2>2. ASSUME NEW id \in ReceiptIds, Redact(id) PROVE Ledger!Next
    <3>1. Ledger!Forget(id)
      BY <2>2 DEF Redact, Ledger!Forget
    <3> QED
      BY <3>1 DEF Ledger!Next, Ledger!ReceiptIds, ReceiptIds, Ledger!Ops, Ops
  <2>3. CASE UNCHANGED <<rows, receipts>>
    <3>1. UNCHANGED clock \/ Tick
      BY <1>2 DEF Next, Proceed, Submit, RefuseUnknownBooking, ClaimReceipt, Replay,
         LockBarber, LockBooking, RejectCreate, DecideCreate, DecideChange,
         Stage, Commit, Deliver, Timeout, Retry, GiveUp, Crash, Rollback, Redact,
         AllFinished, vars
    <3> QED
      BY <2>3, <3>1 DEF Tick, Ledger!Next, Ledger!Tick, Ledger!ledger
  <2> QED
    BY <1>2, <2>1, <2>2, <2>3, DataSteps
<1> QED
  BY <1>1, <1>2, LedgerInvHolds, PTL DEF Spec, ImplementsLedger, Ledger!Spec

-----------------------------------------------------------------------------
(* Decisions come after the locks: LockTimes. *)

\* What was decided since the last lock stays decided since then.
LockTimeInv ==
  \A r \in Requests :
    /\ locked[r] \in Nat /\ locked[r] <= clock
    /\ VerdictSince(r, locked[r])
    /\ answer[r] = Error("RULE_VIOLATION") =>
         \E at \in locked[r]..clock : BreaksCreateRules(cmd[r], at)

\* A refusal is made by RejectCreate and stays.
LEMMA RefusalSteps ==
  ASSUME TypeInv, AnswerInv, [Next]_vars, NEW q \in Requests,
         answer'[q] = Error("RULE_VIOLATION")
  PROVE  \/ RejectCreate(q)
         \/ /\ answer[q] = answer'[q] /\ cmd'[q] = cmd[q]
            /\ pc[q] \notin {"idle"} \cup Started
<1> DEFINE no == Error("RULE_VIOLATION")
<1>1. TypeOK
  BY DEF TypeInv
<1>2. no \in Answers /\ no # NoAnswer
  BY NullValuesAssumption DEF Answers, ErrorCodes
<1>3. no \notin Responses
  BY ErrorsAreNoResults DEF ErrorCodes
<1>4. \A code \in ErrorCodes \ {"RULE_VIOLATION"} : Error(code) # no
  BY DEF Error
<1>5. answer[q] = no => pc[q] \notin {"idle"} \cup Started
  BY <1>2 DEF AnswerInv
<1>6. CASE Rests(q)
  BY <1>5, <1>6 DEF Rests
<1>7. ASSUME NEW c \in Commands, Submit(q, c) \/ RefuseUnknownBooking(q, c) PROVE FALSE
  <2>1. answer[q] # no
    BY <1>5, <1>7 DEF Submit, RefuseUnknownBooking
  <2> QED
    BY <1>1, <1>4, <1>7, <2>1 DEF Submit, RefuseUnknownBooking, Answer, ErrorCodes, TypeOK
<1>8. ASSUME Timeout(q) \/ GiveUp(q) \/ Crash(q) PROVE FALSE
  BY <1>1, <1>2, <1>4, <1>8 DEF Timeout, GiveUp, Crash, Answer, ErrorCodes, TypeOK
<1>9. CASE \/ ClaimReceipt(q) \/ LockBarber(q) \/ LockBooking(q) \/ Deliver(q) \/ Retry(q)
           \/ (\E b \in Bookings : DecideCreate(q, b)) \/ DecideChange(q)
  <2>1. answer' = answer /\ cmd' = cmd
    BY <1>9 DEF ClaimReceipt, LockBarber, LockBooking, Deliver, Retry, Rollback,
                DecideCreate, DecideChange, Stage
  <2> QED
    BY <1>5, <2>1
<1>10. ASSUME Commit(q) PROVE FALSE
  <2>1. answer'[q] = Response(staged[q].booking, staged[q])
    BY <1>1, <1>10 DEF Commit, Answer, TypeOK
  <2>2. pc[q] = "staged"
    BY <1>10 DEF Commit
  <2>3. staged[q] \in Staged
    BY <1>1, <2>2 DEF TypeInv, TypeOK, Phases, Phase
  <2>4. staged[q].code \in Codes
    BY <2>3 DEF Staged
  <2>5. answer'[q].code = staged[q].code
    BY <2>1 DEF Response
  <2> QED
    BY <2>4, <2>5 DEF Error, Codes, Terminal
<1>11. ASSUME Replay(q) PROVE FALSE
  <2>1. /\ receipts[ReceiptId(cmd[q])] # NoReceipt /\ pc[q] = "begin"
        /\ answer'[q] = ReplayedAnswer(receipts[ReceiptId(cmd[q])], cmd[q])
    BY <1>1, <1>11 DEF Replay, Answer, TypeOK
  <2>2. ReceiptId(cmd[q]) \in ReceiptIds
    BY <2>1, CommandShape DEF TypeInv, Phases, Phase
  <2>3. receipts[ReceiptId(cmd[q])].response \in Responses
    BY <1>1, <2>1, <2>2 DEF TypeOK, Receipt
  <2> QED
    BY <1>3, <1>4, <2>1, <2>3 DEF ReplayedAnswer, ErrorCodes
<1> QED
  BY <1>6, <1>7, <1>8, <1>9, <1>10, <1>11, OneActs DEF Acts, Proceed

LEMMA NextLockTimes ==
  ASSUME LedgerInv, LockTimeInv, [LockedNext]_<<vars, locked>>
  PROVE  LockTimeInv'
<1>1. [Next]_vars
  BY DEF LockedNext, vars
<1>2. SlotInv /\ AnswerInv /\ TypeInv /\ TypeOK
  BY DEF LedgerInv, SlotInv, TypeInv
<1>3. clock \in Nat /\ clock' \in Nat /\ clock <= clock'
  BY <1>1, <1>2, ClockSteps
<1> SUFFICES ASSUME NEW q \in Requests
             PROVE  /\ locked'[q] \in Nat /\ locked'[q] <= clock'
                    /\ VerdictSince(q, locked[q])'
                    /\ answer'[q] = Error("RULE_VIOLATION") =>
                         \E at \in locked'[q]..clock' : BreaksCreateRules(cmd'[q], at)
  BY DEF LockTimeInv
<1>4. PICK old \in Nat : old = locked[q]
  BY DEF LockTimeInv
<1>5. PICK new : new = locked'[q]
  OBVIOUS
<1>6. old <= clock /\ VerdictSince(q, old)
  BY <1>4 DEF LockTimeInv
<1>7. /\ new = old \/ new = clock \/ new = 0
      /\ ~TakesLock(q) /\ UnderLocks(q)' => new = old
  <2>1. CASE LockedNext
    BY <1>4, <1>5, <2>1 DEF LockedNext
  <2>2. CASE UNCHANGED <<vars, locked>>
    BY <1>4, <1>5, <2>2
  <2> QED
    BY <2>1, <2>2
<1>8. new \in Nat /\ new <= clock /\ new <= clock'
  BY <1>3, <1>6, <1>7
<1>9. VerdictSince(q, new)'
  <2>1. CASE pc'[q] # "staged"
    BY <2>1 DEF VerdictSince
  <2>2. CASE pc[q] = "staged" /\ Rests(q)
    <3>1. new = old
      BY <1>7, <2>2 DEF TakesLock, UnderLocks, Rests
    <3> QED
      BY <1>1, <1>2, <1>6, <2>2, <3>1, VerdictStays
  <2>3. CASE (\E b \in Bookings : DecideCreate(q, b)) \/ DecideChange(q)
    BY <1>2, <1>8, <2>3, FreshVerdict
  <2> QED
    BY <1>1, <1>2, <2>1, <2>2, <2>3, StagedSteps
<1>10. ASSUME answer'[q] = Error("RULE_VIOLATION")
       PROVE  \E at \in new..clock' : BreaksCreateRules(cmd'[q], at)
  <2>1. CASE RejectCreate(q)
    <3>1. BreaksCreateRules(cmd[q], clock) /\ clock' = clock /\ cmd' = cmd
      BY <2>1 DEF RejectCreate, Rollback
    <3> QED
      BY <1>3, <1>8, <3>1
  <2>2. CASE /\ answer[q] = answer'[q] /\ cmd'[q] = cmd[q]
             /\ pc[q] \notin {"idle"} \cup Started
    <3>1. new = old
      BY <1>7, <1>10, <2>2 DEF TakesLock, UnderLocks, Started, InTransaction
    <3>2. PICK at \in old..clock : BreaksCreateRules(cmd[q], at)
      BY <1>4, <1>10, <2>2 DEF LockTimeInv
    <3> QED
      BY <1>3, <2>2, <3>1, <3>2
  <2> QED
    BY <1>1, <1>2, <1>10, <2>1, <2>2, RefusalSteps
<1> QED
  BY <1>5, <1>8, <1>9, <1>10 DEF VerdictSince

\* Every command is decided by a time after its last lock, on the bookings it
\* commits to: nothing is gained by having asked before a wait.
THEOREM DecisionsComeAfterLocks == LockedSpec => []DecidesAfterItsLocks
<1>1. LockedInit => LedgerInv /\ LockTimeInv
  <2>1. ASSUME LockedInit PROVE LockTimeInv
    <3>1. \A r \in Requests : /\ pc[r] = "idle" /\ answer[r] = NoAnswer
                             /\ locked[r] = 0 /\ clock = 0
      BY <2>1 DEF LockedInit, Init
    <3>2. Error("RULE_VIOLATION") # NoAnswer
      BY NullValuesAssumption DEF Answers, ErrorCodes
    <3> QED
      BY <3>1, <3>2 DEF LockTimeInv, VerdictSince
  <2> QED
    BY <2>1, InitLedger DEF LockedInit
<1>2. LedgerInv /\ LockTimeInv /\ [LockedNext]_<<vars, locked>> => (LedgerInv /\ LockTimeInv)'
  <2>1. [LockedNext]_<<vars, locked>> => [Next]_vars
    BY DEF LockedNext, vars
  <2> QED
    BY <2>1, NextLedger, NextLockTimes
<1>3. ASSUME LedgerInv, LockTimeInv PROVE DecidesAfterItsLocks
  <2>1. ASSUME NEW r \in Requests, pc[r] = "staged"
        PROVE  \E at \in locked[r]..clock : DecidedAt(r, at)
    <3>1. ~IsCreate(cmd[r]) => seen[r] = rows[cmd[r].booking]
      BY <1>3, <2>1, CommandShape
         DEF LedgerInv, SlotInv, LockInv, ReadsCurrent, TypeInv, Phases, Phase, HasRead
    <3> QED
      BY <1>3, <2>1, <3>1 DEF LockTimeInv, VerdictSince, DecidedAt
  <2> QED
    BY <1>3, <2>1 DEF LockTimeInv, DecidesAfterItsLocks
<1> QED
  BY <1>1, <1>2, <1>3, PTL DEF LockedSpec
=============================================================================

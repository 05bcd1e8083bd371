--------------------------- MODULE CatalogChanges ---------------------------
(***************************************************************************)
(* Changes of the catalog and of the working schedule against booking      *)
(* commands.  update_service_offering, update_schedule_rule and            *)
(* update_schedule_exception lock the branch and then all of its barbers;  *)
(* the commands lock one barber, and then what their statements lock       *)
(* besides: SELECT ... FOR UPDATE with select_related("branch") locks the  *)
(* branch after the booking, and the deferred foreign keys of a new        *)
(* booking lock the branch FOR KEY SHARE at the commit.                    *)
(*                                                                         *)
(* Every transaction acquires the row locks of its plan one by one,        *)
(* decides, and commits.  A wait ends when the holder does, by the         *)
(* deadlock detector, or, in a command, by lock_timeout.                   *)
(***************************************************************************)
EXTENDS Integers, Sequences

CONSTANTS
  Transactions, \* executions of a command or of a change
  Jobs,         \* what they may be asked to do
  BarberOrder,  \* the barbers of the branch, ordered by id
  Bookings,     \* booking identities
  Existing,     \* the bookings at the start
  FirstShift,   \* barber -> the working interval <<from, to>> at the start
  FirstLength,  \* the length of the service at the start
  Branch,       \* the row of the branch
  MaxAttempts,  \* range(3) of the commands' retry loops
  MaxTime,      \* bound on the clock, for model checking
  Nobody,       \* a row that is not locked
  NoJob,        \* a transaction that has not begun
  NoRow         \* a booking that does not exist

Barbers == {BarberOrder[i] : i \in DOMAIN BarberOrder}
Interval == Nat \X Nat
Visit == [barber: Barbers, start: Nat, length: Nat \ {0}, cancelled: BOOLEAN]

\* Rows of three tables; the barbers come as the ordered list of a query.
ASSUME RowsAssumption ==
  /\ BarberOrder \in Seq(Barbers)
  /\ Branch \notin Barbers /\ Branch \notin Bookings /\ Barbers \cap Bookings = {}

ASSUME JobsAssumption ==
  /\ NoJob \notin Jobs /\ Nobody \notin Transactions
  /\ Jobs \subseteq
       [op: {"CREATE"}, barber: Barbers, start: Nat]
       \cup [op: {"RESCHEDULE"}, booking: Bookings, start: Nat]
       \cup [op: {"CANCEL"}, booking: Bookings]
       \cup [op: {"SERVICE"}, length: Nat \ {0}]
       \cup [op: {"SCHEDULE"}, barber: Barbers, shift: Interval]

\* The bookings at the start fit the schedule at the start.
ASSUME StartAssumption ==
  /\ FirstShift \in [Barbers -> Interval] /\ FirstLength \in Nat \ {0}
  /\ Existing \in [Bookings -> Visit \cup {NoRow}] /\ NoRow \notin Visit
  /\ \A b \in Bookings : Existing[b] # NoRow =>
       /\ FirstShift[Existing[b].barber][1] <= Existing[b].start
       /\ Existing[b].start + Existing[b].length <= FirstShift[Existing[b].barber][2]

VARIABLES
  clock,     \* clock_timestamp() of the database
  shifts,    \* barber -> the working interval in force
  length,    \* the length of the service in force
  bookings,  \* committed bookings
  owner,     \* row -> the transaction that holds FOR UPDATE on it
  pc,        \* where each transaction is
  job,       \* what it does
  taken,     \* how many locks of its plan it holds
  attempt,   \* the attempt of the retry loop it is in
  draft      \* the uncommitted booking of a creation

vars == <<clock, shifts, length, bookings, owner, pc, job, taken, attempt, draft>>

Rows == {Branch} \cup Barbers \cup Bookings
Ended == {"done", "refused", "failed"}

Init ==
  /\ clock = 0
  /\ shifts = FirstShift /\ length = FirstLength
  /\ bookings = Existing
  /\ owner = [x \in Rows |-> Nobody]
  /\ pc = [t \in Transactions |-> "idle"]
  /\ job = [t \in Transactions |-> NoJob]
  /\ taken = [t \in Transactions |-> 0]
  /\ attempt = [t \in Transactions |-> 1]
  /\ draft = [t \in Transactions |-> NoRow]

-----------------------------------------------------------------------------
(* The lock protocol. *)

IsCommand(j) == j.op \in {"CREATE", "RESCHEDULE", "CANCEL"}

\* Mutated forms of LockPlan: a change locks the branch only; a command takes
\* the branch first.
LockPlanWithoutBarbers(j) ==
  CASE j.op = "CREATE" -> <<j.barber>>
    [] j.op \in {"RESCHEDULE", "CANCEL"} ->
         <<bookings[j.booking].barber, j.booking, Branch>>
    [] OTHER -> <<Branch>>
LockPlanBranchFirst(j) ==
  CASE j.op = "CREATE" -> <<j.barber>>
    [] j.op \in {"RESCHEDULE", "CANCEL"} ->
         <<Branch, bookings[j.booking].barber, j.booking>>
    [] OTHER -> <<Branch>> \o BarberOrder

\* The rows that a transaction locks FOR UPDATE, in its order.  The outcome
\* commands lock what a cancellation locks, and do not touch the calendar; the
\* row of the changed service or rule is locked last, under all the others.
LockPlan(j) ==
  CASE j.op = "CREATE" -> <<j.barber>>
    [] j.op \in {"RESCHEDULE", "CANCEL"} ->
         <<bookings[j.booking].barber, j.booking, Branch>>
    [] OTHER -> <<Branch>> \o BarberOrder

HasPlan(t) == taken[t] = Len(LockPlan(job[t]))
NextLock(t) == LockPlan(job[t])[taken[t] + 1]

\* The rows whose holder keeps the transaction from going on.
Wanted(t) ==
  CASE pc[t] = "locking" /\ ~HasPlan(t) -> {NextLock(t)}
    [] pc[t] = "ready" /\ job[t].op = "CREATE" -> {Branch}
    [] OTHER -> {}

BlockedBy(t) == {owner[x] : x \in Wanted(t)} \ {Nobody}

Released(t) == [x \in Rows |-> IF owner[x] = t THEN Nobody ELSE owner[x]]

\* The transaction ends, or begins again, without an effect.
Rollback(t, next) ==
  /\ owner' = Released(t)
  /\ pc' = [pc EXCEPT ![t] = next]
  /\ taken' = [taken EXCEPT ![t] = 0]
  /\ draft' = [draft EXCEPT ![t] = NoRow]
  /\ UNCHANGED <<clock, shifts, length, bookings, job>>

\* A command on a booking has found it before; it cannot vanish.
Begin(t, j) ==
  /\ pc[t] = "idle"
  /\ j.op \in {"RESCHEDULE", "CANCEL"} => bookings[j.booking] # NoRow
  /\ pc' = [pc EXCEPT ![t] = "locking"]
  /\ job' = [job EXCEPT ![t] = j]
  /\ UNCHANGED <<clock, shifts, length, bookings, owner, taken, attempt, draft>>

Acquire(t) ==
  /\ pc[t] = "locking" /\ ~HasPlan(t)
  /\ owner[NextLock(t)] = Nobody
  /\ owner' = [owner EXCEPT ![NextLock(t)] = t]
  /\ taken' = [taken EXCEPT ![t] = @ + 1]
  /\ UNCHANGED <<clock, shifts, length, bookings, pc, job, attempt, draft>>

-----------------------------------------------------------------------------
(* The effects. *)

Fits(visit, shift) ==
  shift[1] <= visit.start /\ visit.start + visit.length <= shift[2]

Overlap(v, w) ==
  /\ v.barber = w.barber
  /\ v.start < w.start + w.length /\ w.start < v.start + v.length

Free(b, visit) ==
  \A c \in Bookings \ {b} : bookings[c] # NoRow /\ ~bookings[c].cancelled =>
    ~Overlap(visit, bookings[c])

NewVisit(j) ==
  [barber |-> j.barber, start |-> j.start, length |-> length, cancelled |-> FALSE]

Bookable(visit) == visit.start >= clock /\ Fits(visit, shifts[visit.barber])

\* The booking is inserted; it is visible to nobody before the commit.
DraftBooking(t) ==
  LET visit == NewVisit(job[t])
  IN  /\ pc[t] = "locking" /\ HasPlan(t) /\ job[t].op = "CREATE"
      /\ Bookable(visit) /\ Free(NoRow, visit)
      /\ draft' = [draft EXCEPT ![t] = visit]
      /\ pc' = [pc EXCEPT ![t] = "ready"]
      /\ UNCHANGED <<clock, shifts, length, bookings, owner, job, taken, attempt>>

Moved(t) == [bookings[job[t].booking] EXCEPT !.start = job[t].start]

\* A booking can be moved or cancelled until it starts (the two-hour rule for
\* clients is narrower, and so is a minimal lead above zero).
Changeable(t) ==
  LET visit == bookings[job[t].booking]
  IN  /\ ~visit.cancelled /\ clock < visit.start
      /\ job[t].op = "RESCHEDULE" =>
           Bookable(Moved(t)) /\ Free(job[t].booking, Moved(t))

\* Mutated form of FutureVisits: only the visits of a later tick are checked.
FutureVisitsLater(barber) ==
  {b \in Bookings : bookings[b] # NoRow /\ bookings[b].barber = barber
                    /\ ~bookings[b].cancelled /\ bookings[b].start > clock}

FutureVisits(barber) ==
  {b \in Bookings : bookings[b] # NoRow /\ bookings[b].barber = barber
                    /\ ~bookings[b].cancelled /\ bookings[b].start >= clock}

\* _ensure_future_bookings_fit
ScheduleFits(j) ==
  \A b \in FutureVisits(j.barber) : Fits(bookings[b], j.shift)

Acceptable(t) ==
  CASE job[t].op = "CREATE" -> Bookable(NewVisit(job[t])) /\ Free(NoRow, NewVisit(job[t]))
    [] job[t].op \in {"RESCHEDULE", "CANCEL"} -> Changeable(t)
    [] job[t].op = "SCHEDULE" -> ScheduleFits(job[t])
    [] OTHER -> TRUE

\* A rule, a conflict or ScheduleConflict refuses the job.
Refuse(t) ==
  /\ pc[t] = "locking" /\ HasPlan(t) /\ ~Acceptable(t)
  /\ Rollback(t, "refused")
  /\ UNCHANGED attempt

\* The commit makes the effect visible and releases the locks.
Finish(t) ==
  /\ owner' = Released(t)
  /\ pc' = [pc EXCEPT ![t] = "done"]
  /\ taken' = [taken EXCEPT ![t] = 0]
  /\ draft' = [draft EXCEPT ![t] = NoRow]
  /\ UNCHANGED <<clock, job, attempt>>

\* The deferred checks of the foreign keys wait for the row of the branch.
CommitCreate(t, b) ==
  /\ pc[t] = "ready" /\ BlockedBy(t) = {}
  /\ bookings[b] = NoRow
  /\ bookings' = [bookings EXCEPT ![b] = draft[t]]
  /\ UNCHANGED <<shifts, length>>
  /\ Finish(t)

CommitChange(t) ==
  LET b == job[t].booking
  IN  /\ pc[t] = "locking" /\ HasPlan(t) /\ Acceptable(t)
      /\ job[t].op \in {"RESCHEDULE", "CANCEL"}
      /\ bookings' = [bookings EXCEPT ![b] =
           IF job[t].op = "CANCEL" THEN [@ EXCEPT !.cancelled = TRUE] ELSE Moved(t)]
      /\ UNCHANGED <<shifts, length>>
      /\ Finish(t)

CommitSettings(t) ==
  /\ pc[t] = "locking" /\ HasPlan(t) /\ Acceptable(t)
  /\ ~IsCommand(job[t])
  /\ IF job[t].op = "SERVICE"
       THEN length' = job[t].length /\ UNCHANGED shifts
       ELSE shifts' = [shifts EXCEPT ![job[t].barber] = job[t].shift] /\ UNCHANGED length
  /\ UNCHANGED bookings
  /\ Finish(t)

-----------------------------------------------------------------------------
(* Waits that do not end by themselves, and the environment. *)

\* Each of them waits for one of them.
WaitCycle(D) == D # {} /\ D \subseteq UNION {BlockedBy(t) : t \in D}

Deadlocked(t) ==
  BlockedBy(t) # {} /\ \E D \in SUBSET Transactions : t \in D /\ WaitCycle(D)

\* Mutated form of RetryDeadlocked: the attempt is not counted.
RetryDeadlockedUncounted(t) ==
  /\ Deadlocked(t) /\ IsCommand(job[t]) /\ attempt[t] < MaxAttempts
  /\ Rollback(t, "locking")
  /\ UNCHANGED attempt

\* The deadlock detector picks the transaction: a command runs again, unless
\* its attempts or its deadline are used up.
RetryDeadlocked(t) ==
  /\ Deadlocked(t) /\ IsCommand(job[t]) /\ attempt[t] < MaxAttempts
  /\ Rollback(t, "locking")
  /\ attempt' = [attempt EXCEPT ![t] = @ + 1]

AbortDeadlocked(t) ==
  /\ Deadlocked(t)
  /\ Rollback(t, "failed")
  /\ UNCHANGED attempt

\* lock_timeout, which only the commands set.
LockTimeout(t) ==
  /\ BlockedBy(t) # {} /\ IsCommand(job[t])
  /\ Rollback(t, "failed")
  /\ UNCHANGED attempt

Crash(t) ==
  /\ pc[t] \in {"locking", "ready"}
  /\ Rollback(t, "failed")
  /\ UNCHANGED attempt

Tick ==
  /\ clock < MaxTime
  /\ clock' = clock + 1
  /\ UNCHANGED <<shifts, length, bookings, owner, pc, job, taken, attempt, draft>>

AllEnded == (\A t \in Transactions : pc[t] \in Ended) /\ UNCHANGED vars

Work(t) ==
  \/ Acquire(t) \/ DraftBooking(t) \/ Refuse(t)
  \/ (\E b \in Bookings : CommitCreate(t, b)) \/ CommitChange(t) \/ CommitSettings(t)

Break(t) == RetryDeadlocked(t) \/ AbortDeadlocked(t)

Next ==
  \/ \E t \in Transactions : (\E j \in Jobs : Begin(t, j)) \/ Work(t) \/ Break(t)
                             \/ LockTimeout(t) \/ Crash(t)
  \/ Tick
  \/ AllEnded

Spec == Init /\ [][Next]_vars

\* Transactions run on, and the deadlock detector finds every cycle.
FairSpec == Spec /\ \A t \in Transactions : WF_vars(Work(t)) /\ WF_vars(Break(t))

-----------------------------------------------------------------------------
(* Properties. *)

\* INV-07 and FR-13: whatever the order of commands and changes, every live
\* booking that is still to come fits the schedule in force.
FutureBookingsFit ==
  \A b \in Bookings :
    bookings[b] # NoRow /\ ~bookings[b].cancelled /\ bookings[b].start >= clock =>
      Fits(bookings[b], shifts[bookings[b].barber])

\* A creation that waits for its commit has been decided on the settings that
\* are still in force: the length of the service and the schedule do not
\* change between its decision and its commit.
BooksOnCurrentSettings ==
  \A t \in Transactions : pc[t] = "ready" =>
    draft[t].length = length /\ Fits(draft[t], shifts[draft[t].barber])

\* Booking commands never wait for each other in a circle, whatever barbers and
\* bookings they are about and although they meet on the row of the branch.
CommandsNeverDeadlock ==
  \A D \in SUBSET Transactions : WaitCycle(D) => \E t \in D : ~IsCommand(job[t])

\* No transactions wait for each other in a circle at all: the lock order of the
\* project, in which commands do not lock the branch, excludes it.
NoWaitCycle == \A D \in SUBSET Transactions : ~WaitCycle(D)

\* Every transaction comes to its end: without a timeout, the end of others and
\* the deadlock detector free whoever waits.
EveryTransactionEnds ==
  \A t \in Transactions : pc[t] = "locking" ~> pc[t] \in Ended
=============================================================================

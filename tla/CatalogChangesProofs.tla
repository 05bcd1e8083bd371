------------------------ MODULE CatalogChangesProofs ------------------------
(***************************************************************************)
(* Proofs about CatalogChanges for every number of barbers, bookings and   *)
(* transactions and every schedule.                                        *)
(*                                                                         *)
(* The argument is the lock protocol.  A transaction owns exactly the      *)
(* prefix of its plan that it has taken.  A change of the settings has     *)
(* every barber when it commits, so no creation stands between its         *)
(* decision and its commit; and commands take the barber, the booking and  *)
(* the branch in this order, so they cannot wait in a circle.              *)
(***************************************************************************)
EXTENDS CatalogChanges, TLAPS

CatalogTypeOK ==
  /\ clock \in Nat
  /\ shifts \in [Barbers -> Interval] /\ length \in Nat \ {0}
  /\ bookings \in [Bookings -> Visit \cup {NoRow}]
  /\ owner \in [Rows -> Transactions \cup {Nobody}]
  /\ pc \in [Transactions -> {"idle", "locking", "ready"} \cup Ended]
  /\ job \in [Transactions -> Jobs \cup {NoJob}]
  /\ taken \in [Transactions -> Nat]
  /\ draft \in [Transactions -> Visit \cup {NoRow}]

Open(t) == pc[t] \in {"locking", "ready"}

\* The booking that a job is about is there.
HasTarget(j) == j.op \in {"RESCHEDULE", "CANCEL"} => bookings[j.booking] \in Visit

\* What a transaction owns is what it has taken of its plan.
Owns(t, x) == Open(t) /\ \E i \in 1..taken[t] : LockPlan(job[t])[i] = x

Protocol(t) ==
  /\ Open(t) => /\ job[t] \in Jobs /\ HasTarget(job[t])
                /\ taken[t] <= Len(LockPlan(job[t]))
  /\ ~Open(t) => taken[t] = 0
  /\ \A x \in Rows : owner[x] = t <=> Owns(t, x)

\* A creation that has been decided waits under the lock of its barber.
Drafted(t) ==
  pc[t] = "ready" =>
    /\ job[t].op = "CREATE" /\ HasPlan(t)
    /\ draft[t] \in Visit /\ draft[t].barber = job[t].barber

CatalogInv ==
  /\ CatalogTypeOK
  /\ \A t \in Transactions : Protocol(t) /\ Drafted(t)
  /\ BooksOnCurrentSettings /\ FutureBookingsFit

-----------------------------------------------------------------------------
(* Jobs and lock plans. *)

LEMMA JobShape ==
  ASSUME NEW j \in Jobs
  PROVE  /\ j.op \in {"CREATE", "RESCHEDULE", "CANCEL", "SERVICE", "SCHEDULE"}
         /\ j.op = "CREATE" => j.barber \in Barbers
         /\ j.op \in {"CREATE", "RESCHEDULE"} => j.start \in Nat
         /\ j.op \in {"RESCHEDULE", "CANCEL"} => j.booking \in Bookings
         /\ j.op = "SERVICE" => j.length \in Nat \ {0}
         /\ j.op = "SCHEDULE" => j.barber \in Barbers /\ j.shift \in Interval
BY JobsAssumption

LEMMA PlanShape ==
  ASSUME CatalogTypeOK, NEW j \in Jobs, HasTarget(j)
  PROVE  /\ Len(LockPlan(j)) \in Nat \ {0}
         /\ \A i \in 1..Len(LockPlan(j)) : LockPlan(j)[i] \in Rows
         /\ j.op = "CREATE" => Len(LockPlan(j)) = 1 /\ LockPlan(j)[1] = j.barber
         /\ j.op \in {"RESCHEDULE", "CANCEL"} =>
              /\ Len(LockPlan(j)) = 3
              /\ LockPlan(j)[1] = bookings[j.booking].barber
              /\ LockPlan(j)[1] \in Barbers
              /\ LockPlan(j)[2] = j.booking /\ LockPlan(j)[3] = Branch
         /\ ~IsCommand(j) => \A x \in {Branch} \cup Barbers :
              \E i \in 1..Len(LockPlan(j)) : LockPlan(j)[i] = x
<1>1. CASE j.op = "CREATE"
  BY <1>1, JobShape DEF LockPlan, Rows, IsCommand
<1>2. CASE j.op \in {"RESCHEDULE", "CANCEL"}
  <2>1. j.booking \in Bookings /\ bookings[j.booking].barber \in Barbers
    BY <1>2, JobShape DEF HasTarget, Visit
  <2>2. LockPlan(j) = <<bookings[j.booking].barber, j.booking, Branch>>
    BY <1>2 DEF LockPlan
  <2> QED
    BY <1>2, <2>1, <2>2 DEF Rows, IsCommand
<1>3. CASE j.op \in {"SERVICE", "SCHEDULE"}
  <2>1. LockPlan(j) = <<Branch>> \o BarberOrder
    BY <1>3 DEF LockPlan
  <2>2. /\ Len(LockPlan(j)) = Len(BarberOrder) + 1 /\ LockPlan(j)[1] = Branch
        /\ \A i \in 1..Len(BarberOrder) : LockPlan(j)[i + 1] = BarberOrder[i]
        /\ \A i \in 2..Len(LockPlan(j)) : LockPlan(j)[i] = BarberOrder[i - 1]
    BY <2>1, RowsAssumption
  <2>3. Len(BarberOrder) \in Nat /\ DOMAIN BarberOrder = 1..Len(BarberOrder)
    BY RowsAssumption
  <2>4. \A i \in 1..Len(BarberOrder) : BarberOrder[i] \in Barbers
    BY <2>3 DEF Barbers
  <2>5. ASSUME NEW i \in 1..Len(LockPlan(j)) PROVE LockPlan(j)[i] \in Rows
    <3>1. i = 1 \/ i - 1 \in 1..Len(BarberOrder)
      BY <2>2, <2>3
    <3> QED
      BY <2>2, <2>3, <2>4, <3>1 DEF Rows
  <2>6. ASSUME NEW x \in {Branch} \cup Barbers
        PROVE  \E i \in 1..Len(LockPlan(j)) : LockPlan(j)[i] = x
    <3>1. CASE x = Branch
      BY <2>2, <2>3, <3>1
    <3>2. CASE x \in Barbers
      <4>1. PICK i \in 1..Len(BarberOrder) : BarberOrder[i] = x
        BY <2>3, <3>2 DEF Barbers
      <4> QED
        BY <2>2, <2>3, <4>1
    <3> QED
      BY <3>1, <3>2
  <2> QED
    BY <1>3, <2>2, <2>3, <2>5, <2>6
<1> QED
  BY <1>1, <1>2, <1>3, JobShape

\* A booking keeps its barber, so a plan stays as it was made.
KeepsBarbers ==
  \A b \in Bookings : bookings[b] \in Visit =>
    bookings'[b] \in Visit /\ bookings'[b].barber = bookings[b].barber

LEMMA PlanStays ==
  ASSUME KeepsBarbers, NEW j \in Jobs, HasTarget(j)
  PROVE  HasTarget(j)' /\ LockPlan(j)' = LockPlan(j)
BY JobShape DEF KeepsBarbers, HasTarget, LockPlan

\* A transaction that has its whole plan owns every row of it.
LEMMA PlanIsOwned ==
  ASSUME CatalogInv, NEW t \in Transactions, Open(t), HasPlan(t)
  PROVE  /\ job[t].op = "CREATE" => owner[job[t].barber] = t
         /\ ~IsCommand(job[t]) => \A x \in Barbers : owner[x] = t
<1>1. job[t] \in Jobs /\ HasTarget(job[t]) /\ CatalogTypeOK /\ taken[t] = Len(LockPlan(job[t]))
  BY DEF CatalogInv, Protocol, HasPlan
<1>2. \A x \in Rows : (\E i \in 1..Len(LockPlan(job[t])) : LockPlan(job[t])[i] = x)
                        => owner[x] = t
  BY <1>1 DEF CatalogInv, Protocol, Owns
<1>3. Barbers \subseteq Rows
  BY DEF Rows
<1> QED
  BY <1>1, <1>2, <1>3, PlanShape, JobShape

-----------------------------------------------------------------------------
(* CatalogInv is inductive: one lemma per kind of step. *)

LEMMA InitCatalog == Init => CatalogInv
<1> SUFFICES ASSUME Init PROVE CatalogInv
  OBVIOUS
<1>1. CatalogTypeOK
  BY StartAssumption DEF Init, CatalogTypeOK
<1>2. \A t \in Transactions : Protocol(t) /\ Drafted(t)
  BY JobsAssumption DEF Init, Protocol, Drafted, Open, Owns
<1>3. BooksOnCurrentSettings
  BY DEF Init, BooksOnCurrentSettings
<1>4. FutureBookingsFit
  BY StartAssumption DEF Init, FutureBookingsFit, Fits
<1> QED
  BY <1>1, <1>2, <1>3, <1>4 DEF CatalogInv

\* Steps that leave the rows and the locks of all others alone.
LEMMA QuietStep ==
  ASSUME CatalogInv, CatalogTypeOK', UNCHANGED <<shifts, length, bookings, owner, taken>>,
         clock <= clock',
         \A t \in Transactions :
           \/ pc'[t] = pc[t] /\ job'[t] = job[t] /\ draft'[t] = draft[t]
           \/ ~Open(t) /\ pc'[t] = "locking" /\ job'[t] \in Jobs /\ HasTarget(job'[t])
  PROVE  CatalogInv'
<1> USE DEF CatalogInv
<1>1. ASSUME NEW t \in Transactions PROVE Protocol(t)'
  <2>1. CASE pc'[t] = pc[t] /\ job'[t] = job[t]
    <3>1. /\ LockPlan(job[t])' = LockPlan(job[t])
          /\ HasTarget(job[t])' <=> HasTarget(job[t])
      BY <2>1 DEF LockPlan, HasTarget
    <3>2. Protocol(t)
      OBVIOUS
    <3>3. Open(t)' <=> Open(t)
      BY <2>1 DEF Open
    <3>4. ASSUME NEW x \in Rows PROVE Owns(t, x)' <=> Owns(t, x)
      BY <3>1, <3>3 DEF Owns
    <3> QED
      BY <2>1, <3>1, <3>2, <3>3, <3>4 DEF Protocol
  <2>2. CASE ~Open(t) /\ pc'[t] = "locking" /\ job'[t] \in Jobs /\ HasTarget(job'[t])
    <3>1. taken'[t] = 0 /\ \A x \in Rows : owner'[x] # t
      BY <2>2 DEF Protocol, Owns
    <3>2. Len(LockPlan(job'[t])) \in Nat
      BY <2>2, PlanShape
    <3>3. LockPlan(job[t])' = LockPlan(job'[t]) /\ HasTarget(job[t])'
      BY <2>2 DEF LockPlan, HasTarget
    <3> QED
      BY <2>2, <3>1, <3>2, <3>3 DEF Protocol, Open, Owns
  <2> QED
    BY <2>1, <2>2
<1>2. ASSUME NEW t \in Transactions PROVE Drafted(t)'
  BY DEF Drafted, HasPlan, LockPlan
<1>3. BooksOnCurrentSettings'
  BY DEF BooksOnCurrentSettings
<1>4. FutureBookingsFit'
  BY DEF FutureBookingsFit, CatalogTypeOK, Visit
<1> QED
  BY <1>1, <1>2, <1>3, <1>4

LEMMA BeginStep ==
  ASSUME CatalogInv, NEW t \in Transactions, NEW j \in Jobs, Begin(t, j)
  PROVE  CatalogInv'
<1>1. HasTarget(j)
  BY JobShape DEF Begin, HasTarget, CatalogInv, CatalogTypeOK
<1>2. CatalogTypeOK'
  BY DEF Begin, CatalogInv, CatalogTypeOK
<1>3. clock <= clock'
  BY DEF Begin, CatalogInv, CatalogTypeOK
<1>4. \A u \in Transactions :
        \/ pc'[u] = pc[u] /\ job'[u] = job[u] /\ draft'[u] = draft[u]
        \/ ~Open(u) /\ pc'[u] = "locking" /\ job'[u] \in Jobs /\ HasTarget(job'[u])
  BY <1>1 DEF Begin, Open, CatalogInv, CatalogTypeOK
<1> QED
  BY <1>2, <1>3, <1>4, QuietStep DEF Begin

LEMMA TickStep ==
  ASSUME CatalogInv, Tick
  PROVE  CatalogInv'
<1>1. CatalogTypeOK' /\ clock <= clock'
  BY DEF Tick, CatalogInv, CatalogTypeOK
<1> QED
  BY <1>1, QuietStep DEF Tick

\* A lock is taken that nobody had.
LEMMA AcquireStep ==
  ASSUME CatalogInv, NEW t \in Transactions, Acquire(t)
  PROVE  CatalogInv'
<1> USE DEF CatalogInv
<1> DEFINE plan == LockPlan(job[t])
           n == taken[t]
<1>1. /\ job[t] \in Jobs /\ HasTarget(job[t]) /\ Open(t) /\ pc[t] = "locking"
      /\ n \in Nat /\ n < Len(plan) /\ Len(plan) \in Nat
  <2>1. Open(t) /\ pc[t] = "locking" /\ n # Len(plan)
    BY DEF Acquire, Open, HasPlan
  <2> QED
    BY <2>1, PlanShape DEF Protocol, CatalogTypeOK
<1>2. plan[n + 1] \in Rows /\ owner[plan[n + 1]] = Nobody
  BY <1>1, PlanShape DEF Acquire, NextLock
<1>3. /\ UNCHANGED <<clock, shifts, length, bookings, pc, job, draft>>
      /\ owner' = [owner EXCEPT ![plan[n + 1]] = t]
      /\ taken' = [taken EXCEPT ![t] = n + 1]
  BY DEF Acquire, NextLock
<1>4. CatalogTypeOK'
  BY <1>1, <1>2, <1>3 DEF CatalogTypeOK
<1>5. \A j : LockPlan(j)' = LockPlan(j) /\ (HasTarget(j)' <=> HasTarget(j))
  BY <1>3 DEF LockPlan, HasTarget
<1>6. ASSUME NEW u \in Transactions PROVE Protocol(u)'
  <2>1. CASE u = t
    <3>1. taken'[t] = n + 1 /\ LockPlan(job[t])' = plan
      BY <1>3, <1>5 DEF CatalogTypeOK
    <3>2. ASSUME NEW x \in Rows PROVE owner'[x] = t <=> Owns(t, x)'
      <4>1. Owns(t, x)' <=> Owns(t, x) \/ plan[n + 1] = x
        BY <1>1, <1>3, <3>1 DEF Owns, Open
      <4>2. owner'[x] = t <=> owner[x] = t \/ plan[n + 1] = x
        BY <1>2, <1>3 DEF CatalogTypeOK
      <4> QED
        BY <4>1, <4>2 DEF Protocol
    <3> QED
      BY <1>1, <1>3, <1>5, <2>1, <3>1, <3>2 DEF Protocol, Open
  <2>2. CASE u # t
    <3>1. taken'[u] = taken[u] /\ LockPlan(job[u])' = LockPlan(job[u])
      BY <1>3, <1>5, <2>2 DEF CatalogTypeOK
    <3>2. \A x \in Rows : owner'[x] = u <=> owner[x] = u
      BY <1>2, <1>3, <2>2, JobsAssumption DEF CatalogTypeOK
    <3> QED
      BY <1>3, <1>5, <3>1, <3>2 DEF Protocol, Open, Owns
  <2> QED
    BY <2>1, <2>2
<1>7. ASSUME NEW u \in Transactions PROVE Drafted(u)'
  <2>1. pc'[u] = "ready" => u # t
    BY <1>1, <1>3
  <2> QED
    BY <1>3, <1>5, <2>1 DEF Drafted, HasPlan, CatalogTypeOK
<1>8. BooksOnCurrentSettings' /\ FutureBookingsFit'
  BY <1>3 DEF BooksOnCurrentSettings, FutureBookingsFit
<1> QED
  BY <1>4, <1>6, <1>7, <1>8

\* A creation is decided on the settings of this moment.
LEMMA DraftStep ==
  ASSUME CatalogInv, NEW t \in Transactions, DraftBooking(t)
  PROVE  CatalogInv'
<1> USE DEF CatalogInv
<1> DEFINE visit == NewVisit(job[t])
<1>1. /\ pc[t] = "locking" /\ Open(t) /\ job[t] \in Jobs /\ HasPlan(t)
      /\ job[t].op = "CREATE" /\ Fits(visit, shifts[visit.barber])
      /\ UNCHANGED <<clock, shifts, length, bookings, owner, job, taken>>
      /\ draft' = [draft EXCEPT ![t] = visit]
      /\ pc' = [pc EXCEPT ![t] = "ready"]
  BY DEF DraftBooking, Open, Bookable, Protocol
<1>2. visit \in Visit /\ visit.barber = job[t].barber /\ visit.length = length
  BY <1>1, JobShape DEF NewVisit, Visit, CatalogTypeOK
<1>3. CatalogTypeOK'
  BY <1>1, <1>2 DEF CatalogTypeOK
<1>4. \A j : LockPlan(j)' = LockPlan(j) /\ (HasTarget(j)' <=> HasTarget(j))
  BY <1>1 DEF LockPlan, HasTarget
<1>5. ASSUME NEW u \in Transactions PROVE Protocol(u)' /\ Drafted(u)'
  <2>1. Open(u)' <=> Open(u)
    BY <1>1 DEF Open, CatalogTypeOK
  <2>2. Protocol(u)'
    BY <1>1, <1>4, <2>1 DEF Protocol, Owns
  <2>3. Drafted(u)'
    BY <1>1, <1>2, <1>4 DEF Drafted, HasPlan, CatalogTypeOK
  <2> QED
    BY <2>2, <2>3
<1>6. BooksOnCurrentSettings'
  BY <1>1, <1>2 DEF BooksOnCurrentSettings, CatalogTypeOK
<1>7. FutureBookingsFit'
  BY <1>1 DEF FutureBookingsFit
<1> QED
  BY <1>3, <1>5, <1>6, <1>7

\* The end of a transaction, with an effect or without one.
LEMMA EndStep ==
  ASSUME CatalogInv, NEW t \in Transactions, CatalogTypeOK', KeepsBarbers,
         owner' = Released(t), taken' = [taken EXCEPT ![t] = 0],
         NEW next \in Ended \cup {"locking"}, next = "locking" => Open(t),
         pc' = [pc EXCEPT ![t] = next],
         draft' = [draft EXCEPT ![t] = NoRow], UNCHANGED <<clock, job>>,
         \A u \in Transactions \ {t} : pc[u] = "ready" =>
           length' = length /\ shifts'[job[u].barber] = shifts[job[u].barber],
         FutureBookingsFit'
  PROVE  CatalogInv'
<1> USE DEF CatalogInv
<1>1. ASSUME NEW u \in Transactions, u # t
      PROVE  /\ pc'[u] = pc[u] /\ taken'[u] = taken[u] /\ draft'[u] = draft[u]
             /\ \A x \in Rows : owner'[x] = u <=> owner[x] = u
  BY <1>1, JobsAssumption DEF Released, CatalogTypeOK
<1>2. ASSUME NEW u \in Transactions PROVE Protocol(u)'
  <2>1. CASE u = t
    <3>1. pc'[t] = next /\ taken'[t] = 0 /\ \A x \in Rows : owner'[x] # t
      BY JobsAssumption DEF Released, CatalogTypeOK
    <3>2. Open(t)' => /\ job[t] \in Jobs /\ HasTarget(job[t])'
                      /\ Len(LockPlan(job[t])') \in Nat
      <4>1. Open(t)' => job[t] \in Jobs /\ HasTarget(job[t])
        BY <3>1 DEF Open, Ended, Protocol
      <4> QED
        BY <4>1, PlanStays, PlanShape
    <3> QED
      BY <2>1, <3>1, <3>2 DEF Protocol, Owns
  <2>2. CASE u # t
    <3>1. CASE Open(u)
      <4>1. job[u] \in Jobs /\ HasTarget(job[u])
        BY <3>1 DEF Protocol
      <4>2. HasTarget(job[u])' /\ LockPlan(job[u])' = LockPlan(job[u])
        BY <4>1, PlanStays
      <4> QED
        BY <1>1, <2>2, <3>1, <4>2 DEF Protocol, Open, Owns
    <3>2. CASE ~Open(u)
      BY <1>1, <2>2, <3>2 DEF Protocol, Open, Owns
    <3> QED
      BY <3>1, <3>2
  <2> QED
    BY <2>1, <2>2
<1>3. ASSUME NEW u \in Transactions, pc'[u] = "ready" PROVE u # t /\ pc[u] = "ready"
  BY <1>1, <1>3 DEF Ended, CatalogTypeOK
<1>4. ASSUME NEW u \in Transactions PROVE Drafted(u)'
  <2>1. SUFFICES ASSUME pc'[u] = "ready" PROVE Drafted(u)'
    BY DEF Drafted
  <2>2. u # t /\ pc[u] = "ready" /\ Open(u) /\ job[u] \in Jobs /\ HasTarget(job[u])
    BY <1>3, <2>1 DEF Open, Protocol
  <2>3. LockPlan(job[u])' = LockPlan(job[u])
    BY <2>2, PlanStays
  <2> QED
    BY <1>1, <2>2, <2>3 DEF Drafted, HasPlan
<1>5. BooksOnCurrentSettings'
  BY <1>1, <1>3 DEF BooksOnCurrentSettings, Drafted
<1> QED
  BY <1>2, <1>4, <1>5

LEMMA RollbackSteps ==
  ASSUME CatalogInv, NEW t \in Transactions,
         Refuse(t) \/ RetryDeadlocked(t) \/ AbortDeadlocked(t) \/ LockTimeout(t) \/ Crash(t)
  PROVE  CatalogInv'
<1>1. PICK next \in Ended \cup {"locking"} : Rollback(t, next)
  BY DEF Refuse, RetryDeadlocked, AbortDeadlocked, LockTimeout, Crash, Ended
<1>2. Open(t)
  <2>1. BlockedBy(t) # {} => Open(t)
    BY DEF BlockedBy, Wanted, Open
  <2> QED
    BY <2>1 DEF Refuse, RetryDeadlocked, AbortDeadlocked, LockTimeout, Crash, Deadlocked, Open
<1>3. CatalogTypeOK'
  BY <1>1 DEF Rollback, Released, CatalogInv, CatalogTypeOK
<1>4. KeepsBarbers /\ FutureBookingsFit'
  BY <1>1 DEF Rollback, KeepsBarbers, FutureBookingsFit, CatalogInv
<1> QED
  BY <1>1, <1>2, <1>3, <1>4, EndStep DEF Rollback

LEMMA CommitCreateStep ==
  ASSUME CatalogInv, NEW t \in Transactions, NEW b \in Bookings, CommitCreate(t, b)
  PROVE  CatalogInv'
<1> USE DEF CatalogInv
<1>1. /\ draft[t] \in Visit /\ Fits(draft[t], shifts[draft[t].barber])
      /\ bookings[b] = NoRow /\ bookings' = [bookings EXCEPT ![b] = draft[t]]
      /\ UNCHANGED <<clock, shifts, length>>
  BY DEF CommitCreate, Finish, Drafted, BooksOnCurrentSettings
<1>2. CatalogTypeOK'
  BY <1>1 DEF CommitCreate, Finish, Released, Ended, CatalogTypeOK
<1>3. KeepsBarbers
  BY <1>1, StartAssumption DEF KeepsBarbers, CatalogTypeOK
<1>4. FutureBookingsFit'
  BY <1>1 DEF FutureBookingsFit, CatalogTypeOK, Fits
<1> QED
  BY <1>2, <1>3, <1>4, EndStep DEF CommitCreate, Finish, Ended

LEMMA CommitChangeStep ==
  ASSUME CatalogInv, NEW t \in Transactions, CommitChange(t)
  PROVE  CatalogInv'
<1> USE DEF CatalogInv
<1> DEFINE b == job[t].booking
           changed == IF job[t].op = "CANCEL"
                        THEN [bookings[b] EXCEPT !.cancelled = TRUE] ELSE Moved(t)
<1>1. /\ job[t].op \in {"RESCHEDULE", "CANCEL"} /\ Changeable(t)
      /\ bookings' = [bookings EXCEPT ![b] = changed]
      /\ UNCHANGED <<clock, shifts, length>>
  BY DEF CommitChange, Finish, Acceptable
<1>2. /\ job[t] \in Jobs /\ b \in Bookings /\ bookings[b] \in Visit
      /\ job[t].op = "RESCHEDULE" => job[t].start \in Nat
  <2>1. job[t] \in Jobs /\ HasTarget(job[t])
    BY DEF CommitChange, Protocol, Open
  <2> QED
    BY <1>1, <2>1, JobShape DEF HasTarget
<1>3. /\ changed \in Visit /\ changed.barber = bookings[b].barber
      /\ job[t].op = "CANCEL" => changed.cancelled
      /\ job[t].op = "RESCHEDULE" => changed = Moved(t)
  BY <1>1, <1>2 DEF Visit, Moved
<1>4. CatalogTypeOK'
  BY <1>1, <1>2, <1>3 DEF CommitChange, Finish, Released, Ended, CatalogTypeOK
<1>5. KeepsBarbers
  BY <1>1, <1>2, <1>3 DEF KeepsBarbers, CatalogTypeOK
<1>6. FutureBookingsFit'
  <2>1. bookings'[b] = changed /\ \A c \in Bookings \ {b} : bookings'[c] = bookings[c]
    BY <1>1, <1>2 DEF CatalogTypeOK
  <2>2. ~changed.cancelled => Fits(changed, shifts[changed.barber])
    BY <1>1, <1>3 DEF Changeable, Bookable
  <2> QED
    BY <1>1, <2>1, <2>2 DEF FutureBookingsFit, Fits
<1> QED
  BY <1>4, <1>5, <1>6, EndStep DEF CommitChange, Finish, Ended

\* A change of the settings has every barber, so no creation waits.
LEMMA CommitSettingsStep ==
  ASSUME CatalogInv, NEW t \in Transactions, CommitSettings(t)
  PROVE  CatalogInv'
<1> USE DEF CatalogInv
<1>1. /\ job[t] \in Jobs /\ ~IsCommand(job[t]) /\ Open(t) /\ HasPlan(t)
      /\ UNCHANGED <<clock, bookings>>
  BY DEF CommitSettings, Finish, Protocol, Open
<1>2. \/ job[t].op = "SERVICE" /\ job[t].length \in Nat \ {0}
         /\ length' = job[t].length /\ UNCHANGED shifts
      \/ /\ job[t].op = "SCHEDULE" /\ job[t].barber \in Barbers /\ job[t].shift \in Interval
         /\ shifts' = [shifts EXCEPT ![job[t].barber] = job[t].shift] /\ UNCHANGED length
         /\ ScheduleFits(job[t])
  <2>1. job[t].op \in {"SERVICE", "SCHEDULE"}
    BY <1>1, JobShape DEF IsCommand
  <2> QED
    BY <1>1, <2>1, JobShape DEF CommitSettings, Acceptable
<1>3. ASSUME NEW u \in Transactions \ {t} PROVE pc[u] # "ready"
  <2>1. SUFFICES ASSUME pc[u] = "ready" PROVE FALSE
    OBVIOUS
  <2>2. Open(u) /\ HasPlan(u) /\ job[u] \in Jobs /\ job[u].op = "CREATE"
    BY <2>1 DEF Drafted, Open, Protocol
  <2>3. job[u].barber \in Barbers /\ owner[job[u].barber] = u
    BY <2>2, JobShape, PlanIsOwned
  <2> QED
    BY <1>1, <2>3, PlanIsOwned
<1>4. CatalogTypeOK'
  BY <1>1, <1>2 DEF CommitSettings, Finish, Released, Ended, CatalogTypeOK
<1>5. KeepsBarbers
  BY <1>1 DEF KeepsBarbers
<1>6. FutureBookingsFit'
  <2>1. CASE UNCHANGED shifts
    BY <1>1, <2>1 DEF FutureBookingsFit, Fits
  <2>2. CASE ScheduleFits(job[t]) /\ shifts' = [shifts EXCEPT ![job[t].barber] = job[t].shift]
             /\ job[t].barber \in Barbers
    BY <1>1, <2>2 DEF FutureBookingsFit, ScheduleFits, FutureVisits, Fits, CatalogTypeOK, Visit
  <2> QED
    BY <1>2, <2>1, <2>2
<1> QED
  BY <1>3, <1>4, <1>5, <1>6, EndStep DEF CommitSettings, Finish, Ended

LEMMA NextCatalog ==
  ASSUME CatalogInv, [Next]_vars
  PROVE  CatalogInv'
<1>1. CASE UNCHANGED vars
  BY <1>1, QuietStep DEF vars, CatalogInv, CatalogTypeOK
<1>2. ASSUME NEW t \in Transactions, NEW j \in Jobs, Begin(t, j) PROVE CatalogInv'
  BY <1>2, BeginStep
<1>3. ASSUME NEW t \in Transactions, Work(t) PROVE CatalogInv'
  BY <1>3, AcquireStep, DraftStep, RollbackSteps, CommitCreateStep, CommitChangeStep,
     CommitSettingsStep DEF Work
<1>4. ASSUME NEW t \in Transactions, Break(t) \/ LockTimeout(t) \/ Crash(t) PROVE CatalogInv'
  BY <1>4, RollbackSteps DEF Break
<1>5. CASE Tick
  BY <1>5, TickStep
<1> QED
  BY <1>1, <1>2, <1>3, <1>4, <1>5 DEF Next, AllEnded

\* The types, the lock protocol and the decided creations, at every moment.
THEOREM CatalogInvHolds == Spec => []CatalogInv
BY InitCatalog, NextCatalog, PTL DEF Spec

-----------------------------------------------------------------------------
(* What it gives. *)

\* INV-07 and FR-13: a live booking that is to come fits the schedule in force,
\* whatever commands and changes of the settings meet (locks in
\* update_schedule_rule and _ensure_future_bookings_fit).
THEOREM ScheduleChangesSpareBookings == Spec => []FutureBookingsFit
BY CatalogInvHolds, PTL DEF CatalogInv

\* Between the decision of a creation and its commit nobody changes the length
\* of the service or the schedule it was decided on.
THEOREM CreationsUseCurrentSettings == Spec => []BooksOnCurrentSettings
BY CatalogInvHolds, PTL DEF CatalogInv

-----------------------------------------------------------------------------
(* Commands do not wait in a circle. *)

\* What a command holds when it waits: nothing before its barber, its barber
\* before its booking, both before the branch.
LEMMA CommandWants ==
  ASSUME CatalogInv, NEW u \in Transactions, IsCommand(job[u]), NEW x \in Wanted(u)
  PROVE  /\ Wanted(u) = {x} /\ x \in Rows
         /\ x \in Barbers => \A y \in Rows : owner[y] # u
         /\ x \in Bookings => bookings[x] \in Visit /\ owner[bookings[x].barber] = u
         /\ \A y \in Rows : owner[y] = u =>
              \/ y \in Barbers
              \/ /\ x = Branch /\ y \in Bookings /\ bookings[y] \in Visit
                 /\ owner[bookings[y].barber] = u
<1> USE DEF CatalogInv
<1> DEFINE j == job[u]
           plan == LockPlan(j)
           n == taken[u]
<1>1. Open(u) /\ j \in Jobs /\ HasTarget(j) /\ n \in Nat /\ n <= Len(plan)
  <2>1. Open(u)
    BY DEF Wanted, Open
  <2> QED
    BY <2>1 DEF Protocol, CatalogTypeOK
<1>2. \A y \in Rows : owner[y] = u <=> \E i \in 1..n : plan[i] = y
  BY <1>1 DEF Protocol, Owns
<1>3. \/ n < Len(plan) /\ Wanted(u) = {plan[n + 1]}
      \/ n = Len(plan) /\ j.op = "CREATE" /\ Wanted(u) = {Branch}
  <2>1. CASE pc[u] = "locking" /\ ~HasPlan(u)
    BY <1>1, <2>1, PlanShape DEF Wanted, HasPlan, NextLock
  <2>2. CASE pc[u] = "ready"
    BY <2>2 DEF Wanted, Drafted, HasPlan
  <2>3. CASE ~(pc[u] = "locking" /\ ~HasPlan(u)) /\ pc[u] # "ready"
    BY <2>3 DEF Wanted
  <2> QED
    BY <2>1, <2>2, <2>3
<1>4. Barbers \subseteq Rows /\ Bookings \subseteq Rows /\ Branch \in Rows
  BY DEF Rows
<1>5. CASE j.op = "CREATE"
  <2>1. Len(plan) = 1 /\ plan[1] = j.barber /\ j.barber \in Barbers
    BY <1>1, <1>5, PlanShape, JobShape
  <2>2. \/ n = 0 /\ Wanted(u) = {j.barber}
        \/ n = 1 /\ Wanted(u) = {Branch}
    BY <1>1, <1>3, <2>1
  <2>3. CASE n = 0 /\ Wanted(u) = {j.barber}
    BY <1>2, <1>4, <2>1, <2>3, RowsAssumption
  <2>4. CASE n = 1 /\ Wanted(u) = {Branch}
    BY <1>2, <1>4, <2>1, <2>4, RowsAssumption
  <2> QED
    BY <2>2, <2>3, <2>4
<1>6. CASE j.op \in {"RESCHEDULE", "CANCEL"}
  <2> DEFINE b == j.booking
             p == bookings[b].barber
  <2>1. /\ b \in Bookings /\ bookings[b] \in Visit /\ p \in Barbers
        /\ Len(plan) = 3 /\ plan[1] = p /\ plan[2] = b /\ plan[3] = Branch
    BY <1>1, <1>6, PlanShape, JobShape DEF HasTarget
  <2>2. \/ n = 0 /\ Wanted(u) = {p}
        \/ n = 1 /\ Wanted(u) = {b}
        \/ n = 2 /\ Wanted(u) = {Branch}
    BY <1>1, <1>3, <1>6, <2>1
  <2>3. n > 0 => owner[p] = u
    BY <1>1, <1>2, <1>4, <2>1
  <2>4. CASE n = 0 /\ Wanted(u) = {p}
    BY <1>2, <1>4, <2>1, <2>4, RowsAssumption
  <2>5. CASE n = 1 /\ Wanted(u) = {b}
    BY <1>2, <1>4, <2>1, <2>3, <2>5, RowsAssumption
  <2>6. CASE n = 2 /\ Wanted(u) = {Branch}
    BY <1>2, <1>4, <2>1, <2>3, <2>6, RowsAssumption
  <2> QED
    BY <2>2, <2>4, <2>5, <2>6
<1> QED
  BY <1>5, <1>6 DEF IsCommand

LEMMA NoCircleOfCommands == CatalogInv => CommandsNeverDeadlock
<1> SUFFICES ASSUME CatalogInv, NEW D \in SUBSET Transactions, WaitCycle(D),
                    \A t \in D : IsCommand(job[t])
             PROVE  FALSE
  BY DEF CommandsNeverDeadlock
<1>1. ASSUME NEW t \in D PROVE \E u \in D : \E x \in Wanted(u) : owner[x] = t
  BY DEF WaitCycle, BlockedBy
<1>2. PICK t \in D : TRUE
  BY DEF WaitCycle
<1>3. PICK u \in D : \E x \in Wanted(u) : owner[x] = t
  BY <1>1, <1>2
<1>4. PICK v \in D : \E y \in Wanted(v) : owner[y] = u
  BY <1>1, <1>3
<1>5. PICK w \in D : \E z \in Wanted(w) : owner[z] = v
  BY <1>1, <1>4
<1>6. PICK x \in Wanted(u) : owner[x] = t
  BY <1>3
<1>7. PICK y \in Wanted(v) : owner[y] = u
  BY <1>4
<1>8. PICK z \in Wanted(w) : owner[z] = v
  BY <1>5
<1>9. y \in Rows /\ z \in Rows
  BY <1>7, <1>8, CommandWants
\* v holds z, so it does not wait for a barber.
<1>10. y \notin Barbers
  BY <1>7, <1>8, <1>9, CommandWants
\* So u holds the booking that v waits for, and both hold its barber.
<1>11. y \in Bookings /\ x = Branch /\ owner[bookings[y].barber] = u
  BY <1>6, <1>7, <1>9, <1>10, CommandWants
<1>12. owner[bookings[y].barber] = v
  BY <1>7, <1>11, CommandWants
<1>13. Wanted(u) = {Branch} /\ y \in Wanted(u)
  BY <1>6, <1>7, <1>11, <1>12, CommandWants
<1> QED
  BY <1>11, <1>13, RowsAssumption

\* Booking commands never wait for each other in a circle, although creations,
\* moves and cancellations meet on barbers, bookings and the row of the branch.
THEOREM CommandsWaitInLine == Spec => []CommandsNeverDeadlock
BY CatalogInvHolds, NoCircleOfCommands, PTL
=============================================================================

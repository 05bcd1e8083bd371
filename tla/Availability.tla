---------------------------- MODULE Availability ----------------------------
(***************************************************************************)
(* list_available_slots beside the commands that change what it reads.     *)
(* The query runs in no transaction: it reads the clock and the branch,    *)
(* then the assignments, then the schedule of each assignment and date,    *)
(* and last the bookings, and everything may change between two reads.  It *)
(* reserves nothing; what it offers is only a candidate for                *)
(* create_booking.                                                         *)
(*                                                                         *)
(* Barbers and services are numbered in the order of their ids.  A booking *)
(* command takes effect in one step, as BookingLedger states.              *)
(***************************************************************************)
EXTENDS Calendar

CONSTANTS
  Barbers,       \* barber ids
  Services,      \* service ids
  Duration,      \* service -> its length
  Bookings,      \* booking ids, numbered
  NoVisit,       \* a booking that does not exist
  Assigned,      \* the <<barber, service>> pairs with an assignment
  Zones,         \* the zones the branch may be in
  Schedules,     \* barber -> the schedules it may be given
  Queries,       \* the queries that callers may send
  NoQuery,       \* nothing asked
  MinLead,       \* Branch.min_lead_minutes
  HorizonDays,   \* Branch.horizon_days
  Grid,          \* Branch.grid_minutes
  MaxRangeDays,  \* MAX_RANGE_DAYS, 31
  MaxResults,    \* MAX_RESULTS, 500
  FirstTime,     \* the clock at the start
  MaxTime,       \* bound on the clock, for model checking
  MaxChanges     \* bound on changes of the database, for model checking

Visit == [barber: Barbers, start: Int, end: Int, live: BOOLEAN]
Offers == Barbers \X Services
Query == [from: Int, to: Int, barbers: SUBSET Barbers,
          services: SUBSET Services, limit: Int]

ASSUME BranchAssumption ==
  /\ MinLead \in Nat /\ HorizonDays \in Nat \ {0} /\ Grid \in Nat \ {0}
  /\ Duration \in [Services -> Nat \ {0}]
  /\ Barbers \subseteq Nat /\ Services \subseteq Nat /\ Bookings \subseteq Nat
  /\ IsFiniteSet(Barbers) /\ IsFiniteSet(Services)
  /\ \A b \in Barbers : Schedules[b] \subseteq Schedule
  /\ Assigned \subseteq Offers /\ Zones \subseteq Zone /\ Queries \subseteq Query
  /\ NoVisit \notin Visit /\ NoQuery \notin Query

ASSUME BoundsAssumption ==
  /\ FirstTime \in Int /\ MaxTime \in Int /\ FirstTime <= MaxTime
  /\ MaxChanges \in Nat /\ MaxRangeDays \in Nat /\ MaxResults \in Nat

VARIABLES
  clock,      \* clock_timestamp()
  zone,       \* Branch.timezone
  schedule,   \* barber -> rules and exceptions
  offers,     \* active assignments of active barbers and services
  bookings,   \* booking -> its visit
  changes,    \* changes of the database so far
  query,      \* the query under way
  phase,      \* where it is
  now,        \* the clock it has read
  assigned,   \* the assignments it has read
  todo,       \* <<barber, service, date, schedule date>> still to be evaluated
  found,      \* <<barber, service, date, interval>> it has evaluated
  answer,     \* the slots it returns
  changed     \* barbers about whom something has changed since it was read

database == <<schedule, offers, bookings>>
reading == <<query, phase, now, assigned, todo, found, answer>>
vars == <<clock, zone, schedule, offers, bookings, changes, query, phase, now,
          assigned, todo, found, answer, changed>>

\* Every barber has one of its schedules.
Plans == {p \in [Barbers -> UNION {Schedules[b] : b \in Barbers}] :
            \A b \in Barbers : p[b] \in Schedules[b]}

Init ==
  /\ clock = FirstTime
  /\ zone \in Zones
  /\ schedule \in Plans
  /\ offers = Assigned
  /\ bookings = [b \in Bookings |-> NoVisit]
  /\ changes = 0
  /\ query = NoQuery
  /\ phase = "idle"
  /\ now = FirstTime
  /\ assigned = {}
  /\ todo = {}
  /\ found = {}
  /\ answer = {}
  /\ changed = {}

-----------------------------------------------------------------------------
(* The rules that the query shares with create_booking. *)

Today(at) == DateOf(ToLocal(zone, at))

\* validate_booking_start
ValidStart(start, at) ==
  /\ start >= at + MinLead
  /\ DateOf(ToLocal(zone, start)) <= Today(at) + HorizonDays
  /\ (ToLocal(zone, start) % DayLength) % Grid = 0

Overlap(x, y) == x.barber = y.barber /\ x.start < y.end /\ y.start < x.end

Live(b) == bookings[b] # NoVisit /\ bookings[b].live

Taken(visit) == \E b \in Bookings : Live(b) /\ Overlap(visit, bookings[b])

VisitOf(barber, service, start) ==
  [barber |-> barber, start |-> start, end |-> start + Duration[service], live |-> TRUE]

\* What create_booking would come to now: a LocalTimeError of the schedule is
\* not caught.
Outcome(barber, service, start) ==
  LET visit == VisitOf(barber, service, start)
      fits == BookingFits(schedule[barber], zone, start, visit.end)
  IN  IF <<barber, service>> \notin offers \/ ~ValidStart(start, clock)
                             THEN "RULE_VIOLATION"
      ELSE IF fits = {}      THEN "ERROR"
      ELSE IF fits = {FALSE} THEN "RULE_VIOLATION"
      ELSE IF Taken(visit)   THEN "SLOT_CONFLICT"
                             ELSE "CREATED"

-----------------------------------------------------------------------------
(* The query. *)

\* A slot in the order of AvailableSlot: start, barber, service, end.
Slot(barber, service, start) == <<start, barber, service, start + Duration[service]>>

\* Tuples of numbers in lexicographic order.
Precedes(x, y) ==
  \E i \in DOMAIN x : x[i] < y[i] /\ \A j \in 1..(i - 1) : x[j] = y[j]

First(S) == CHOOSE x \in S : \A y \in S \ {x} : Precedes(x, y)

\* _query_branch
Acceptable(q) ==
  /\ q.from <= q.to /\ q.to - q.from + 1 <= MaxRangeDays
  /\ q.limit \in 1..MaxResults
  /\ q.to <= Today(clock) + HorizonDays

\* A query arrives: database_now, _query_branch.  When it is not acceptable it
\* raises AvailabilityQueryError and the caller gets 404.
Begin(q) ==
  /\ phase = "idle"
  /\ query' = q
  /\ phase' = IF Acceptable(q) THEN "begun" ELSE "refused"
  /\ now' = clock
  /\ UNCHANGED <<clock, zone, database, changes, assigned, todo, found, answer, changed>>

\* Mutated form of CoveringDates: the overnight shift of the day before is
\* forgotten.
SameDateOnly(date) == {date}

\* The dates of the shifts that _schedule_intervals looks at for a date.
CoveringDates(date) == {date - 1, date}

ReadAssignments ==
  LET matching == {o \in offers : o[1] \in query.barbers /\ o[2] \in query.services}
      evaluations(o, d) == {<<o[1], o[2], d, s>> : s \in CoveringDates(d)}
  IN  /\ phase = "begun"
      /\ assigned' = matching
      /\ todo' = UNION {evaluations(o, d) : o \in matching, d \in query.from..query.to}
      /\ phase' = "reading"
      /\ UNCHANGED <<clock, zone, database, changes, query, now, found, answer, changed>>

\* intervals_starting_on for the next date; a LocalTimeError skips the date.
ReadSchedule ==
  LET job == First(todo)
      given == schedule[job[1]]
  IN  /\ phase = "reading" /\ todo # {}
      /\ found' = IF Raises(given, zone, job[4]) THEN found
                  ELSE found \cup {<<job[1], job[2], job[3], i>> :
                                     i \in IntervalsStartingOn(given, zone, job[4])}
      /\ todo' = todo \ {job}
      /\ UNCHANGED <<clock, zone, database, changes, query, phase, now, assigned,
                     answer, changed>>

\* _candidate_starts: the grid of the local date, without times that are missing
\* or ambiguous.
CandidateStarts(date) ==
  UNION {LocalToUtc(zone, At(date, time), NoFold) :
           time \in {x \in Times : x % Grid = 0}}

\* Mutated form of Fits: only the start has to lie within the interval.
FitsByStart(start, end, interval) == interval[1] <= start /\ start < interval[2]

Fits(start, end, interval) == interval[1] <= start /\ end <= interval[2]

Candidates ==
  UNION {{Slot(o[1], o[2], start) :
            start \in {t \in CandidateStarts(d) :
                         /\ ValidStart(t, now)
                         /\ \E f \in found : /\ <<f[1], f[2], f[3]>> = <<o[1], o[2], d>>
                                             /\ Fits(t, t + Duration[o[2]], f[4])}} :
          o \in assigned, d \in query.from..query.to}

\* Mutated form of Occupied: the window keeps only bookings that start in it.
OccupiedByStart(slots) ==
  {visit \in {bookings[b] : b \in {x \in Bookings : Live(x)}} :
     /\ \E slot \in slots : slot[2] = visit.barber
     /\ \E slot \in slots : visit.start < slot[4]
     /\ \E slot \in slots : visit.start >= slot[1]}

\* One query for the barbers and the window of all candidates.
Occupied(slots) ==
  {visit \in {bookings[b] : b \in {x \in Bookings : Live(x)}} :
     /\ \E slot \in slots : slot[2] = visit.barber
     /\ \E slot \in slots : visit.start < slot[4]
     /\ \E slot \in slots : visit.end > slot[1]}

Clashes(slot, visit) ==
  visit.barber = slot[2] /\ visit.start < slot[4] /\ slot[1] < visit.end

Free(slots) ==
  LET occupied == Occupied(slots)
  IN  {slot \in slots : \A visit \in occupied : ~Clashes(slot, visit)}

\* Mutated form of Cut: the limit is not applied.
Uncut(slots) == slots

\* The first slots, as many as the limit.
Cut(slots) ==
  {slot \in slots : Cardinality({x \in slots : Precedes(x, slot)}) < query.limit}

\* The bookings are read last; the answer is cut at the limit.
Finish ==
  /\ phase = "reading" /\ todo = {}
  /\ answer' = Cut(Free(Candidates))
  /\ phase' = "answered"
  /\ UNCHANGED <<clock, zone, database, changes, query, now, assigned, todo, found, changed>>

\* The caller has the answer; nothing of the query remains.
Forget ==
  /\ phase \in {"answered", "refused"}
  /\ query' = NoQuery
  /\ phase' = "idle"
  /\ assigned' = {} /\ found' = {} /\ answer' = {} /\ changed' = {}
  /\ UNCHANGED <<clock, zone, database, changes, now, todo>>

-----------------------------------------------------------------------------
(* What happens beside it. *)

MayChange == changes < MaxChanges

Change ==
  /\ changes' = changes + 1
  /\ UNCHANGED <<clock, zone, reading>>

\* Assignments and schedules are read from the first phase on, the bookings
\* when the answer is made.
SettingsRead == {"reading", "answered"}
BookingsRead == {"answered"}

\* What the query has read about the barber, if it has, is not so any more.
Outdates(barber, read) ==
  changed' = IF phase \in read THEN changed \cup {barber} ELSE changed

\* create_booking commits; which fresh id it draws makes no difference.
Book(b, barber, service, start) ==
  /\ MayChange
  /\ bookings[b] = NoVisit /\ \A x \in Bookings : x < b => bookings[x] # NoVisit
  /\ Outcome(barber, service, start) = "CREATED"
  /\ bookings' = [bookings EXCEPT ![b] = VisitOf(barber, service, start)]
  /\ Outdates(barber, BookingsRead)
  /\ UNCHANGED <<schedule, offers>>
  /\ Change

\* cancel_booking commits.
Cancel(b) ==
  /\ MayChange
  /\ Live(b) /\ clock < bookings[b].start
  /\ bookings' = [bookings EXCEPT ![b].live = FALSE]
  /\ Outdates(bookings[b].barber, BookingsRead)
  /\ UNCHANGED <<schedule, offers>>
  /\ Change

\* A schedule change commits: the bookings to come still fit.
ChangeSchedule(barber, given) ==
  /\ MayChange
  /\ given # schedule[barber]
  /\ \A b \in Bookings :
       Live(b) /\ bookings[b].barber = barber /\ bookings[b].start >= clock =>
         BookingFits(given, zone, bookings[b].start, bookings[b].end) = {TRUE}
  /\ schedule' = [schedule EXCEPT ![barber] = given]
  /\ Outdates(barber, SettingsRead)
  /\ UNCHANGED <<offers, bookings>>
  /\ Change

\* An assignment, its barber or its service is switched off or on.
Switch(offer) ==
  /\ MayChange
  /\ offers' = IF offer \in offers THEN offers \ {offer} ELSE offers \cup {offer}
  /\ Outdates(offer[1], SettingsRead)
  /\ UNCHANGED <<schedule, bookings>>
  /\ Change

Tick ==
  /\ clock < MaxTime
  /\ clock' = clock + 1
  /\ UNCHANGED <<zone, database, changes, reading, changed>>

Read == ReadAssignments \/ ReadSchedule \/ Finish

\* Starts that a client may ask for: all that the horizon may let through, in
\* whatever offset.
Starts == FirstTime..(MaxTime + (HorizonDays + 3) * DayLength)

Environment ==
  \/ \E b \in Bookings, barber \in Barbers, service \in Services, start \in Starts :
       Book(b, barber, service, start)
  \/ \E b \in Bookings : Cancel(b)
  \/ \E barber \in Barbers : \E given \in Schedules[barber] : ChangeSchedule(barber, given)
  \/ \E offer \in Assigned : Switch(offer)
  \/ Tick

Next ==
  \/ \E q \in Queries : Begin(q)
  \/ Read \/ Forget
  \/ Environment

Spec == Init /\ [][Next]_vars

-----------------------------------------------------------------------------
(* Properties. *)

\* Slots and intervals are well formed, and the answer keeps its limit.
TypeOK ==
  /\ clock \in FirstTime..MaxTime /\ now \in FirstTime..clock
  /\ zone \in Zones /\ schedule \in Plans /\ offers \subseteq Assigned
  /\ bookings \in [Bookings -> Visit \cup {NoVisit}]
  /\ changes \in 0..MaxChanges /\ changed \subseteq Barbers
  /\ query \in Query \cup {NoQuery}
  /\ phase \in {"idle", "begun", "refused", "reading", "answered"}
  /\ assigned \subseteq Assigned
  /\ \A f \in found : <<f[1], f[2]>> \in assigned /\ f[4][1] < f[4][2]
  /\ answer # {} => query # NoQuery /\ Cardinality(answer) <= query.limit

\* local_to_utc returns the only instant that shows a local time, refuses one
\* that no instant or two instants show, and lets the fold choose between two
\* (ADR-006: missing times are refused, ambiguous ones need a fold).  The zone
\* never changes, so that it is looked at once.
LocalTimesResolve ==
  phase = "idle" /\ clock = FirstTime /\ changes = 0 =>
    \A l \in {At(d, t) : d \in {DateOf(x) : x \in Starts}, t \in Times} :
      Resolves(zone, l, (l - DayLength)..(l + DayLength))

\* Whatever is booked or cancelled while the query runs, the slots it returns
\* overlap no booking that is live when the bookings are read.
OfferedSlotsWereFree ==
  [][phase' = "answered" /\ phase = "reading" =>
       \A slot \in answer', b \in Bookings : Live(b) => ~Clashes(slot, bookings[b])]_vars

\* Whatever has changed between the reads of the query, as long as nothing about
\* the barber has changed since it was read: create_booking accepts a slot of
\* the answer that is still far enough ahead, unless the schedule of its date or
\* of the date before cannot be converted to UTC at all.
OfferedSlotsAreAccepted ==
  phase = "answered" =>
    \A slot \in answer : slot[2] \notin changed /\ ValidStart(slot[1], clock) =>
      Outcome(slot[2], slot[3], slot[1]) \in {"CREATED", "ERROR"}

\* The promise without the exception: "every published slot is accepted by
\* CreateBooking when the database and the clock do not change".
PublishedSlotsAreAccepted ==
  phase = "answered" /\ changes = 0 /\ clock = now =>
    \A slot \in answer : Outcome(slot[2], slot[3], slot[1]) = "CREATED"

\* A local time that the query can name: it exists and occurs only once.
Nameable(start) == LocalToUtc(zone, ToLocal(zone, start), NoFold) # {}

\* Of a barber about whom nothing has changed since it was read, the query
\* withholds no start that create_booking would accept for the dates and
\* services asked for, except at local times that occur twice; at the limit it
\* withholds only later ones.
NothingBookableIsWithheld ==
  phase = "answered" =>
    \A barber \in query.barbers \ changed, service \in query.services, start \in Starts :
      LET slot == Slot(barber, service, start)
      IN  /\ Outcome(barber, service, start) = "CREATED"
          /\ Today(start) \in query.from..query.to /\ Nameable(start)
          => \/ slot \in answer
             \/ Cardinality(answer) = query.limit /\ \A a \in answer : Precedes(a, slot)
=============================================================================

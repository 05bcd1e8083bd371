------------------------------ MODULE Calendar ------------------------------
(***************************************************************************)
(* Local times of a branch and its schedule as pure operators.  A zone     *)
(* changes its offset at most once in the days a model looks at; a local   *)
(* timestamp is a number of ticks, day * DayLength + time of day, and so   *)
(* is an instant of UTC.                                                   *)
(*                                                                         *)
(* An operation that may raise LocalTimeError returns a set: the one value *)
(* it returns, or nothing when it raises.                                  *)
(***************************************************************************)
EXTENDS Integers, FiniteSets

CONSTANTS
  DayLength,   \* ticks in a day
  NoFold       \* fold=None

ASSUME DayAssumption == DayLength \in Nat \ {0} /\ NoFold \notin {0, 1}

\* Offsets from UTC are shorter than a day.
Offsets == (1 - DayLength)..(DayLength - 1)
Zone == [change: Int, before: Offsets, after: Offsets]

Offset(zone, t) == IF t < zone.change THEN zone.before ELSE zone.after

\* value.astimezone(zone)
ToLocal(zone, t) == t + Offset(zone, t)

Earlier(m, n) == IF m < n THEN m ELSE n
Later(m, n) == IF m < n THEN n ELSE m

\* naive.replace(tzinfo=zone, fold=fold).astimezone(UTC): in a gap and in a
\* repeated hour, fold 0 keeps the old offset and fold 1 has the new one.
Candidate(zone, l, fold) ==
  LET wall == zone.change + IF fold = 0 THEN Later(zone.before, zone.after)
                                        ELSE Earlier(zone.before, zone.after)
  IN  l - IF l < wall THEN zone.before ELSE zone.after

\* Mutated form of RoundTrips: a time in a gap is converted all the same.
RoundTripsAlways(zone, l, fold) == TRUE

RoundTrips(zone, l, fold) == ToLocal(zone, Candidate(zone, l, fold)) = l

\* The folds that local_to_utc keeps: one of two that mean the same instant.
Folds(zone, l) ==
  {f \in {0, 1} : RoundTrips(zone, l, f)
                  /\ (f = 1 /\ RoundTrips(zone, l, 0)
                        => Candidate(zone, l, 0) # Candidate(zone, l, 1))}

LocalToUtc(zone, l, fold) ==
  IF fold = NoFold
    THEN {Candidate(zone, l, f) : f \in {g \in Folds(zone, l) : Folds(zone, l) = {g}}}
    ELSE {Candidate(zone, l, f) : f \in Folds(zone, l) \cap {fold}}

\* What local_to_utc has to mean, among some instants: without a fold, the only
\* one that shows the local time; with folds, all that show it, the first first.
Resolves(zone, l, instants) ==
  LET shows(t) == ToLocal(zone, t) = l
  IN  /\ \A t \in instants :
           t \in LocalToUtc(zone, l, NoFold)
             <=> shows(t) /\ \A s \in instants : shows(s) => s = t
      /\ \A t \in instants :
           t \in LocalToUtc(zone, l, 0) \cup LocalToUtc(zone, l, 1) <=> shows(t)
      /\ \A t \in LocalToUtc(zone, l, 0), s \in LocalToUtc(zone, l, 1) : t < s

DateOf(l) == l \div DayLength
At(date, time) == date * DayLength + time

-----------------------------------------------------------------------------
(* Schedules: weekly rules and dated exceptions of one barber. *)

Times == 0..(DayLength - 1)

\* clean() refuses an empty interval.
Shift == {s \in [starts: Times, ends: Times] : s.starts # s.ends}
Rule == {r \in [weekday: 0..6, starts: Times, ends: Times] : r.starts # r.ends}

\* A CLOSED exception has no shift, a REPLACEMENT has one.
Exception == [date: Int, shifts: {{}} \cup {{s} : s \in Shift}]
Schedule == [rules: SUBSET Rule, exceptions: SUBSET Exception]

\* The interval of a shift that starts on a date: one that ends at or before its
\* start goes on to the next date.
Interval(zone, shift, date) ==
  LET endDate == IF shift.ends > shift.starts THEN date ELSE date + 1
  IN  LocalToUtc(zone, At(date, shift.starts), NoFold) \X
      LocalToUtc(zone, At(endDate, shift.ends), NoFold)

\* Only a weekly rule is checked to be positive in UTC.
RuleInterval(zone, rule, date) ==
  {i \in Interval(zone, rule, date) : i[2] > i[1]}

\* What each shift of the date comes to: the shift of an exception, when the
\* date has one, otherwise the active rules of the weekday.
Evaluated(schedule, zone, date) ==
  LET exceptions == {e \in schedule.exceptions : e.date = date}
  IN  IF exceptions # {}
        THEN {Interval(zone, s, date) : s \in UNION {e.shifts : e \in exceptions}}
        ELSE {RuleInterval(zone, r, date) :
                r \in {rule \in schedule.rules : rule.weekday = date % 7}}

\* One shift that cannot be converted spoils the evaluation of the date.
Raises(schedule, zone, date) == {} \in Evaluated(schedule, zone, date)

IntervalsStartingOn(schedule, zone, date) ==
  UNION Evaluated(schedule, zone, date)

Within(start, end, interval) == interval[1] <= start /\ end <= interval[2]

\* The dates whose shifts may cover a visit: an overnight shift starts the day
\* before.
ScheduleDates(date) == {date - 1, date}

\* booking_fits_schedule: true, false, or LocalTimeError.
BookingFits(schedule, zone, start, end) ==
  LET dates == ScheduleDates(DateOf(ToLocal(zone, start)))
  IN  IF \E d \in dates : Raises(schedule, zone, d) THEN {}
      ELSE {\E d \in dates : \E i \in IntervalsStartingOn(schedule, zone, d) :
              Within(start, end, i)}
=============================================================================

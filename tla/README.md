# Barbershop booking: TLA+ models and proofs

This directory holds a formal model of the booking backend (Django on
PostgreSQL 17): TLA+ modules translated from the code, TLC configurations that
check them on small instances, and theorems that TLAPS proves for all instances.
Paths below are relative to the repository (`src/barbershop/...` is the Django
project).

## 1. The system

| Component | State | Operations | Talks to |
| --- | --- | --- | --- |
| Booking commands (`booking/services.py`, `rescheduling.py`, `cancellation.py`, `outcomes.py`) | none of their own | `create_booking`, `reschedule_booking`, `cancel_booking`, `complete_booking`, `mark_no_show` | receipts, bookings, journal, catalog, schedule: one transaction each |
| Booking (`booking/models.py`) | status, version, barber, start, end, snapshots | row constraints; an exclusion constraint on (barber, range) of rows that are not cancelled | all commands |
| Receipts (`idempotency/`, `privacy.py`) | one row per (scope, operation, key): PROCESSING, COMPLETED, TOMBSTONE | `execute_idempotent`, `redact_expired_receipts`, `replace_result_with_tombstone` | commands, API replay |
| Journal (`journal/services.py`, `models.py`) | append-only audit entries and outbox events | `append_booking_change` | every change; the delivery |
| Outbox delivery (`journal/delivery.py`) | a `DeliveryState` per event and destination: state, owner token, lease, attempts, available_at | `claim_next`, `acknowledge`, `fail`, `deliver_one`, `run_worker` | external transports |
| API rate limit (`identity/rate_limit.py`) | a counter per scope and minute | `enforce_mutation_limit` | API, before each mutation |
| Catalog and schedule changes (`catalog/services.py`, `schedule/services.py`) | services, rules, exceptions | `update_service_offering`, `update_schedule_rule`, `update_schedule_exception` | lock the branch and its barbers against commands |
| Calendar (`schedule/calendar.py`, `policy.py`) | none | local rules to UTC intervals, "does the booking fit" | commands, availability |
| Availability (`booking/availability.py`) | none | read-only list of free slots | API, Yandex reads |
| HTTP API (`api.py`) | none | creation, detail, cancel, reschedule, outcomes, availability | sessions, rate limit, commands, tokens, receipts |
| Tokens and staff policy (`identity/`) | a hashed management token per booking, bound to a session; staff scopes | `issue_management_token`, `authorize_management_token`, `revoke_old_management_tokens`, `authorize` | API, commands |
| Yandex reads (`integration/`, `yandex_api.py`) | a connection with two switches; mappings of branches, services, barbers | `feed`, `services`, `resources`, `slots` | availability, catalog |
| Observability, health, settings | in-process counters, static configuration | | all of the above |

### What is hard

* **Interleaving.** All web processes work on the same rows under READ
  COMMITTED. Correctness rests on the order receipt, barber, booking, on reading
  the clock after the locks, and on the exclusion constraint.
* **Failure.** A transaction ends by `lock_timeout`, `statement_timeout`, `40P01`,
  `40001` or the death of the process; an answer may be lost after its commit;
  clients repeat commands under the same key.
* **Delivery.** Workers die, outlast their lease, acknowledge late; a transport
  error does not say whether the event has arrived.
* **Lock order.** Catalog changes lock in one order, commands in another.
* **Time.** Visits begin and end, retention passes while requests wait; local
  times are skipped or repeated when the zone changes its offset.
* **Several reads.** The availability query, a handler of the API and the walk
  through the company feed read the database several times without a transaction;
  every other party moves in between.

What would make each component correct: no double booking, no lost update, one
effect and one answer per key, a journal that matches the versions, outcomes only
after visits (commands); a late owner changes nothing, every event settles
(delivery); an exact counter (rate limit); the schedule covers the bookings to
come, and everyone comes to an end (catalog changes); what is offered can be
booked and what can be booked is offered (calendar, availability, partner); one
booking per session and key, one token per booking, nobody manages what is not
theirs (API); no company twice, none lost (feed). `PROJECT.json` lists the
hazards line by line with the properties that cover them.

## 2. Modules

| Module | What it is |
| --- | --- |
| `BookingRules` | Pure operators: rows, commands, slots, the verdict of each command. No state. |
| `BookingCommands` | The five commands as concurrent transactions. |
| `BookingLedger` | The abstract specification: commands that take effect in one instant. |
| `CommandsImplementLedger` | The refinement mapping (committed rows and receipts are the ledger). |
| `LockTimes` | The commands with a history variable: when each of them got its last lock. |
| `MCBookingCommands`, `MCLockTimes` | Scenarios for TLC: of repeated commands, and of competing ones with the history of their locks. |
| `BookingRulesProofs` | Lemmas about the verdicts, for the next two and for `GuestApiProofs`. |
| `BookingCommandsProofs` | Theorems about `BookingCommands`: types, slots, versions. |
| `BookingReceiptsProofs` | Theorems about `BookingCommands`: journal, receipts, answers, that it implements `BookingLedger`, and that it decides after its locks. |
| `OutboxDelivery`, `MCOutboxDelivery`, `OutboxDeliveryProofs` | Delivery of the outbox to one destination. |
| `RateLimit`, `MCRateLimit`, `RateLimitProofs` | The mutation limit of one scope. |
| `CatalogChanges`, `MCCatalogChanges`, `CatalogChangesProofs` | Catalog and schedule changes against commands: lock order, deadlocks, INV-07. |
| `Calendar` | Pure operators: zones, local times, shifts, "does the booking fit". No state. |
| `Availability` | `list_available_slots` as a sequence of reads, beside everything that changes what it reads. |
| `YandexReads` | Both readers of it: the own API and the partner's slots. |
| `CompanyFeed` | The pages of the company feed while mappings change. |
| `MCReads` | Scenarios of the last three. |
| `ReadsProofs` | Theorems about the calendar, the query, its two readers and the feed. |
| `GuestApi`, `MCGuestApi`, `GuestApiProofs` | The HTTP handlers of guests and staff over atomic commands, with sessions, tokens, receipts and the privacy jobs. |

A definition named "Mutated form of X" is X with a plausible bug; no
specification uses it. Replacing X by it must violate the property that
`PROJECT.json` pairs it with, which shows that the property can fail.

### BookingCommands

A *request* is one execution of a command. `pc` follows it through
`execute_idempotent` and the effect:

| `pc` | In the code | Actions that leave it |
| --- | --- | --- |
| `idle` | before the call | `Submit`; `RefuseUnknownBooking` (`_authorize_target` finds nothing) |
| `begin` | at the insert of the receipt | `ClaimReceipt`; `Replay` (committed receipt: same fingerprint, other fingerprint, or expired); waits while another transaction holds the key |
| `claimed` | at the barber lock | `LockBarber` |
| `barber` | barber locked | `RejectCreate`, `DecideCreate` for a creation; `LockBooking` otherwise |
| `booking` | booking locked and read | `DecideChange` |
| `staged` | everything written, nothing committed | `Commit` |
| `committed` | answer on its way | `Deliver` |
| `settled`, `lost` | ended, with or without an answer | |

From any point of the transaction `Timeout`, `Retry`, `GiveUp` and `Crash`
roll it back. `rows`, `journal` and `receipts` hold committed data only; what a
transaction has written is in `staged`, which others notice only through locks
and through the exclusion constraint (`WaitsForExclusion`). The booking keeps
`status`, `version`, `barber`, `start` and `duration`; an audit entry and its
outbox event are one journal entry, since one function appends both. Keys stand
for (scope, key) pairs.

`ImplementsLedger` is the strongest statement: what a command decides under its
locks, refusals included, is what it would decide if it ran alone at its commit,
at some database time that has passed. Which time, the ledger leaves open; that it
is not one from before the wait for the locks is `DecidesAfterItsLocks` of
`LockTimes`. There `locked[r]` remembers the clock at the last lock of a request;
the actions are those of `BookingCommands`, and `locked` has no part in them. A
command that read its clock first would pass the ledger, and fail here: a visit
that begins while its cancellation waits would still be cancelled.

### OutboxDelivery

Each worker is in `idle`, `claiming` (it has read `now`), `sending`, `sent`,
`failed` or `dead`. A claim is one step after the clock reading: `bulk_create`,
selection and lease commit together. SKIP LOCKED is visible only when the
transaction that holds the row then aborts; that case is left out, it delays a
claim to the next poll. Times are relative (ticks until the lease ends, until the
delivery is due, since the claim has read its clock), so nothing bounds the clock.
`SendTime` bounds one delivery from its clock reading to its end.

### RateLimit

`enforce_mutation_limit` step by step: the locking read, the insert with its wait
for an uncommitted one, the increment from the value that was read, and the query
in the broken transaction after a lost race (`FailInsert`).

### CatalogChanges

Every transaction has a *plan* of row locks (`LockPlan`): a creation its barber; a
change the barber, the booking and, by `select_related("branch")`, the branch; a
catalog or schedule change the branch and then all barbers by id. A creation
needs the branch once more at its commit, for its deferred foreign keys. A rule
and an exception are the same change of a barber's working interval.
`WaitCycle` is the deadlock; the detector picks any of its members.

### Calendar and Availability

An instant and a local timestamp are numbers of ticks; a zone has one offset
before its change and one after it. `Candidate`, `RoundTrips` and `LocalToUtc` are
the lines of `local_to_utc`; an operation that may raise `LocalTimeError` returns
the set of its value, empty when it raises. `Resolves` says what the conversion has
to mean, without its algorithm: the only instant that shows the local time.

A query goes from `idle` through `begun` (clock and branch read, `Begin`) and
`reading` (`ReadAssignments`, then one `ReadSchedule` for each assignment, date
and date of a shift) to `answered` (`Finish`: the bookings are read last). Bookings
are made and cancelled as `BookingLedger` allows, with the rules of
`create_booking` as `Outcome`; schedules change when the bookings to come still
fit, which is what `CatalogChanges` shows of them. `changed` is the history of the
query: the barbers about whom something has changed since the query has read it
(their assignments and schedules once the assignments are read, their bookings once
the answer is made). Whatever else has changed, before or between the reads, and
however far the clock has gone, the answer must agree with the rules of creation as
they are now for all other barbers, in both directions. A change of a barber's
schedule that falls between the reading of the assignments and that of this very
schedule counts as a change, although the query sees it.
`Starts`, the starts that a client may ask for, goes
as far as the horizon can let one through whatever the offsets
(`ValidStartsAreStarts` proves it), so that neither direction is about a part of
them only. Reschedules add nothing to creations and
cancellations here.

`YandexReads` adds the partner: one service is passed on as a filter, several are
filtered from an answer for all of them, after it has been cut at the limit. `CompanyFeed` numbers the external ids in
their order.

### GuestApi

A request stands at `lookup`, `authorize`, `roles`, `branches`, `execute`,
`reread` or `answered`; between two of these anything else may happen. Commands are
atomic with their receipt, which `BookingCommands` is shown to implement. Request
`r` draws the session `r` and the token `r`; a browser keeps the cookie of an
answer that it gets, unless the status is 500, in which case Django sets none. The
privacy jobs run at any time. `origin`, `completed` and `entitled` are history:
who made a booking, when a command took effect, whether the user was permitted the
outcome at some instant since its scopes began to be read.

## 3. Runs

Ticks stand for minutes in the command scenarios, where a visit takes two of them;
a tick is four hours in `reads` and a day in `guest`.

| Run | Question | Bounds |
| --- | --- | --- |
| `commands` | Double bookings, journal, decisions on current data and by a clock read after the locks, versions and outcomes while the visit passes | 3 requests of one attempt, 7 commands on the calendar of one barber and 3 bookings, clock to 4 (the end of the visit) |
| `retry` | Idempotency with the same and another payload, lost answers, redaction; implementation of `BookingLedger`; every request ends | 2 requests, 3 attempts as in the code, 5 commands, 2 barbers, 3 bookings, clock to 1: one key with two payloads, overlapping slots, a start that is too soon one tick later |
| `move_late` | finding: reschedule inside the two-hour window | 2 requests |
| `outbox` | Fencing when deliveries outlast the lease; every event settles | 2 workers, 2 events, lease 2, deliveries up to 2, one tick that finds deliveries past their lease, 2 attempts, 1 crash |
| `outbox_order` | finding: no serialization per booking | 2 events of one booking |
| `rate` | Exact counter, justified refusals, everyone ends | 4 requests, limit 2, 2 windows |
| `rate_race` | finding: broken transaction after a lost insert | 2 requests |
| `catalog` | INV-07, current settings, commands alone never deadlock, every transaction ends | 3 transactions, 6 jobs, 2 barbers, 3 bookings, 2 attempts |
| `catalog_order` | finding: lock order inversion | 2 transactions |
| `reads` | Conversion of local times; offered slots were free and are accepted, bookable ones are offered, the partner sees its services; feed walks lose nothing and repeat nothing | day of 6 ticks, three zones (fixed, skipping, repeating a tick during the overnight shift), 2 barbers, 3 services of 1, 3 and 2 ticks, two of them known to the partner, answers of 4 slots at most, 2 bookings, 2 changes, 2 instants of the clock; 3 companies, page sizes 0, 1, 2 |
| `slot_dst` | finding: an offered slot cannot be created | as `reads`, slots only |
| `guest` | One booking per session and key, one token, retention, only the own session manages, outcomes permitted | 2 browsers, 1 member of staff, 3 requests, 2 bookings, one key with two payloads, responses kept 1 tick, tokens 3, clock to 4, 1 change of scopes |

Why the bounds are enough: every race in the commands is between two transactions
on one barber, one booking or one receipt; the third request adds a bystander that
can observe or overtake. Requests do not return to `idle`, so a third one also
plays the client's repetition. One attempt suffices where a retry could only
repeat `begin` without any committed effect; `retry` has all three. Time bounds let
each rule (lead, start, two-hour window, end of the visit) pass while a request
waits. In `reads` a change of the zone meets an overnight shift, a shift that
begins in the missing tick, an exception that moves it and one that closes the
day; two changes put one between any two reads and undo it again, or change two
barbers at different times. The limit of the answer is met: it is small enough
that the slots of a third service, which the partner has not asked for, push out
those it has. In `guest` three requests are an action, its repetition after a
lost answer, and somebody else; the clock passes both retentions. `commands` and
`guest`, which have no liveness property, use the symmetry of their requests.

Fairness. `BookingCommands`: weak fairness of `Proceed(r)`, the steps that the
code and the database take for a started request, `lock_timeout` included; none
for retries, crashes, new requests or the clock. `OutboxDelivery`: workers run
(the loop of `run_worker`), a supervisor restarts them, time passes; deaths are
bounded by `MaxCrashes`, since a worker that always dies delivers nothing.
Lateness is bounded by `MaxLate`: a bounded number of ticks find a delivery past
its lease (see the limit below). `RateLimit`: requests run on. `CatalogChanges`:
transactions run on and the deadlock detector finds every cycle; timeouts are not
needed for it. The reads and the API have no liveness property: queries and
handlers are finite sequences of reads that wait for nobody.

## 4. Findings

1. **Reschedule ignores the two-hour window** (`move_late`). Requirement A-06 binds
   cancellation and rescheduling; `rescheduling.py:129` only refuses after the start.
2. **No serialization per booking** (`outbox_order`). Integration document and
   ADR-004 require it; `delivery.py:43` orders by `available_at` only, so a retry
   lets the next event of the same booking overtake.
3. **Broken transaction in the rate limit** (`rate_race`). The insert has no
   savepoint, so the fallback query after `IntegrityError` raises; the safety
   properties hold, but one of two first requests of a minute fails.
4. **Lock order inversion** (`catalog_order`). `select_for_update()` with
   `select_related("branch")` locks the branch after the barber, catalog changes
   lock it before. The database breaks the deadlock, and commands alone never
   deadlock (`catalog`).

5. **An offered slot that cannot be created** (`slot_dst`). The query skips a
   schedule date that raises `LocalTimeError` (`availability.py:88`);
   `booking_fits_schedule` (`policy.py:63`) evaluates the same two dates and lets
   the error escape. In the run the change of the zone skips the local time at
   which the morning shift of date 1 begins; that shift cannot be converted, the
   overnight shift of date 0 can, and a slot in it is offered and fails. The roadmap (`docs/roadmap.md:162`) states that every published
   slot is accepted. `OfferedSlotsAreAccepted` shows that this is the only way in
   which it fails.

Limits of what is shown.

* Only `fail` looks at `MAX_ATTEMPTS`, so an event whose worker outlasts its lease
  each time is claimed and sent again without limit; `EveryEventSettles` holds
  because `MaxLate` bounds that.
* `UpcomingBookingsKeepTheirToken` is about bookings that have not been moved: the
  token of a booking rescheduled beyond the retention is deleted before the visit.
* When the partner asks for several services, the cut at 500 counts the slots of
  all services and comes before the filter, so that late times of those asked for
  are lost, and the partner is not told. `PartnerSeesItsServices` shows that only
  such times are: of the barbers that have not changed everything before the cut is
  there.
* The limit aside, an answer is out of date for a barber as soon as something about
  the barber changes after it was read; the properties of the query say nothing of
  that barber, except `OfferedSlotsWereFree`.
* `OneBookingPerKey` is about a session. When the answer to the first creation of
  a browser is lost, so is its cookie, and the repetition with the same key is
  another command (FR-04 promises the client one booking id).

Met while reading, visible in `GuestApi` and without a run of their own: of
`IdempotencyResultExpired`, `BookingRuleViolation` and `BookingRetryableError` the
API catches none, so that it answers 500 where `docs/architecture/booking-flow.md:88`
says 410, 422 and 503; a conflict of payloads is caught for creations only.
`replace_result_with_tombstone` writes no `PrivacyRedaction`, unlike
`redact_expired_receipts`; nothing but tests calls it.

## 5. Proofs

Every safety and action property of the passing runs is a theorem of its
specification, and so is the refinement; the four properties that are left are
about liveness. The theorems hold for every value of the constants under the
assumptions that the modules state, which the runs evaluate:

| Assumption | Says | Because |
| --- | --- | --- |
| `BookingRules`, `BookingCommands` | Well-formed commands, positive durations and grid, null values outside their sets; initial bookings confirmed, at version 1, disjoint | constraints of the tables; requests are parsed before |
| `OutboxDelivery` | Events are numbered; there are more tokens than events and workers | UUID4 tokens are fresh |
| `RateLimit` | The limit is positive | settings |
| `CatalogChanges` | Branch, barbers and bookings are different rows; well-formed jobs; the initial bookings fit the schedule | tables; INV-07 holds at the start |
| `Calendar`, `Availability`, `YandexReads` | A day has a tick, offsets are shorter than it; grid, horizon and durations are positive; finitely many barbers and services; shifts are not empty; dates are integers | `clean()`, constraints |
| `CompanyFeed` | Finitely many companies, page sizes are numbers | |
| `GuestApi` | Guests are not users; roles have the branches of their kind; tokens are kept for longer than the horizon reaches | check constraint of `StaffScope`; the defaults, 90 and 60 days, see the limits above |

The inductive invariants and why they are needed:

* **Types** (`BookingCommandsProofs`). `TypeOK` is not inductive: that `staged[r]`
  is a booking when `Commit` uses it follows from where the request is. `TypeInv`
  adds `Phases`, which ties `cmd`, `seen` and `staged` to `pc`.
* **Slots** (`BookingCommandsProofs`). `SlotInv` adds to `TypeInv`
  * `LockInv`: a request that decides holds the lock of its barber, and the row
    it has read under its locks is still the committed one;
  * `StageInv`: what a request has staged is for the barber it has locked, is
    what its command may make of the row it has read, and clashes with no
    committed row;
  * `StagedApart`: no two requests have staged the same booking;
  * `RowsApart`: no two committed rows clash in the sense of the exclusion
    constraint, from which `NoDoubleBooking` follows.

  The barber lock makes `Commit` local: another request cannot have changed this
  barber's rows between decision and commit.
* **Receipts and journal** (`BookingReceiptsProofs`). `LedgerInv` adds to
  `SlotInv`
  * `VerdictInv`: what is staged is still the verdict of the atomic command on the
    committed bookings, at some time that has passed;
  * `ReceiptInv`: whoever is in its transaction has a receipt that is not stored
    yet and that nobody else is in a transaction for;
  * `JournalInv`: the entries of a booking have the versions 1 to the present one,
    each once;
  * `EffectInv`, `AnswerInv`, `StoredInv`: who made an entry was answered with its
    version or died; an answer that names a result is the stored one; a stored
    success names an entry.

  From it follow the five properties of journal, receipts, answers and outcomes, and
  the refinement `CommandsImplementTheLedger`: `Commit` is the atomic command
  (`CommitIsRecorded`), a redaction forgets a result, every other step stutters.
  `DecisionsComeAfterLocks` needs a sharper `VerdictInv`: the lemmas about it
  (`FreshVerdict`, `VerdictStays`) say that what is staged is the verdict of an
  instant since any bound that the decision was not earlier than. With 0 the bound is
  that of `VerdictInv`; with `locked` it gives the theorem, because a request takes no
  lock after its decision (`NextLockTimes`).
* **Delivery** (`OutboxDeliveryProofs`). That a worker keeps its lease is not
  inductive alone: somebody could hold the same token. `OutboxInv` adds
  `TokensApart`, `ClaimInv` (a claim is of a committed event and lasts from claim
  to answer; who is `sent` has delivered) and `DeliveryInv` (only a delivery under
  way has an owner and a lease).
* **Rate limit** (`RateLimitProofs`). `RateInv`: what a request has read under the
  row lock is still the counter, and while its insert is uncommitted there is no
  counter (`Knows`); the counter is the number of requests let through (`Counts`).
  Infinitely many requests are allowed for.
* **Catalog** (`CatalogChangesProofs`). `CatalogInv`: what a transaction owns is
  exactly the part of its plan that it has taken (`Protocol`), and a decided
  creation owns its barber (`Drafted`). A change of the settings owns every barber
  when it commits, hence no creation is decided at that time. Commands never
  deadlock (`NoCircleOfCommands`): in a cycle everyone owns a row and so waits for
  no barber; one that waits for a booking owns its barber, and so does the owner of
  the booking; so all wait for the branch, which no command owns while it waits.
* **Calendar** (`ReadsProofs`), for every zone of one change, local time and shift.
  `CandidatesSuffice`: an instant that shows a local time is one of the two
  candidates, so that looking at two folds is enough; from it
  `OnlyUniqueTimesConvert` and `LocalTimeResolves`. `ConversionIsMonotone`: if the
  later of two local times were the earlier instant, the clock would have been set
  back in between, and one of them would have been shown twice.
  `ShiftsArePositive` follows: the check in `rule_interval_utc` never fires, and
  exceptions need none.
* **Availability** (`ReadsProofs`). `AvailInv` says what the query holds at each
  phase, and that for every barber outside `changed` this is what the tables still
  say (`AvailCurrent`): `assigned` is what matches, every interval found is one of
  the schedule (`FoundIsTrue`), every assignment and date is evaluated,
  unconvertible or still to be done (`AllIsFound`), and once the query is answered
  the answer is cut from candidates that no live booking of such a barber overlaps
  (`CutFrom`). A change leaves all of this as it is for the other barbers,
  bookings included (`ChangedStep`). `OfferIsOfferable` and `OfferableIsCandidate`
  then relate the candidates to the rules of creation, one direction for each
  property; that a start was far enough ahead when the query began follows from its
  being so now (`ValidNowWasValid`).
  `CandidateStartsMean` turns the grid of a date into the test of `ValidStart`, and
  a booking that clashes with a candidate lies within the window of all candidates
  (`FreeSlotsAreFree`). For the limit, a finite set of slots has a first and a last
  one in lexicographic order (`FiniteHasMinimal`), so the answer is the beginning of
  the free slots (`CutIsInitial`), at most the limit (`CutIsBounded`), and full when
  something was cut (`CutIsFull`).
* **Partner** (`ReadsProofs`). `PartnerInv` adds that the query under way asks for
  one date, the largest limit and a filter that passes the services wanted;
  `PartnerSeesExactly` follows: the answer is at its limit, and with it everything
  precedes what is missing, or complete. Both readers keep `AvailInv`
  (`ReadersKeepTheQuery`).
* **Feed** (`ReadsProofs`). `FeedInv`: nothing listed is beyond the cursor, and
  whatever is steady is listed or beyond it, because a page is an initial segment
  of what follows the cursor (`PageIsInitial`, `LastPageIsComplete`) and the next
  cursor is its last company (`CursorIsLastOfPage`).
* **HTTP API** (`GuestApiProofs`). `GuestInv` is `StoreInv`, about the tables: a
  creation leaves a receipt that is never removed and names its booking
  (`Recorded`, `Kept`), a token outlives the horizon of its creation (`Granted`);
  and `Handler`, about each request: where it stands and in which session
  (`Placed`), what it has found (`Found`), that nobody passes the two reads of the
  scopes who was permitted at no instant between them (`Judged`), and that its
  answer is true (`Told`). What a handler knows stays true while others move because
  the tables only grow (`StoreGrows`).

TLC finds each of these invariants to hold on the instance of a run as well: `SlotInv` on
`commands`, `LedgerInv` on `commands` and `retry`, `OutboxInv` on `outbox`,
`RateInv` on `rate`, `CatalogInv` on `catalog`, `GuestInv` on `guest`, `PartnerInv`
and `FeedInv` on `reads`.

Only model-checked, and why: `EveryRequestFinishes`, `EveryEventSettles`,
`EveryRequestEnds` and `EveryTransactionEnds` rest on fairness, and TLAPS reasons
about neither fairness nor ENABLED here. The properties of the runs that end in a
violation do not hold, so there is nothing to prove. No assumption of a theorem is
about the bounds (`MaxTime`, `MaxChanges`, ...) except that they are numbers.

## 6. Not modelled

Prices, names and reasons; parsing and formatting of requests, the 404 of an
unknown branch and the 422 of malformed input, which change nothing; cryptography
of tokens and the JWT check of the partner; the partner's lists of services and
resources, which are single reads; zones with several changes in the days looked
at; a change of a branch's settings (zone, grid, horizon), for which the code has
no operation; the moment between the two queries of `intervals_starting_on`, which
read disjoint tables and are one step; durations of waits, so neither the deadline
of four seconds nor the unlimited wait for a receipt of another transaction;
observability, health, settings and wiring.

## 7. Plan

What is left:

1. The safety half of the liveness properties as theorems: in every state that is
   not final some action of `Proceed` is possible, stated without ENABLED.
2. The refinement from `GuestApi`'s atomic commands and from the `Book` and `Cancel`
   of `Availability` to `BookingLedger`, which is argued here in words only.
3. The serialization per booking and the lock order, once the code has changed:
   the runs `outbox_order` and `catalog_order` then become passing ones.

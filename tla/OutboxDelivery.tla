--------------------------- MODULE OutboxDelivery ---------------------------
(***************************************************************************)
(* Delivery of the booking outbox to one destination.  Workers run         *)
(* deliver_one in a loop: a short transaction claims the oldest ready      *)
(* delivery and leases it under a fresh owner token, the transport sends   *)
(* the event outside any transaction, and a second transaction             *)
(* acknowledges the delivery or releases it for a retry.  A worker that    *)
(* dies leaves its lease to expire.                                        *)
(*                                                                         *)
(* Times are relative, so that the clock needs no bound: `lease` and `due` *)
(* count the ticks until lease_expires_at and available_at, and `age` the  *)
(* ticks since a worker read the `now` of its claim.                       *)
(***************************************************************************)
EXTENDS Integers, FiniteSets

CONSTANTS
  Events,       \* outbox events, numbered in the order they occurred
  BookingOf,    \* event -> the booking it is about
  Workers,      \* worker processes of the destination
  Tokens,       \* owner tokens, numbered; one nobody holds is as good as a fresh UUID
  NoToken,      \* owner_token IS NULL
  NoEvent,      \* a worker without a claim
  Lease,        \* LEASE_SECONDS
  MaxAttempts,  \* MAX_ATTEMPTS
  MaxBackoff,   \* the cap of the retry delay, 300 seconds in the code
  MaxExponent,  \* the cap of its exponent, 8 in the code
  SendTime,     \* ticks from the start of a claim to the end of its delivery
  MaxCrashes,   \* bound on the deaths of workers, for model checking
  MaxLate       \* bound on the ticks that find a delivery past its lease

ASSUME EventsAssumption == Events \subseteq Nat /\ NoEvent \notin Events

ASSUME WorkersAssumption ==
  /\ Tokens \subseteq Nat /\ NoToken \notin Tokens
  /\ Cardinality(Tokens) > Cardinality(Events) + Cardinality(Workers)

ASSUME TimesAssumption ==
  /\ Lease \in Nat \ {0} /\ MaxAttempts \in Nat \ {0} /\ MaxBackoff \in Nat \ {0}
  /\ MaxExponent \in Nat /\ SendTime \in Nat
  /\ MaxCrashes \in Nat /\ MaxLate \in Nat

VARIABLES
  committed,  \* events that booking commands have committed
  state,      \* event -> state of its delivery; "NEW" without a row
  owner,      \* event -> owner_token
  lease,      \* event -> ticks until lease_expires_at
  due,        \* event -> ticks until available_at
  attempts,   \* event -> attempts, counted up to MaxAttempts
  pc,         \* worker -> where it is in deliver_one
  claim,      \* worker -> its ClaimedDelivery
  age,        \* worker -> ticks since it started its claim
  arrived,    \* events that the destination has received
  crashes,    \* deaths so far
  late        \* ticks so far that found a delivery past its lease

deliveries == <<state, owner, lease, due, attempts>>
workers == <<pc, claim, age>>
vars == <<committed, state, owner, lease, due, attempts, pc, claim, age,
          arrived, crashes, late>>

NoClaim == [event |-> NoEvent, token |-> NoToken]
Claims == [event: Events, token: Tokens]
Settled == {"DELIVERED", "PARKED"}

Smaller(m, n) == IF m < n THEN m ELSE n
Larger(m, n) == IF m < n THEN n ELSE m

\* Past times are told apart for as long as a claim may be under way.
Oldest == -(SendTime + 1)

Init ==
  /\ committed = {}
  /\ state = [e \in Events |-> "NEW"]
  /\ owner = [e \in Events |-> NoToken]
  /\ lease = [e \in Events |-> 0]
  /\ due = [e \in Events |-> 0]
  /\ attempts = [e \in Events |-> 0]
  /\ pc = [w \in Workers |-> "idle"]
  /\ claim = [w \in Workers |-> NoClaim]
  /\ age = [w \in Workers |-> 0]
  /\ arrived = {}
  /\ crashes = 0
  /\ late = 0

-----------------------------------------------------------------------------

\* A booking command commits its outbox event.
AppendEvent(e) ==
  /\ e \notin committed /\ \A f \in Events : f < e => f \in committed
  /\ committed' = committed \cup {e}
  /\ UNCHANGED <<deliveries, workers, arrived, crashes, late>>

\* claim_next reads the clock before any statement that may wait.
StartClaim(w) ==
  /\ pc[w] = "idle"
  /\ pc' = [pc EXCEPT ![w] = "claiming"]
  /\ age' = [age EXCEPT ![w] = 0]
  /\ UNCHANGED <<committed, deliveries, claim, arrived, crashes, late>>

\* bulk_create(ignore_conflicts): every committed event has a delivery,
\* available since the `now` of the claim.
Known(e) == e \in committed
StateAfterCreate(e) ==
  IF Known(e) /\ state[e] = "NEW" THEN "PENDING" ELSE state[e]
DueAfterCreate(w, e) ==
  IF Known(e) /\ state[e] = "NEW" THEN -age[w] ELSE due[e]

\* Mutated form of Ready: the lease of a PROCESSING delivery is not looked at.
ReadyDespiteLease(w, e) ==
  StateAfterCreate(e) \in {"PENDING", "PROCESSING"} /\ DueAfterCreate(w, e) + age[w] <= 0

\* Mutated form of Ready: a parked delivery is picked up again.
ReadyWhenParked(w, e) ==
  \/ StateAfterCreate(e) \in {"PENDING", "PARKED"} /\ DueAfterCreate(w, e) + age[w] <= 0
  \/ state[e] = "PROCESSING" /\ lease[e] + age[w] <= 0

\* Ready at the `now` that the claim has read: waiting and due, or leased with
\* the lease run out.
Ready(w, e) ==
  \/ StateAfterCreate(e) = "PENDING" /\ DueAfterCreate(w, e) + age[w] <= 0
  \/ state[e] = "PROCESSING" /\ lease[e] + age[w] <= 0

\* ORDER BY available_at, id.
Before(w, e, f) ==
  \/ DueAfterCreate(w, e) < DueAfterCreate(w, f)
  \/ DueAfterCreate(w, e) = DueAfterCreate(w, f) /\ e < f

FirstReady(w, e) ==
  Ready(w, e) /\ \A f \in Events \ {e} : Ready(w, f) => Before(w, e, f)

FreshToken(t) ==
  /\ \A e \in Events : owner[e] # t
  /\ \A w \in Workers : claim[w].token # t

\* Which fresh token it is makes no difference: the lowest.
DrawsToken(t) == FreshToken(t) /\ \A u \in Tokens : FreshToken(u) => t <= u

\* Mutated form of LeaseLeft: the lease is not as long as the constant says.
HalfLease(w) == (Lease \div 2) - age[w]

\* The lease counts from the `now` of the claim, not from its commit.
LeaseLeft(w) == Lease - age[w]

CreateDeliveries(w) ==
  due' = [e \in Events |-> DueAfterCreate(w, e)]

ClaimNext(w, e, t) ==
  /\ pc[w] = "claiming"
  /\ FirstReady(w, e) /\ DrawsToken(t)
  /\ CreateDeliveries(w)
  /\ state' = [f \in Events |-> IF f = e THEN "PROCESSING" ELSE StateAfterCreate(f)]
  /\ owner' = [owner EXCEPT ![e] = t]
  /\ lease' = [lease EXCEPT ![e] = LeaseLeft(w)]
  /\ attempts' = [attempts EXCEPT ![e] = Smaller(@ + 1, MaxAttempts)]
  /\ claim' = [claim EXCEPT ![w] = [event |-> e, token |-> t]]
  /\ pc' = [pc EXCEPT ![w] = "sending"]
  /\ UNCHANGED <<committed, age, arrived, crashes, late>>

ClaimNothing(w) ==
  /\ pc[w] = "claiming"
  /\ \A e \in Events : ~Ready(w, e)
  /\ CreateDeliveries(w)
  /\ state' = [e \in Events |-> StateAfterCreate(e)]
  /\ pc' = [pc EXCEPT ![w] = "idle"]
  /\ age' = [age EXCEPT ![w] = 0]
  /\ UNCHANGED <<committed, owner, lease, attempts, claim, arrived, crashes, late>>

\* The transport returns, or raises DeliveryTransportError; an error does not
\* tell whether the destination has received the event.
Send(w, reached, ok) ==
  /\ pc[w] = "sending" /\ (ok => reached)
  /\ arrived' = IF reached THEN arrived \cup {claim[w].event} ELSE arrived
  /\ pc' = [pc EXCEPT ![w] = IF ok THEN "sent" ELSE "failed"]
  /\ UNCHANGED <<committed, deliveries, claim, age, crashes, late>>

\* Mutated form of HoldsDelivery: the owner token is not part of the filter.
HoldsAnyDelivery(w) == state[claim[w].event] = "PROCESSING"

HoldsDelivery(w) ==
  /\ state[claim[w].event] = "PROCESSING"
  /\ owner[claim[w].event] = claim[w].token

EndDelivery(w) ==
  /\ claim' = [claim EXCEPT ![w] = NoClaim]
  /\ pc' = [pc EXCEPT ![w] = "idle"]
  /\ age' = [age EXCEPT ![w] = 0]
  /\ UNCHANGED <<committed, arrived, crashes, late>>

\* Mutated form of Acknowledge: deliver_one acknowledges in a finally block.
AcknowledgeAnyResult(w) ==
  /\ pc[w] \in {"sent", "failed"}
  /\ HoldsDelivery(w) /\ lease[claim[w].event] > 0
  /\ state' = [state EXCEPT ![claim[w].event] = "DELIVERED"]
  /\ owner' = [owner EXCEPT ![claim[w].event] = NoToken]
  /\ lease' = [lease EXCEPT ![claim[w].event] = 0]
  /\ UNCHANGED <<due, attempts>>
  /\ EndDelivery(w)

\* acknowledge, when its UPDATE matches the delivery.
Acknowledge(w) ==
  /\ pc[w] = "sent"
  /\ HoldsDelivery(w) /\ lease[claim[w].event] > 0
  /\ state' = [state EXCEPT ![claim[w].event] = "DELIVERED"]
  /\ owner' = [owner EXCEPT ![claim[w].event] = NoToken]
  /\ lease' = [lease EXCEPT ![claim[w].event] = 0]
  /\ UNCHANGED <<due, attempts>>
  /\ EndDelivery(w)

AcknowledgeTooLate(w) ==
  /\ pc[w] = "sent"
  /\ ~(HoldsDelivery(w) /\ lease[claim[w].event] > 0)
  /\ UNCHANGED deliveries
  /\ EndDelivery(w)

\* Mutated form of Backoff: the delay is not capped.
UncappedBackoff(n) == 2 ^ n

Backoff(n) == Smaller(MaxBackoff, 2 ^ Smaller(n, MaxExponent))

\* fail, when the worker still owns the delivery, its lease run out or not.
Fail(w) ==
  LET e == claim[w].event
      parked == attempts[e] >= MaxAttempts
  IN  /\ pc[w] = "failed"
      /\ HoldsDelivery(w)
      /\ state' = [state EXCEPT ![e] = IF parked THEN "PARKED" ELSE "PENDING"]
      /\ due' = [due EXCEPT ![e] = IF parked THEN 0 ELSE Backoff(attempts[e])]
      /\ owner' = [owner EXCEPT ![e] = NoToken]
      /\ lease' = [lease EXCEPT ![e] = 0]
      /\ UNCHANGED attempts
      /\ EndDelivery(w)

FailTooLate(w) ==
  /\ pc[w] = "failed"
  /\ ~HoldsDelivery(w)
  /\ UNCHANGED deliveries
  /\ EndDelivery(w)

\* The process dies, also by an exception that is not a transport error, which
\* run_worker does not catch.
Crash(w) ==
  /\ pc[w] # "dead" /\ crashes < MaxCrashes
  /\ crashes' = crashes + 1
  /\ pc' = [pc EXCEPT ![w] = "dead"]
  /\ claim' = [claim EXCEPT ![w] = NoClaim]
  /\ age' = [age EXCEPT ![w] = 0]
  /\ UNCHANGED <<committed, deliveries, arrived, late>>

\* The process supervisor starts the worker again.
Restart(w) ==
  /\ pc[w] = "dead"
  /\ pc' = [pc EXCEPT ![w] = "idle"]
  /\ UNCHANGED <<committed, deliveries, claim, age, arrived, crashes, late>>

Busy(w) == pc[w] \in {"claiming", "sending", "sent", "failed"}

\* A delivery that is still under way in the tick after its lease.
Outlasts(w) == Busy(w) /\ age[w] + 1 >= Lease

\* Time passes; no delivery takes longer than SendTime, and only MaxLate ticks
\* find one that outlasts its lease.
Tick ==
  /\ \A w \in Workers : Busy(w) => age[w] < SendTime
  /\ late' = IF \E w \in Workers : Outlasts(w) THEN late + 1 ELSE late
  /\ late' <= MaxLate
  /\ age' = [w \in Workers |-> IF Busy(w) THEN age[w] + 1 ELSE 0]
  /\ lease' = [e \in Events |->
       IF state[e] = "PROCESSING" THEN Larger(lease[e] - 1, Oldest) ELSE 0]
  /\ due' = [e \in Events |->
       IF state[e] \in {"PENDING", "PROCESSING"} THEN Larger(due[e] - 1, Oldest) ELSE 0]
  /\ UNCHANGED <<committed, state, owner, attempts, pc, claim, arrived, crashes>>

Work(w) ==
  \/ StartClaim(w) \/ ClaimNothing(w)
  \/ \E e \in Events, t \in Tokens : ClaimNext(w, e, t)
  \/ \E reached, ok \in BOOLEAN : Send(w, reached, ok)
  \/ Acknowledge(w) \/ AcknowledgeTooLate(w) \/ Fail(w) \/ FailTooLate(w)

Next ==
  \/ \E e \in Events : AppendEvent(e)
  \/ \E w \in Workers : Work(w) \/ Crash(w) \/ Restart(w)
  \/ Tick

Spec == Init /\ [][Next]_vars

\* Workers run and are restarted, and time passes.
Fairness ==
  /\ \A w \in Workers : WF_vars(Work(w)) /\ WF_vars(Restart(w))
  /\ WF_vars(Tick)

FairSpec == Spec /\ Fairness

-----------------------------------------------------------------------------
(* Properties. *)

TypeOK ==
  /\ committed \subseteq Events /\ arrived \subseteq committed
  /\ state \in [Events -> {"NEW", "PENDING", "PROCESSING"} \cup Settled]
  /\ owner \in [Events -> Tokens \cup {NoToken}]
  /\ lease \in [Events -> Oldest..Lease]
  /\ due \in [Events -> Oldest..MaxBackoff]
  /\ attempts \in [Events -> 0..MaxAttempts]
  /\ pc \in [Workers -> {"idle", "claiming", "sending", "sent", "failed", "dead"}]
  /\ claim \in [Workers -> Claims \cup {NoClaim}]
  /\ age \in [Workers -> 0..SendTime]
  /\ crashes \in 0..MaxCrashes /\ late \in 0..MaxLate

\* An event counts as delivered only after the destination has received it,
\* whoever acknowledged it and however often it was claimed.
DeliveredHasArrived ==
  \A e \in Events : state[e] = "DELIVERED" => e \in arrived

\* A worker that is within its time still owns the delivery it works on: its
\* acknowledgement is never refused and nobody else sends the event meanwhile.
\* The time counts from the clock reading, which is older than the claim.
FastWorkersKeepTheirLease ==
  \A w \in Workers : pc[w] \in {"sending", "sent", "failed"} /\ age[w] < Lease =>
    HoldsDelivery(w) /\ lease[claim[w].event] = Lease - age[w]

\* A lease that has not run out is ended only by the worker that owns it: the
\* acknowledgement, the failure and the claim of others leave it alone.
LiveLeaseIsExclusive ==
  [][\A e \in Events : lease[e] > 0 /\ owner'[e] # owner[e] =>
       \E w \in Workers : claim[w] = [event |-> e, token |-> owner[e]]
                          /\ claim'[w] = NoClaim]_vars

\* A delivery that is delivered or parked is never claimed or changed again.
SettledIsFinal ==
  [][\A e \in Events : state[e] \in Settled => state'[e] = state[e]]_vars

\* Every committed event is delivered in the end, or parked after its retries,
\* although workers die, the transport fails and some deliveries outlast their
\* lease.
EveryEventSettles ==
  \A e \in Events : e \in committed ~> state[e] \in Settled

\* Deliveries of one booking are serialized: a later event of a booking does
\* not reach the destination before an earlier one has been there.
SerializedByBooking ==
  \A e, f \in Events :
    e < f /\ BookingOf[e] = BookingOf[f] /\ f \in arrived => e \in arrived
=============================================================================

------------------------ MODULE OutboxDeliveryProofs ------------------------
(***************************************************************************)
(* Proofs about OutboxDelivery for every number of events and workers,     *)
(* every lease, delivery time and retry budget.                            *)
(*                                                                         *)
(* That a worker keeps its lease is not inductive by itself: another       *)
(* worker could hold the same token, or its event could be settled.  The   *)
(* invariant adds that tokens belong to one claim, that only a delivery    *)
(* under way has an owner and a lease, and what a claim says of its event. *)
(***************************************************************************)
EXTENDS OutboxDelivery, TLAPS, FiniteSetTheorems

UnderWay == {"sending", "sent", "failed"}

\* A worker has a claim, on a committed event, from its claim to its answer.
ClaimInv ==
  \A w \in Workers :
    /\ pc[w] \in UnderWay <=> claim[w] \in Claims
    /\ claim[w] \in Claims => claim[w].event \in committed
    /\ pc[w] = "sent" => claim[w].event \in arrived

\* No two claims have the same token.
TokensApart ==
  \A v, w \in Workers :
    claim[v] \in Claims /\ claim[w] \in Claims /\ claim[v].token = claim[w].token => v = w

\* Only committed events have deliveries, and only a delivery under way has an
\* owner and a lease.
DeliveryInv ==
  \A e \in Events :
    /\ state[e] # "NEW" => e \in committed
    /\ state[e] # "PROCESSING" => owner[e] = NoToken /\ lease[e] = 0

OutboxInv ==
  /\ TypeOK /\ ClaimInv /\ TokensApart /\ DeliveryInv
  /\ DeliveredHasArrived /\ FastWorkersKeepTheirLease

-----------------------------------------------------------------------------
(* Values. *)

LEMMA SmallerType ==
  ASSUME NEW m \in Int, NEW n \in Int
  PROVE  /\ Smaller(m, n) \in Int /\ Smaller(m, n) <= m /\ Smaller(m, n) <= n
         /\ Larger(m, n) \in Int /\ m <= Larger(m, n) /\ n <= Larger(m, n)
         /\ Smaller(m, n) \in {m, n} /\ Larger(m, n) \in {m, n}
BY DEF Smaller, Larger

\* Counting subsets shows that a power of two is at least one.
LEMMA PowerIsPositive ==
  ASSUME NEW k \in Nat
  PROVE  2 ^ k \in Nat \ {0}
<1>1. IsFiniteSet(1..k) /\ Cardinality(1..k) = k
  BY FS_Interval
<1>2. IsFiniteSet(SUBSET (1..k)) /\ Cardinality(SUBSET (1..k)) = 2 ^ k
  BY <1>1, FS_SUBSET
<1>3. SUBSET (1..k) # {}
  OBVIOUS
<1> QED
  BY <1>2, <1>3, FS_CardinalityType, FS_EmptySet

\* The retry delay is at least one tick and never above its cap.
LEMMA BackoffType ==
  ASSUME NEW n \in Nat
  PROVE  Backoff(n) \in 1..MaxBackoff
<1> DEFINE k == Smaller(n, MaxExponent)
<1>1. k \in Nat
  BY TimesAssumption, SmallerType DEF Smaller
<1>2. 2 ^ k \in Nat \ {0}
  BY <1>1, PowerIsPositive
<1> HIDE DEF k
<1>3. \A p \in Nat \ {0} : Smaller(MaxBackoff, p) \in 1..MaxBackoff
  BY TimesAssumption DEF Smaller
<1>4. Backoff(n) = Smaller(MaxBackoff, 2 ^ k)
  BY DEF Backoff, k
<1> QED
  BY <1>2, <1>3, <1>4

LEMMA Times ==
  ASSUME TypeOK, NEW w \in Workers
  PROVE  /\ Oldest \in Int /\ Oldest <= -1 /\ age[w] \in Nat /\ age[w] <= SendTime
         /\ LeaseLeft(w) \in Oldest..Lease
         /\ \A e \in Events : DueAfterCreate(w, e) \in Oldest..MaxBackoff
<1>1. age[w] \in 0..SendTime /\ SendTime \in Nat /\ MaxBackoff \in Nat /\ Lease \in Nat
  BY TimesAssumption DEF TypeOK
<1>2. \A e \in Events : due[e] \in Oldest..MaxBackoff
  BY DEF TypeOK
<1> QED
  BY <1>1, <1>2 DEF Oldest, LeaseLeft, DueAfterCreate

LEMMA ClaimShape ==
  ASSUME TypeOK, ClaimInv, NEW w \in Workers
  PROVE  /\ NoClaim \notin Claims
         /\ pc[w] \in UnderWay =>
              /\ claim[w] \in Claims /\ claim[w].event \in Events
              /\ claim[w].token \in Tokens /\ claim[w].event \in committed
         /\ pc[w] \notin UnderWay => claim[w] = NoClaim
<1>1. NoClaim \notin Claims
  BY EventsAssumption DEF NoClaim, Claims
<1> QED
  BY <1>1 DEF ClaimInv, TypeOK, Claims

-----------------------------------------------------------------------------
(* OutboxInv is inductive: one lemma per kind of step. *)

LEMMA InitOutbox == Init => OutboxInv
<1> SUFFICES ASSUME Init PROVE OutboxInv
  OBVIOUS
<1>1. \A w \in Workers : pc[w] = "idle" /\ claim[w] = NoClaim
  BY DEF Init
<1>2. \A e \in Events : state[e] = "NEW" /\ owner[e] = NoToken /\ lease[e] = 0
  BY DEF Init
<1>3. NoClaim \notin Claims
  BY EventsAssumption DEF NoClaim, Claims
<1>4. TypeOK
  <2>1. 0 \in Oldest..Lease /\ 0 \in Oldest..MaxBackoff /\ 0 \in 0..SendTime
    BY TimesAssumption DEF Oldest
  <2>2. 0 \in 0..MaxAttempts /\ 0 \in 0..MaxCrashes /\ 0 \in 0..MaxLate
    BY TimesAssumption
  <2> QED
    BY <2>1, <2>2 DEF Init, TypeOK
<1> QED
  BY <1>1, <1>2, <1>3, <1>4
     DEF OutboxInv, ClaimInv, TokensApart, DeliveryInv, DeliveredHasArrived,
         FastWorkersKeepTheirLease, UnderWay

\* The committed events grow; deliveries and claims stay.
LEMMA AppendStep ==
  ASSUME OutboxInv, NEW e \in Events, AppendEvent(e)
  PROVE  OutboxInv'
<1>1. TypeOK'
  BY DEF OutboxInv, TypeOK, AppendEvent, deliveries, workers
<1> QED
  BY <1>1 DEF OutboxInv, ClaimInv, TokensApart, DeliveryInv, DeliveredHasArrived,
              FastWorkersKeepTheirLease, AppendEvent, deliveries, workers, HoldsDelivery

\* A worker without a claim starts one or is started again.
LEMMA IdleSteps ==
  ASSUME OutboxInv, NEW w \in Workers, StartClaim(w) \/ Restart(w)
  PROVE  OutboxInv'
<1> USE DEF OutboxInv
<1>1. /\ pc'[w] \notin UnderWay /\ pc[w] \notin UnderWay
      /\ \A v \in Workers \ {w} : pc'[v] = pc[v] /\ age'[v] = age[v]
      /\ UNCHANGED <<committed, deliveries, claim, arrived>>
  BY DEF StartClaim, Restart, UnderWay, TypeOK
<1>2. TypeOK'
  BY TimesAssumption DEF StartClaim, Restart, TypeOK, deliveries
<1>3. ClaimInv'
  BY <1>1 DEF ClaimInv, UnderWay
<1>4. FastWorkersKeepTheirLease'
  BY <1>1 DEF FastWorkersKeepTheirLease, HoldsDelivery, UnderWay, deliveries
<1>5. TokensApart' /\ DeliveryInv' /\ DeliveredHasArrived'
  BY <1>1 DEF TokensApart, DeliveryInv, DeliveredHasArrived, deliveries
<1> QED
  BY <1>2, <1>3, <1>4, <1>5

\* A worker that claims an event leases it under a token nobody has.
LEMMA ClaimNextStep ==
  ASSUME OutboxInv, NEW w \in Workers, NEW e \in Events, NEW t \in Tokens, ClaimNext(w, e, t)
  PROVE  OutboxInv'
<1> USE DEF OutboxInv
<1>1. /\ pc[w] = "claiming" /\ claim[w] = NoClaim /\ NoClaim \notin Claims
      /\ \A v \in Workers : claim[v].token # t
  BY ClaimShape DEF ClaimNext, DrawsToken, FreshToken, UnderWay
<1>2. e \in committed /\ (state[e] = "PROCESSING" => lease[e] + age[w] <= 0)
  BY DEF ClaimNext, FirstReady, Ready, StateAfterCreate, Known, DeliveryInv
<1>3. /\ claim'[w] = [event |-> e, token |-> t] /\ claim'[w] \in Claims
      /\ pc'[w] = "sending"
      /\ \A v \in Workers \ {w} : claim'[v] = claim[v] /\ pc'[v] = pc[v]
      /\ UNCHANGED <<committed, age, arrived>>
  BY DEF ClaimNext, TypeOK, Claims
<1>4. /\ state'[e] = "PROCESSING" /\ owner'[e] = t /\ lease'[e] = LeaseLeft(w)
      /\ \A f \in Events \ {e} : /\ state'[f] = StateAfterCreate(f)
                                 /\ owner'[f] = owner[f] /\ lease'[f] = lease[f]
  BY DEF ClaimNext, TypeOK
<1>5. TypeOK'
  <2>1. lease' \in [Events -> Oldest..Lease] /\ due' \in [Events -> Oldest..MaxBackoff]
    BY Times DEF ClaimNext, CreateDeliveries, TypeOK
  <2>2. attempts' \in [Events -> 0..MaxAttempts]
    <3>1. attempts[e] \in Nat /\ MaxAttempts \in Nat
      BY TimesAssumption DEF TypeOK
    <3>2. Smaller(attempts[e] + 1, MaxAttempts) \in 0..MaxAttempts
      BY <3>1 DEF Smaller
    <3> QED
      BY <3>2 DEF ClaimNext, TypeOK
  <2>3. state' \in [Events -> {"NEW", "PENDING", "PROCESSING"} \cup Settled]
    BY DEF ClaimNext, TypeOK, StateAfterCreate
  <2> QED
    BY <1>3, <2>1, <2>2, <2>3 DEF ClaimNext, TypeOK
<1>6. ClaimInv'
  BY <1>2, <1>3 DEF ClaimInv, UnderWay
<1>7. TokensApart'
  BY <1>1, <1>3 DEF TokensApart
<1>8. DeliveryInv'
  BY <1>2, <1>3, <1>4 DEF DeliveryInv, StateAfterCreate, Known
<1>9. DeliveredHasArrived'
  BY <1>3, <1>4 DEF DeliveredHasArrived, StateAfterCreate
<1>10. FastWorkersKeepTheirLease'
  <2> SUFFICES ASSUME NEW v \in Workers, pc'[v] \in UnderWay, age'[v] < Lease
               PROVE  HoldsDelivery(v)' /\ lease'[claim'[v].event] = Lease - age'[v]
    BY DEF FastWorkersKeepTheirLease, UnderWay
  <2>1. CASE v = w
    BY <1>3, <1>4, <2>1 DEF HoldsDelivery, LeaseLeft
  <2>2. CASE v # w
    <3>1. HoldsDelivery(v) /\ lease[claim[v].event] = Lease - age[v] /\ claim[v].event \in Events
      BY <1>3, <2>2, ClaimShape DEF FastWorkersKeepTheirLease, UnderWay
    <3>2. claim[v].event # e
      BY <1>2, <1>3, <3>1, Times, TimesAssumption DEF HoldsDelivery
    <3> QED
      BY <1>3, <1>4, <2>2, <3>1, <3>2 DEF HoldsDelivery, StateAfterCreate
  <2> QED
    BY <2>1, <2>2
<1> QED
  BY <1>5, <1>6, <1>7, <1>8, <1>9, <1>10

LEMMA ClaimNothingStep ==
  ASSUME OutboxInv, NEW w \in Workers, ClaimNothing(w)
  PROVE  OutboxInv'
<1> USE DEF OutboxInv
<1>1. /\ pc[w] = "claiming" /\ pc'[w] = "idle"
      /\ \A v \in Workers \ {w} : pc'[v] = pc[v] /\ age'[v] = age[v]
      /\ UNCHANGED <<committed, owner, lease, attempts, claim, arrived>>
      /\ \A f \in Events : state'[f] = StateAfterCreate(f)
  BY DEF ClaimNothing, TypeOK
<1>2. TypeOK'
  <2>1. due' \in [Events -> Oldest..MaxBackoff]
    BY Times DEF ClaimNothing, CreateDeliveries
  <2>2. state' \in [Events -> {"NEW", "PENDING", "PROCESSING"} \cup Settled]
    BY DEF ClaimNothing, TypeOK, StateAfterCreate
  <2> QED
    BY <2>1, <2>2, TimesAssumption DEF ClaimNothing, TypeOK
<1>3. ClaimInv' /\ TokensApart'
  BY <1>1 DEF ClaimInv, TokensApart, UnderWay
<1>4. DeliveryInv' /\ DeliveredHasArrived'
  BY <1>1 DEF DeliveryInv, DeliveredHasArrived, StateAfterCreate, Known
<1>5. FastWorkersKeepTheirLease'
  BY <1>1, ClaimShape
     DEF FastWorkersKeepTheirLease, HoldsDelivery, UnderWay, StateAfterCreate
<1> QED
  BY <1>2, <1>3, <1>4, <1>5

LEMMA SendStep ==
  ASSUME OutboxInv, NEW w \in Workers, NEW reached \in BOOLEAN, NEW ok \in BOOLEAN,
         Send(w, reached, ok)
  PROVE  OutboxInv'
<1> USE DEF OutboxInv
<1>1. claim[w].event \in Events /\ claim[w].event \in committed
  BY ClaimShape DEF Send, UnderWay
<1>2. /\ pc[w] = "sending" /\ pc'[w] \in {"sent", "failed"}
      /\ pc'[w] = "sent" => claim[w].event \in arrived'
      /\ arrived \subseteq arrived'
      /\ \A v \in Workers \ {w} : pc'[v] = pc[v]
      /\ UNCHANGED <<committed, deliveries, claim, age>>
  BY DEF Send, TypeOK
<1>3. TypeOK'
  BY <1>1 DEF Send, TypeOK, deliveries
<1>4. ClaimInv'
  BY <1>2 DEF ClaimInv, UnderWay
<1>5. TokensApart' /\ DeliveryInv' /\ DeliveredHasArrived'
  BY <1>2 DEF TokensApart, DeliveryInv, DeliveredHasArrived, deliveries
<1>6. FastWorkersKeepTheirLease'
  BY <1>2 DEF FastWorkersKeepTheirLease, HoldsDelivery, deliveries
<1> QED
  BY <1>3, <1>4, <1>5, <1>6

\* A worker drops its claim, because it has ended its delivery or has died.
DropsClaim(w) ==
  /\ pc'[w] \notin UnderWay /\ claim'[w] = NoClaim
  /\ \A v \in Workers \ {w} : pc'[v] = pc[v] /\ claim'[v] = claim[v] /\ age'[v] = age[v]
  /\ UNCHANGED <<committed, arrived>>

LEMMA DropStep ==
  ASSUME OutboxInv, NEW w \in Workers, DropsClaim(w), TypeOK', DeliveryInv',
         DeliveredHasArrived',
         \A e \in Events : (pc[w] \in UnderWay /\ HoldsDelivery(w) => e # claim[w].event) =>
           state'[e] = state[e] /\ owner'[e] = owner[e] /\ lease'[e] = lease[e]
  PROVE  OutboxInv'
<1> USE DEF OutboxInv
<1>1. NoClaim \notin Claims
  BY ClaimShape
<1>2. ClaimInv' /\ TokensApart'
  BY <1>1 DEF DropsClaim, ClaimInv, TokensApart, UnderWay
<1>3. FastWorkersKeepTheirLease'
  <2> SUFFICES ASSUME NEW v \in Workers, pc'[v] \in UnderWay, age'[v] < Lease
               PROVE  HoldsDelivery(v)' /\ lease'[claim'[v].event] = Lease - age'[v]
    BY DEF FastWorkersKeepTheirLease, UnderWay
  <2>1. v # w /\ claim'[v] = claim[v] /\ pc'[v] = pc[v] /\ age'[v] = age[v]
    BY DEF DropsClaim
  <2>2. /\ HoldsDelivery(v) /\ lease[claim[v].event] = Lease - age[v]
        /\ claim[v] \in Claims /\ claim[v].event \in Events
    BY <2>1, ClaimShape DEF FastWorkersKeepTheirLease, UnderWay
  <2>3. ASSUME pc[w] \in UnderWay, HoldsDelivery(w)
        PROVE  claim[v].event # claim[w].event
    BY <2>1, <2>2, <2>3, ClaimShape DEF HoldsDelivery, TokensApart
  <2> QED
    BY <2>1, <2>2, <2>3 DEF HoldsDelivery
<1> QED
  BY <1>2, <1>3

LEMMA EndSteps ==
  ASSUME OutboxInv, NEW w \in Workers,
         Acknowledge(w) \/ AcknowledgeTooLate(w) \/ Fail(w) \/ FailTooLate(w) \/ Crash(w)
  PROVE  OutboxInv'
<1> USE DEF OutboxInv
<1> DEFINE e == claim[w].event
<1>1. 0 \in Oldest..Lease /\ 0 \in Oldest..MaxBackoff /\ 0 \in 0..SendTime /\ SendTime \in Nat
  BY TimesAssumption DEF Oldest
<1>2. DropsClaim(w) /\ (pc[w] \in {"sent", "failed"} => e \in Events /\ e \in committed)
  <2>1. CASE Crash(w)
    BY <2>1, ClaimShape DEF Crash, DropsClaim, UnderWay, TypeOK
  <2>2. CASE ~Crash(w)
    <3>1. EndDelivery(w)
      BY <2>2 DEF Acknowledge, AcknowledgeTooLate, Fail, FailTooLate
    <3> QED
      BY <3>1, ClaimShape DEF EndDelivery, DropsClaim, UnderWay, TypeOK
  <2> QED
    BY <2>1, <2>2
<1>3. CASE AcknowledgeTooLate(w) \/ FailTooLate(w) \/ Crash(w)
  <2>1. UNCHANGED <<deliveries, committed, arrived>>
    BY <1>3 DEF AcknowledgeTooLate, FailTooLate, Crash, EndDelivery
  <2>2. TypeOK'
    BY <1>1, <1>3, TimesAssumption
       DEF AcknowledgeTooLate, FailTooLate, Crash, EndDelivery, TypeOK, deliveries
  <2>3. DeliveryInv' /\ DeliveredHasArrived'
    BY <2>1 DEF DeliveryInv, DeliveredHasArrived, deliveries
  <2> QED
    BY <1>2, <2>1, <2>2, <2>3, DropStep DEF deliveries
<1>4. CASE Acknowledge(w)
  <2>1. TypeOK'
    BY <1>1, <1>4 DEF Acknowledge, EndDelivery, TypeOK, Settled
  <2>2. DeliveryInv'
    BY <1>2, <1>4 DEF Acknowledge, EndDelivery, DeliveryInv, TypeOK
  <2>3. e \in arrived
    BY <1>4 DEF Acknowledge, ClaimInv
  <2>4. DeliveredHasArrived'
    BY <1>2, <1>4, <2>3 DEF Acknowledge, EndDelivery, DeliveredHasArrived, TypeOK
  <2> QED
    BY <1>2, <1>4, <2>1, <2>2, <2>4, DropStep DEF Acknowledge, TypeOK, UnderWay
<1>5. CASE Fail(w)
  <2>1. Backoff(attempts[e]) \in Oldest..MaxBackoff
    <3>1. attempts[e] \in Nat
      BY <1>2, <1>5, TimesAssumption DEF Fail, TypeOK
    <3> QED
      BY <1>1, <3>1, BackoffType, TimesAssumption DEF Oldest
  <2>2. TypeOK'
    BY <1>1, <1>5, <2>1 DEF Fail, EndDelivery, TypeOK, Settled
  <2>3. DeliveryInv' /\ DeliveredHasArrived'
    BY <1>2, <1>5 DEF Fail, EndDelivery, DeliveryInv, DeliveredHasArrived, TypeOK
  <2> QED
    BY <1>2, <1>5, <2>2, <2>3, DropStep DEF Fail, TypeOK, UnderWay
<1> QED
  BY <1>3, <1>4, <1>5

\* Time takes the same from a lease as it adds to the age of its claim.
LEMMA TickStep ==
  ASSUME OutboxInv, Tick
  PROVE  OutboxInv'
<1> USE DEF OutboxInv
<1>1. UNCHANGED <<committed, state, owner, attempts, pc, claim, arrived, crashes>>
  BY DEF Tick
<1>2. /\ Oldest \in Int /\ Oldest <= -1 /\ Lease \in Nat /\ SendTime \in Nat
      /\ MaxBackoff \in Nat /\ MaxLate \in Nat
  BY TimesAssumption DEF Oldest
<1>3. TypeOK'
  <2>1. age' \in [Workers -> 0..SendTime]
    BY <1>2 DEF Tick, TypeOK
  <2>2. lease' \in [Events -> Oldest..Lease]
    <3>1. \A x \in Oldest..Lease : Larger(x - 1, Oldest) \in Oldest..Lease
      BY <1>2 DEF Larger
    <3> QED
      BY <1>2, <3>1 DEF Tick, TypeOK
  <2>3. due' \in [Events -> Oldest..MaxBackoff]
    <3>1. \A x \in Oldest..MaxBackoff : Larger(x - 1, Oldest) \in Oldest..MaxBackoff
      BY <1>2 DEF Larger
    <3> QED
      BY <1>2, <3>1 DEF Tick, TypeOK
  <2>4. late' \in 0..MaxLate
    BY <1>2 DEF Tick, TypeOK
  <2> QED
    BY <1>1, <2>1, <2>2, <2>3, <2>4 DEF TypeOK
<1>4. ClaimInv' /\ TokensApart' /\ DeliveredHasArrived'
  BY <1>1 DEF ClaimInv, TokensApart, DeliveredHasArrived
<1>5. DeliveryInv'
  BY <1>1 DEF DeliveryInv, Tick
<1>6. FastWorkersKeepTheirLease'
  <2> SUFFICES ASSUME NEW w \in Workers, pc[w] \in UnderWay, age'[w] < Lease
               PROVE  HoldsDelivery(w)' /\ lease'[claim[w].event] = Lease - age'[w]
    BY <1>1 DEF FastWorkersKeepTheirLease, UnderWay
  <2>1. age[w] \in Nat /\ age'[w] = age[w] + 1
    BY Times DEF Tick, Busy, UnderWay
  <2>2. HoldsDelivery(w) /\ lease[claim[w].event] = Lease - age[w] /\ claim[w].event \in Events
    BY <1>2, <2>1, ClaimShape DEF FastWorkersKeepTheirLease, UnderWay
  <2>3. lease'[claim[w].event] = Larger(Lease - age[w] - 1, Oldest)
    BY <2>2 DEF Tick, HoldsDelivery
  <2>4. Larger(Lease - age[w] - 1, Oldest) = Lease - age'[w]
    BY <1>2, <2>1 DEF Larger
  <2> QED
    BY <1>1, <2>2, <2>3, <2>4 DEF HoldsDelivery
<1> QED
  BY <1>3, <1>4, <1>5, <1>6

LEMMA NextOutbox == OutboxInv /\ [Next]_vars => OutboxInv'
<1> SUFFICES ASSUME OutboxInv, [Next]_vars PROVE OutboxInv'
  OBVIOUS
<1>1. CASE UNCHANGED vars
  BY <1>1 DEF vars, OutboxInv, TypeOK, ClaimInv, TokensApart, DeliveryInv,
              DeliveredHasArrived, FastWorkersKeepTheirLease, HoldsDelivery
<1>2. CASE Next
  BY <1>2, AppendStep, IdleSteps, ClaimNextStep, ClaimNothingStep, SendStep, EndSteps, TickStep
     DEF Next, Work
<1> QED
  BY <1>1, <1>2

LEMMA OutboxInvHolds == Spec => []OutboxInv
BY InitOutbox, NextOutbox, PTL DEF Spec

-----------------------------------------------------------------------------
(* The theorems. *)

\* Type correctness, with the leases and retry delays within their bounds.
THEOREM OutboxTypeCorrect == Spec => []TypeOK
<1>1. OutboxInv => TypeOK
  BY DEF OutboxInv
<1> QED
  BY <1>1, OutboxInvHolds, PTL

\* No event counts as delivered that its destination has not received, however
\* many workers claimed it, died or came too late (acknowledge after deliver).
THEOREM DeliveriesHaveArrived == Spec => []DeliveredHasArrived
<1>1. OutboxInv => DeliveredHasArrived
  BY DEF OutboxInv
<1> QED
  BY <1>1, OutboxInvHolds, PTL

\* A worker within its lease still owns its delivery, whatever the others do:
\* its lease runs with its own clock, and its token is nobody else's.
THEOREM LeasesAreKept == Spec => []FastWorkersKeepTheirLease
<1>1. OutboxInv => FastWorkersKeepTheirLease
  BY DEF OutboxInv
<1> QED
  BY <1>1, OutboxInvHolds, PTL

\* Nobody but its owner ends a lease that has not run out.
THEOREM LeasesAreExclusive == Spec => LiveLeaseIsExclusive
<1> DEFINE Ends(e) == \E w \in Workers : claim[w] = [event |-> e, token |-> owner[e]]
                                         /\ claim'[w] = NoClaim
<1>1. ASSUME OutboxInv, [Next]_vars, NEW e \in Events, lease[e] > 0, owner'[e] # owner[e]
      PROVE  Ends(e)
  <2>1. state[e] = "PROCESSING" /\ TypeOK
    BY <1>1 DEF OutboxInv, DeliveryInv
  <2>2. ASSUME NEW w \in Workers, NEW f \in Events, NEW t \in Tokens, ClaimNext(w, f, t)
        PROVE  FALSE
    <3>1. e = f
      BY <1>1, <2>1, <2>2 DEF ClaimNext, TypeOK
    <3>2. lease[e] + age[w] <= 0
      BY <2>1, <2>2, <3>1 DEF ClaimNext, FirstReady, Ready, StateAfterCreate
    <3>3. lease[e] \in Int /\ age[w] \in Nat
      BY <1>1, <2>1, Times DEF TypeOK
    <3> QED
      BY <1>1, <3>2, <3>3
  <2>3. ASSUME NEW w \in Workers, Acknowledge(w) \/ Fail(w) PROVE Ends(e)
    <3>1. /\ claim'[w] = NoClaim /\ claim[w] \in Claims
          /\ owner[claim[w].event] = claim[w].token
      BY <1>1, <2>1, <2>3, ClaimShape
         DEF OutboxInv, Acknowledge, Fail, EndDelivery, HoldsDelivery, TypeOK, UnderWay
    <3>2. claim[w].event = e
      BY <1>1, <2>1, <2>3 DEF Acknowledge, Fail, TypeOK
    <3>3. claim[w] = [event |-> e, token |-> owner[e]]
      BY <3>1, <3>2 DEF Claims
    <3> QED
      BY <3>1, <3>3
  <2>4. \/ UNCHANGED owner
        \/ \E w \in Workers : Acknowledge(w) \/ Fail(w)
        \/ \E w \in Workers, f \in Events, t \in Tokens : ClaimNext(w, f, t)
    BY <1>1 DEF Next, Work, AppendEvent, StartClaim, ClaimNothing, Send, AcknowledgeTooLate,
                FailTooLate, Crash, Restart, Tick, EndDelivery, deliveries, vars
  <2> QED
    BY <1>1, <2>2, <2>3, <2>4
<1>2. OutboxInv /\ [Next]_vars =>
        [\A e \in Events : lease[e] > 0 /\ owner'[e] # owner[e] => Ends(e)]_vars
  BY <1>1
<1> QED
  BY <1>2, OutboxInvHolds, PTL DEF Spec, LiveLeaseIsExclusive

\* What is delivered or parked stays so: no late failure, acknowledgement or
\* claim brings a settled delivery back.
THEOREM SettledDeliveriesStay == Spec => SettledIsFinal
<1>1. ASSUME OutboxInv, [Next]_vars, NEW e \in Events, state[e] \in Settled
      PROVE  state'[e] = state[e]
  <2>1. TypeOK /\ state[e] \notin {"NEW", "PENDING", "PROCESSING"}
    BY <1>1 DEF OutboxInv, Settled
  <2>2. ASSUME NEW w \in Workers, NEW f \in Events, NEW t \in Tokens, ClaimNext(w, f, t)
        PROVE  state'[e] = state[e]
    BY <2>1, <2>2 DEF ClaimNext, FirstReady, Ready, StateAfterCreate
  <2>3. ASSUME NEW w \in Workers, ClaimNothing(w) \/ Acknowledge(w) \/ Fail(w)
        PROVE  state'[e] = state[e]
    BY <2>1, <2>3 DEF ClaimNothing, StateAfterCreate, Acknowledge, Fail, HoldsDelivery, TypeOK
  <2> QED
    BY <1>1, <2>2, <2>3
       DEF Next, Work, AppendEvent, StartClaim, Send, AcknowledgeTooLate,
           FailTooLate, Crash, Restart, Tick, deliveries, vars
<1>2. OutboxInv /\ [Next]_vars =>
        [\A e \in Events : state[e] \in Settled => state'[e] = state[e]]_vars
  BY <1>1
<1> QED
  BY <1>2, OutboxInvHolds, PTL DEF Spec, SettledIsFinal
=============================================================================

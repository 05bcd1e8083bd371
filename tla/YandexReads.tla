----------------------------- MODULE YandexReads -----------------------------
(***************************************************************************)
(* Both readers of the availability: the own API, which passes its query   *)
(* on, and the partner, which asks for the slots of some services of a     *)
(* mapped branch on one local date, with one resource (barber) or any.     *)
(***************************************************************************)
EXTENDS Availability

CONSTANTS
  MappedServices,   \* services of the branch with a mapping of the connection
  MappedBarbers,    \* barbers with a mapping of the connection
  AnyBarber,        \* no resourceId
  Dates             \* local dates that the partner asks for

ASSUME MappingAssumption ==
  /\ MappedServices \subseteq Services /\ MappedBarbers \subseteq Barbers
  /\ AnyBarber \notin Barbers /\ Dates \subseteq Int

VARIABLES
  wanted,    \* the services the partner asks for; {} for the own API
  reads      \* availability_read_enabled of the connection

readVars == <<vars, wanted, reads>>

ReadsInit == Init /\ wanted = {} /\ reads = TRUE

\* AvailabilityView
AskAvailability(q) == Begin(q) /\ wanted' = {} /\ UNCHANGED reads

\* Mutated form of QueriedServices: the first service is the filter.
FirstService(services) == {CHOOSE s \in services : \A t \in services : s <= t}

\* One service is passed on as a filter; several are filtered afterwards.
QueriedServices(services) ==
  IF Cardinality(services) = 1 THEN services ELSE Services

SlotsQuery(services, barber, date) ==
  [from |-> date, to |-> date, services |-> QueriedServices(services),
   barbers |-> IF barber = AnyBarber THEN Barbers ELSE {barber}, limit |-> MaxResults]

\* A service or a resource without a mapping is an error, and so is a request
\* while the reads are off.
Known(services, barber) ==
  reads /\ services \subseteq MappedServices /\ barber \in MappedBarbers \cup {AnyBarber}

AskSlots(services, barber, date) ==
  /\ Known(services, barber)
  /\ Begin(SlotsQuery(services, barber, date))
  /\ wanted' = services
  /\ UNCHANGED reads

RefuseSlots(services, barber) ==
  /\ phase = "idle" /\ ~Known(services, barber)
  /\ phase' = "refused"
  /\ UNCHANGED <<clock, zone, database, changes, query, now, assigned, todo, found,
                 answer, changed, wanted, reads>>

\* The connection's reads are switched off or on.
SwitchReads ==
  /\ MayChange
  /\ reads' = ~reads
  /\ UNCHANGED <<database, changed, wanted>>
  /\ Change

\* The times in the partner's answer.
Shown == {slot[1] : slot \in {x \in answer : x[3] \in wanted}}

ReadsNext ==
  \/ \E q \in Queries : AskAvailability(q)
  \/ \E services \in (SUBSET Services) \ {{}}, barber \in Barbers \cup {AnyBarber} :
       RefuseSlots(services, barber) \/ \E d \in Dates : AskSlots(services, barber, d)
  \/ SwitchReads
  \/ (Read \/ Environment) /\ UNCHANGED <<wanted, reads>>
  \/ Forget /\ wanted' = {} /\ UNCHANGED reads

ReadsSpec == ReadsInit /\ [][ReadsNext]_readVars

-----------------------------------------------------------------------------
(* Properties. *)

\* The partner is shown no time that none of the services it asked for has, and
\* misses none that one of them has, whatever other services the query went
\* through: only the limit, which counts the slots of all of them, cuts off
\* later times.  Both hold for the barbers about whom nothing has changed since
\* it was read.
PartnerSeesItsServices ==
  phase = "answered" /\ wanted # {} =>
    /\ \A start \in Shown : ValidStart(start, clock) =>
         \E barber \in query.barbers, service \in wanted :
           barber \in changed \/ Outcome(barber, service, start) \in {"CREATED", "ERROR"}
    /\ \A barber \in query.barbers \ changed, service \in wanted, start \in Starts :
         /\ Outcome(barber, service, start) = "CREATED"
         /\ DateOf(ToLocal(zone, start)) = query.from /\ Nameable(start)
         => \/ start \in Shown
            \/ /\ Cardinality(answer) = MaxResults
               /\ \A a \in answer : Precedes(a, Slot(barber, service, start))
=============================================================================

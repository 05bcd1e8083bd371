---------------------------- MODULE ReadsProofs ----------------------------
(***************************************************************************)
(* What the conversions of local times mean, for every zone, day and local *)
(* time; what the availability query shows; and what the pages of the      *)
(* company feed list, for every instance.                                  *)
(***************************************************************************)
EXTENDS YandexReads, CompanyFeed, FiniteSetTheorems, WellFoundedInduction, TLAPS

LEMMA ZoneType ==
  ASSUME NEW z \in Zone
  PROVE  /\ z.change \in Int /\ z.before \in Int /\ z.after \in Int
         /\ z.before < DayLength /\ -DayLength < z.before
         /\ z.after < DayLength /\ -DayLength < z.after
BY DayAssumption DEF Zone, Offsets

\* Both candidates are instants; a fold is kept only when its candidate shows the
\* local time.
LEMMA CandidateType ==
  ASSUME NEW z \in Zone, NEW l \in Int, NEW fold \in {0, 1}
  PROVE  /\ Candidate(z, l, fold) \in Int
         /\ Candidate(z, l, fold) \in {l - z.before, l - z.after}
         /\ RoundTrips(z, l, fold) <=> ToLocal(z, Candidate(z, l, fold)) = l
BY ZoneType DEF Candidate, Earlier, Later, RoundTrips

\* Every instant that shows a local time is one of its two candidates.
LEMMA CandidatesSuffice ==
  ASSUME NEW z \in Zone, NEW l \in Int, NEW t \in Int, ToLocal(z, t) = l
  PROVE  \E fold \in {0, 1} : Candidate(z, l, fold) = t
<1>1. z.change \in Int /\ z.before \in Int /\ z.after \in Int
  BY ZoneType
<1>2. CASE t < z.change
  <2>1. t = l - z.before
    BY <1>1, <1>2 DEF ToLocal, Offset
  <2>2. l < z.change + z.before
    BY <1>1, <1>2, <2>1
  <2>3. Candidate(z, l, 0) = t
    BY <1>1, <2>1, <2>2 DEF Candidate, Later
  <2> QED BY <2>3
<1>3. CASE ~(t < z.change)
  <2>1. t = l - z.after
    BY <1>1, <1>3 DEF ToLocal, Offset
  <2>2. ~(l < z.change + z.after)
    BY <1>1, <1>3, <2>1
  <2>3. Candidate(z, l, 1) = t
    BY <1>1, <2>1, <2>2 DEF Candidate, Earlier
  <2> QED BY <2>3
<1> QED BY <1>2, <1>3

\* The kept candidates are the instants that show the local time, each once.
LEMMA FoldsAreInstants ==
  ASSUME NEW z \in Zone, NEW l \in Int
  PROVE  /\ \A f \in Folds(z, l) : /\ f \in {0, 1}
                                      /\ ToLocal(z, Candidate(z, l, f)) = l
         /\ \A t \in Int : ToLocal(z, t) = l =>
              \E f \in Folds(z, l) : Candidate(z, l, f) = t
         /\ \A f, g \in Folds(z, l) :
              Candidate(z, l, f) = Candidate(z, l, g) => f = g
<1>1. \A f \in {0, 1} : RoundTrips(z, l, f) <=> ToLocal(z, Candidate(z, l, f)) = l
  BY CandidateType
<1>2. ASSUME NEW t \in Int, ToLocal(z, t) = l
      PROVE  \E f \in Folds(z, l) : Candidate(z, l, f) = t
  <2>1. PICK f \in {0, 1} : Candidate(z, l, f) = t
    BY <1>2, CandidatesSuffice
  <2>2. RoundTrips(z, l, f)
    BY <1>1, <1>2, <2>1
  <2>3. CASE f \in Folds(z, l)
    BY <2>1, <2>3
  <2>4. CASE f \notin Folds(z, l)
    <3>1. RoundTrips(z, l, 0) /\ Candidate(z, l, 0) = Candidate(z, l, 1) /\ f = 1
      BY <2>2, <2>4 DEF Folds
    <3>2. 0 \in Folds(z, l)
      BY <3>1 DEF Folds
    <3> QED BY <2>1, <3>1, <3>2
  <2> QED BY <2>3, <2>4
<1>3. \A f, g \in Folds(z, l) : Candidate(z, l, f) = Candidate(z, l, g) => f = g
  BY DEF Folds
<1>4. \A f \in Folds(z, l) : f \in {0, 1} /\ ToLocal(z, Candidate(z, l, f)) = l
  BY <1>1 DEF Folds
<1> QED BY <1>2, <1>3, <1>4

\* Without a fold, a conversion returns an instant exactly when it is the only
\* one that shows the local time: missing and repeated times are refused.
THEOREM OnlyUniqueTimesConvert ==
  ASSUME NEW z \in Zone, NEW l \in Int, NEW t \in Int
  PROVE  t \in LocalToUtc(z, l, NoFold)
           <=> ToLocal(z, t) = l /\ \A s \in Int : ToLocal(z, s) = l => s = t
<1>1. LocalToUtc(z, l, NoFold)
        = {Candidate(z, l, f) : f \in {g \in Folds(z, l) : Folds(z, l) = {g}}}
  BY DEF LocalToUtc
<1>2. ASSUME t \in LocalToUtc(z, l, NoFold)
      PROVE  ToLocal(z, t) = l /\ \A s \in Int : ToLocal(z, s) = l => s = t
  <2>1. PICK f \in Folds(z, l) : Folds(z, l) = {f} /\ t = Candidate(z, l, f)
    BY <1>1, <1>2
  <2> QED BY <2>1, FoldsAreInstants
<1>3. ASSUME ToLocal(z, t) = l, \A s \in Int : ToLocal(z, s) = l => s = t
      PROVE  t \in LocalToUtc(z, l, NoFold)
  <2>1. PICK f \in Folds(z, l) : Candidate(z, l, f) = t
    BY <1>3, FoldsAreInstants
  <2>2. ASSUME NEW g \in Folds(z, l) PROVE g = f
    <3>1. g \in {0, 1} /\ ToLocal(z, Candidate(z, l, g)) = l
      BY FoldsAreInstants
    <3>2. Candidate(z, l, g) = t
      BY <1>3, <3>1, CandidateType
    <3> QED BY <2>1, <3>2, FoldsAreInstants
  <2>3. Folds(z, l) = {f}
    BY <2>1, <2>2
  <2> QED BY <1>1, <2>1, <2>3
<1> QED BY <1>2, <1>3

\* With a fold, every instant that shows the local time can be named.
THEOREM FoldsNameEveryInstant ==
  ASSUME NEW z \in Zone, NEW l \in Int, NEW t \in Int
  PROVE  t \in LocalToUtc(z, l, 0) \cup LocalToUtc(z, l, 1) <=> ToLocal(z, t) = l
<1>1. NoFold # 0 /\ NoFold # 1
  BY DayAssumption
<1>2. LocalToUtc(z, l, 0) \cup LocalToUtc(z, l, 1)
        = {Candidate(z, l, f) : f \in Folds(z, l)}
  <2>1. \A f \in Folds(z, l) : f \in {0, 1}
    BY FoldsAreInstants
  <2> QED BY <1>1, <2>1 DEF LocalToUtc
<1> QED BY <1>2, FoldsAreInstants

\* The instant of fold 0 is before the one of fold 1.
THEOREM FoldsAreOrdered ==
  ASSUME NEW z \in Zone, NEW l \in Int,
         NEW t \in LocalToUtc(z, l, 0), NEW s \in LocalToUtc(z, l, 1)
  PROVE  t < s
<1>1. NoFold # 0 /\ NoFold # 1 /\ 0 \in {0, 1} /\ 1 \in {0, 1}
  BY DayAssumption
<1>2. 0 \in Folds(z, l) /\ t = Candidate(z, l, 0)
  BY <1>1 DEF LocalToUtc
<1>3. 1 \in Folds(z, l) /\ s = Candidate(z, l, 1)
  BY <1>1 DEF LocalToUtc
<1>4. Candidate(z, l, 0) # Candidate(z, l, 1)
  BY <1>2, <1>3, FoldsAreInstants
<1>5. z.change \in Int /\ z.before \in Int /\ z.after \in Int
  BY ZoneType
<1>6. ToLocal(z, t) = l /\ ToLocal(z, s) = l
  BY <1>2, <1>3, FoldsAreInstants
<1> QED BY <1>2, <1>3, <1>4, <1>5, <1>6 DEF Candidate, ToLocal, Offset, Earlier, Later

\* What LocalTimesResolve checks for one zone and one local time.
THEOREM LocalTimeResolves ==
  ASSUME NEW z \in Zone, NEW l \in Int, NEW instants \in SUBSET Int,
         \A t \in Int : ToLocal(z, t) = l => t \in instants
  PROVE  Resolves(z, l, instants)
BY OnlyUniqueTimesConvert, FoldsNameEveryInstant, FoldsAreOrdered DEF Resolves

\* The clock of a branch never runs backwards between unambiguous local times:
\* an interval from an earlier to a later local time is positive in UTC, so that
\* rule_interval_utc never refuses a shift for being empty.
\* If it did, the clock would have been set back between the two instants, and the
\* earlier local time would have been shown before that, too.
THEOREM ConversionIsMonotone ==
  ASSUME NEW z \in Zone, NEW l \in Int, NEW m \in Int, l < m,
         NEW t \in LocalToUtc(z, l, NoFold), NEW s \in LocalToUtc(z, m, NoFold)
  PROVE  t < s
<1>1. t \in Int /\ s \in Int
  <2>1. \A x \in Int : \A y \in LocalToUtc(z, x, NoFold) : y \in Int
    BY FoldsAreInstants, CandidateType DEF LocalToUtc
  <2> QED BY <2>1
<1>2. ToLocal(z, t) = l /\ ToLocal(z, s) = m
  BY <1>1, OnlyUniqueTimesConvert
<1>3. \A x \in Int : ToLocal(z, x) = l => x = t
  BY <1>1, OnlyUniqueTimesConvert
<1>4. z.change \in Int /\ z.before \in Int /\ z.after \in Int
  BY ZoneType
<1>5. SUFFICES ASSUME s <= t PROVE FALSE
  BY <1>1
<1>6. s < z.change /\ ~(t < z.change)
  BY <1>1, <1>2, <1>4, <1>5 DEF ToLocal, Offset
<1>7. l - z.before \in Int /\ l - z.before < z.change
  BY <1>1, <1>2, <1>4, <1>6 DEF ToLocal, Offset
<1>8. ToLocal(z, l - z.before) = l
  BY <1>4, <1>7 DEF ToLocal, Offset
<1> QED BY <1>1, <1>3, <1>6, <1>7, <1>8

\* A shift of at most a day, once both of its ends can be converted.
THEOREM ShiftsArePositive ==
  ASSUME NEW z \in Zone, NEW shift \in Shift, NEW date \in Int,
         NEW i \in Interval(z, shift, date)
  PROVE  i[1] < i[2]
<1> DEFINE endDate == IF shift.ends > shift.starts THEN date ELSE date + 1
<1>1. DayLength \in Nat \ {0}
  BY DayAssumption
<1>2. shift.starts \in 0..(DayLength - 1) /\ shift.ends \in 0..(DayLength - 1)
  BY DEF Shift, Times
<1>3. (date + 1) * DayLength = date * DayLength + DayLength /\ date * DayLength \in Int
  BY <1>1
<1>4. At(date, shift.starts) \in Int /\ At(endDate, shift.ends) \in Int
      /\ At(date, shift.starts) < At(endDate, shift.ends)
  <2>1. CASE shift.ends > shift.starts
    BY <1>1, <1>2, <1>3, <2>1 DEF At
  <2>2. CASE ~(shift.ends > shift.starts)
    BY <1>1, <1>2, <1>3, <2>2 DEF At
  <2> QED BY <2>1, <2>2
<1>5. /\ i[1] \in LocalToUtc(z, At(date, shift.starts), NoFold)
      /\ i[2] \in LocalToUtc(z, At(endDate, shift.ends), NoFold)
  BY DEF Interval
<1> QED BY <1>4, <1>5, ConversionIsMonotone

-----------------------------------------------------------------------------
(* The availability query. *)

\* The zone of the branch is one of its zones, and stays.
ZoneIsKnown == zone \in Zones

LEMMA ZoneStays == Spec => []ZoneIsKnown
<1>1. Init => ZoneIsKnown
  BY DEF Init, ZoneIsKnown
<1>2. ZoneIsKnown /\ [Next]_vars => ZoneIsKnown'
  <2>1. \A q \in Queries : Begin(q) => UNCHANGED zone
    BY DEF Begin
  <2>2. Read \/ Forget => UNCHANGED zone
    BY DEF Read, ReadAssignments, ReadSchedule, Finish, Forget
  <2>3. Environment => UNCHANGED zone
    BY DEF Environment, Book, Cancel, ChangeSchedule, Switch, Change, Tick
  <2>4. UNCHANGED vars => UNCHANGED zone
    BY DEF vars
  <2> QED BY <2>1, <2>2, <2>3, <2>4 DEF Next, ZoneIsKnown
<1> QED BY <1>1, <1>2, PTL DEF Spec

\* Local times resolve as ADR-006 says, for every zone of at most one change:
\* a day on both sides has every instant that may show a local time.
THEOREM LocalTimesAlwaysResolve == Spec => []LocalTimesResolve
<1>1. ZoneIsKnown => LocalTimesResolve
  <2> SUFFICES ASSUME ZoneIsKnown,
                      NEW l \in {At(d, t) : d \in {DateOf(x) : x \in Starts}, t \in Times}
               PROVE  Resolves(zone, l, (l - DayLength)..(l + DayLength))
    BY DEF LocalTimesResolve
  <2>1. zone \in Zone
    BY BranchAssumption DEF ZoneIsKnown
  <2>2. l \in Int
    <3>1. DayLength \in Nat \ {0}
      BY DayAssumption
    <3>2. PICK x \in Starts, t \in Times : l = At(DateOf(x), t)
      OBVIOUS
    <3>3. x \in Int /\ t \in Int
      BY <3>1, BoundsAssumption, BranchAssumption DEF Starts, Times
    <3>4. x \div DayLength \in Int
      BY <3>1, <3>3
    <3>5. (x \div DayLength) * DayLength \in Int
      BY <3>1, <3>4
    <3> QED BY <3>2, <3>3, <3>5 DEF At, DateOf
  <2> DEFINE instants == (l - DayLength)..(l + DayLength)
  <2>3. \A t \in Int : ToLocal(zone, t) = l => t \in instants
    BY <2>1, <2>2, ZoneType, DayAssumption DEF ToLocal, Offset
  <2>4. instants \in SUBSET Int
    BY <2>2, DayAssumption
  <2> HIDE DEF instants
  <2>5. Resolves(zone, l, instants)
    BY <2>1, <2>2, <2>3, <2>4, LocalTimeResolves
  <2> QED BY <2>5 DEF instants
<1> QED BY <1>1, ZoneStays, PTL

\* A slot that clashes with a live booking keeps this booking in the window that
\* the query reads.
LEMMA FreeSlotsAreFree ==
  ASSUME NEW slots, NEW slot \in Free(slots), NEW b \in Bookings, Live(b)
  PROVE  ~Clashes(slot, bookings[b])
<1>1. slot \in slots /\ \A visit \in Occupied(slots) : ~Clashes(slot, visit)
  BY DEF Free
<1>2. SUFFICES ASSUME Clashes(slot, bookings[b]) PROVE bookings[b] \in Occupied(slots)
  BY <1>1
<1>3. slot[2] = bookings[b].barber /\ bookings[b].start < slot[4]
      /\ slot[1] < bookings[b].end
  BY <1>2 DEF Clashes
<1>4. bookings[b].end > slot[1]
  BY <1>3
<1> QED BY <1>1, <1>3, <1>4 DEF Occupied

\* Whatever is booked or cancelled during the query, what it returns overlaps no
\* booking that is live when the bookings are read.
THEOREM SlotsAreFreeWhenRead == Spec => OfferedSlotsWereFree
<1>1. ASSUME [Next]_vars, phase' = "answered", phase = "reading"
      PROVE  answer' = Cut(Free(Candidates))
  <2>1. ASSUME Next PROVE Finish
    BY <1>1, <2>1 DEF Next, Begin, Read, ReadAssignments, ReadSchedule, Forget,
       Environment, Book, Cancel, ChangeSchedule, Switch, Change, Tick, reading
  <2>2. Next
    BY <1>1 DEF vars
  <2> QED BY <2>1, <2>2 DEF Finish
<1>2. Cut(Free(Candidates)) \subseteq Free(Candidates)
  BY DEF Cut
<1>3. [Next]_vars => (phase' = "answered" /\ phase = "reading" =>
        \A slot \in answer', b \in Bookings : Live(b) => ~Clashes(slot, bookings[b]))
  BY <1>1, <1>2, FreeSlotsAreFree
<1> QED BY <1>3, PTL DEF Spec, OfferedSlotsWereFree

-----------------------------------------------------------------------------
(* The company feed.  A page is an initial segment of the companies after   *)
(* the cursor, and the next cursor is its last company: so the companies    *)
(* listed are exactly those up to the cursor that the walk has met, and     *)
(* whatever is mapped or unmapped meanwhile, what is steady and not yet     *)
(* listed is still ahead.                                                   *)

FeedType ==
  /\ mapped \in SUBSET Companies
  /\ cursor \in Nat
  /\ listed \in SUBSET Companies
  /\ steady \in SUBSET mapped

\* Nothing listed is ahead of the cursor; what is steady is listed or ahead.
ListedUpToCursor == walk = "walking" => \A c \in listed : c <= cursor
SteadyIsAhead == walk = "walking" => \A c \in steady : c \in listed \/ c > cursor

FeedInv == FeedType /\ ListedUpToCursor /\ SteadyIsAhead /\ NoSteadyCompanyIsLost

-----------------------------------------------------------------------------
(* The first and the last company of a set. *)

LEMMA FirstCompany ==
  ASSUME NEW S \in SUBSET Companies, S # {}
  PROVE  \E c \in S : \A d \in S : c <= d
<1>1. S \subseteq Nat
  BY FeedAssumption DEF Companies
<1>2. PICK c \in S : \A d \in S : ~ (<<d, c>> \in OpToRel(<, Nat))
  BY <1>1, NatLessThanWellFounded, WFMin
<1>3. \A d \in S : ~ (d < c)
  BY <1>1, <1>2 DEF OpToRel
<1> QED BY <1>1, <1>3

LEMMA LastCompany ==
  ASSUME NEW S \in SUBSET Companies, S # {}
  PROVE  \E c \in S : \A d \in S : d <= c
<1> DEFINE Mirror == {CompanyCount + 1 - c : c \in S}
<1>1. Mirror \in SUBSET Companies
  BY FeedAssumption DEF Companies
<1>2. Mirror # {}
  OBVIOUS
<1>3. PICK k \in Mirror : \A d \in Mirror : k <= d
  <2> HIDE DEF Mirror
  <2> QED BY <1>1, <1>2, FirstCompany
<1>4. PICK c \in S : k = CompanyCount + 1 - c
  OBVIOUS
<1>5. \A d \in S : CompanyCount + 1 - c <= CompanyCount + 1 - d
  BY <1>3, <1>4
<1> QED BY <1>5, FeedAssumption DEF Companies

LEMMA CompaniesAreFinite ==
  ASSUME NEW S \in SUBSET Companies
  PROVE  IsFiniteSet(S) /\ Cardinality(S) \in Nat
<1>1. IsFiniteSet(Companies)
  BY FS_Interval, FeedAssumption DEF Companies
<1> QED BY <1>1, FS_Subset, FS_CardinalityType

-----------------------------------------------------------------------------
(* What one request returns. *)

\* A page that is not the last one has companies, and the next cursor is the
\* last of them.
LEMMA CursorIsLastOfPage ==
  ASSUME FeedType, count \in 1..500, HasMore
  PROVE  NextCursor \in Page /\ \A c \in Page : c <= NextCursor
<1>1. After \in SUBSET Companies
  BY DEF After, FeedType
<1>2. Cardinality(After) \in Nat /\ IsFiniteSet(After)
  BY <1>1, CompaniesAreFinite
<1>3. After # {}
  BY <1>2, FS_EmptySet DEF HasMore
<1>4. PICK first \in After : \A d \in After : first <= d
  BY <1>1, <1>3, FirstCompany
<1>5. {d \in After : d < first} = {}
  <2>1. \A d \in After : d \in Int
    BY <1>1, FeedAssumption DEF Companies
  <2> QED BY <1>4, <2>1
<1>6. first \in Page
  BY <1>4, <1>5, FS_EmptySet DEF Page
<1>7. Page \in SUBSET Companies
  BY <1>1 DEF Page
<1>8. PICK last \in Page : \A d \in Page : d <= last
  BY <1>6, <1>7, LastCompany
<1> QED BY <1>8 DEF NextCursor

\* A page leaves out only companies beyond its last one.
LEMMA PageIsInitial ==
  ASSUME FeedType, count \in 1..500,
         NEW c \in After, NEW last \in Page, c <= last
  PROVE  c \in Page
<1> DEFINE Before(x) == {d \in After : d < x}
<1>1. After \in SUBSET Companies /\ last \in After
  BY DEF After, Page, FeedType
<1>2. Before(c) \subseteq Before(last)
  <2>1. \A d \in After : d \in Int
    BY <1>1, FeedAssumption DEF Companies
  <2> QED BY <1>1, <2>1
<1>3. IsFiniteSet(Before(last)) /\ Cardinality(Before(last)) \in Nat
  BY <1>1, CompaniesAreFinite
<1>4. Cardinality(Before(c)) \in Nat
  BY <1>1, CompaniesAreFinite
<1>5. Cardinality(Before(c)) <= Cardinality(Before(last))
  BY <1>2, <1>3, FS_Subset
<1>6. Cardinality(Before(last)) < count
  BY DEF Page
<1>7. Cardinality(Before(c)) < count
  BY <1>3, <1>4, <1>5, <1>6
<1> QED BY <1>7 DEF Page

\* When there is no more, the page has every company after the cursor.
LEMMA LastPageIsComplete ==
  ASSUME FeedType, count \in 1..500, ~HasMore, NEW c \in After
  PROVE  c \in Page
<1> DEFINE Before == {d \in After : d < c}
<1>1. After \in SUBSET Companies
  BY DEF After, FeedType
<1>2. IsFiniteSet(After) /\ Cardinality(After) \in Nat /\ Cardinality(Before) \in Nat
  BY <1>1, CompaniesAreFinite
<1>3. Before \in SUBSET After /\ c \notin Before
  BY <1>1, FeedAssumption DEF Companies
<1>4. Cardinality(Before) <= Cardinality(After) /\ Cardinality(Before) # Cardinality(After)
  BY <1>2, <1>3, FS_Subset
<1>5. Cardinality(After) <= count
  BY <1>2 DEF HasMore
<1>6. Cardinality(Before) < count
  BY <1>2, <1>4, <1>5
<1> QED BY <1>6 DEF Page

-----------------------------------------------------------------------------
(* The invariant. *)

LEMMA ReadPageKeepsFeed ==
  ASSUME FeedInv, ReadPage
  PROVE  FeedInv'
<1>1. /\ FeedType /\ walk = "walking" /\ count \in 1..500
      /\ listed' = listed \cup Page
      /\ cursor' = IF HasMore THEN NextCursor ELSE cursor
      /\ walk' = IF HasMore THEN "walking" ELSE "complete"
      /\ mapped' = mapped /\ steady' = steady
      /\ \A c \in listed : c <= cursor
      /\ \A c \in steady : c \in listed \/ c > cursor
  BY DEF FeedInv, ListedUpToCursor, SteadyIsAhead, ReadPage
<1>2. Page \in SUBSET Companies /\ Page \subseteq After
  BY <1>1 DEF Page, After, FeedType
<1>3. \A c \in steady : c \in listed \/ c \in After
  BY <1>1 DEF After, FeedType
<1>4. CASE HasMore
  <2>1. NextCursor \in Page /\ \A c \in Page : c <= NextCursor
    BY <1>1, <1>4, CursorIsLastOfPage
  <2>2. NextCursor \in Nat /\ NextCursor > cursor /\ cursor \in Nat
    BY <1>1, <1>2, <2>1, FeedAssumption DEF After, Companies, FeedType
  <2>3. FeedType'
    BY <1>1, <1>2, <1>4, <2>2 DEF FeedType
  <2>4. ListedUpToCursor'
    <3>1. ASSUME NEW c \in listed PROVE c <= NextCursor
      BY <1>1, <2>2, FeedAssumption DEF FeedType, Companies
    <3> QED BY <1>1, <1>4, <2>1, <3>1 DEF ListedUpToCursor
  <2>5. SteadyIsAhead'
    <3>1. ASSUME NEW c \in steady, c \notin listed, ~(c > NextCursor)
          PROVE  c \in Page
      <4>1. c \in After /\ c \in Nat
        BY <1>1, <1>3, <3>1, FeedAssumption DEF FeedType, Companies
      <4>2. c <= NextCursor
        BY <2>2, <3>1, <4>1
      <4> QED BY <1>1, <2>1, <4>1, <4>2, PageIsInitial
    <3> QED BY <1>1, <1>4, <3>1 DEF SteadyIsAhead
  <2> QED BY <1>1, <1>4, <2>3, <2>4, <2>5 DEF FeedInv, NoSteadyCompanyIsLost
<1>5. CASE ~HasMore
  <2>1. \A c \in After : c \in Page
    BY <1>1, <1>5, LastPageIsComplete
  <2>2. FeedType'
    BY <1>1, <1>2, <1>5 DEF FeedType
  <2>3. steady' \subseteq listed'
    BY <1>1, <1>3, <2>1
  <2> QED BY <1>1, <1>5, <2>2, <2>3
          DEF FeedInv, NoSteadyCompanyIsLost, ListedUpToCursor, SteadyIsAhead
<1> QED BY <1>4, <1>5

LEMMA FeedInvHolds == FeedSpec => []FeedInv
<1>1. FeedInit => FeedInv
  BY DEF FeedInit, FeedInv, FeedType, ListedUpToCursor, SteadyIsAhead,
         NoSteadyCompanyIsLost, Start
<1>2. FeedInv /\ [FeedNext]_feedVars => FeedInv'
  <2> SUFFICES ASSUME FeedInv, [FeedNext]_feedVars PROVE FeedInv'
    OBVIOUS
  <2> USE DEF FeedInv, FeedType, ListedUpToCursor, SteadyIsAhead, NoSteadyCompanyIsLost
  <2>1. ASSUME NEW size \in Counts, StartWalk(size) PROVE FeedInv'
    BY <2>1, FeedAssumption DEF StartWalk, Start, Companies
  <2>2. CASE ReadPage
    BY <2>2, ReadPageKeepsFeed
  <2>3. CASE RefusePage
    BY <2>3 DEF RefusePage
  <2>4. ASSUME NEW c \in Companies, Map(c) \/ Unmap(c) PROVE FeedInv'
    BY <2>4 DEF Map, Unmap, partner
  <2>5. CASE SwitchCatalog
    BY <2>5 DEF SwitchCatalog, partner
  <2>6. CASE UNCHANGED feedVars
    BY <2>6 DEF feedVars
  <2> QED BY <2>1, <2>2, <2>3, <2>4, <2>5, <2>6 DEF FeedNext, Walk
<1> QED BY <1>1, <1>2, PTL DEF FeedSpec

\* A complete walk has every company that was mapped all the time, whatever else
\* was mapped and unmapped between its pages.
THEOREM SteadyCompaniesAreListed == FeedSpec => []NoSteadyCompanyIsLost
<1>1. FeedInv => NoSteadyCompanyIsLost
  BY DEF FeedInv
<1> QED BY <1>1, FeedInvHolds, PTL

\* A page has only companies beyond those that the walk has got.
THEOREM CompaniesComeOnce == FeedSpec => NoCompanyTwice
<1>1. ASSUME FeedInv, ReadPage, NEW got \in listed, NEW c \in Page
      PROVE  got < c
  <2>1. got <= cursor /\ got \in Nat /\ cursor \in Nat
    BY <1>1, FeedAssumption
       DEF FeedInv, FeedType, ListedUpToCursor, ReadPage, Companies
  <2>2. c > cursor /\ c \in Nat
    BY <1>1, FeedAssumption DEF FeedInv, FeedType, Page, After, Companies
  <2> QED BY <2>1, <2>2
<1>2. FeedInv /\ [FeedNext]_feedVars =>
        [ReadPage => \A got \in listed, c \in Page : got < c]_feedVars
  BY <1>1
<1> QED BY <1>2, FeedInvHolds, PTL DEF FeedSpec, NoCompanyTwice

-----------------------------------------------------------------------------
(* Slots and jobs are tuples of four numbers in lexicographic order: a      *)
(* finite set of them has a first one, and the answer that is cut at the    *)
(* limit is an initial segment of the free slots.                           *)

Tuples == Int \X Int \X Int \X Int

LEMMA PrecedesMeans ==
  ASSUME NEW x \in Tuples, NEW y \in Tuples
  PROVE  Precedes(x, y) <=>
           \/ x[1] < y[1]
           \/ x[1] = y[1] /\ x[2] < y[2]
           \/ x[1] = y[1] /\ x[2] = y[2] /\ x[3] < y[3]
           \/ x[1] = y[1] /\ x[2] = y[2] /\ x[3] = y[3] /\ x[4] < y[4]
<1>1. DOMAIN x = 1..4
  BY DEF Tuples
<1>2. Precedes(x, y) <=> \E i \in 1..4 : x[i] < y[i] /\ \A j \in 1..(i - 1) : x[j] = y[j]
  BY <1>1 DEF Precedes
<1> QED
  BY <1>2

LEMMA PrecedesIsOrder ==
  ASSUME NEW x \in Tuples, NEW y \in Tuples, NEW w \in Tuples
  PROVE  /\ ~Precedes(x, x)
         /\ Precedes(x, y) /\ Precedes(y, w) => Precedes(x, w)
         /\ x # y => Precedes(x, y) \/ Precedes(y, x)
<1>1. \A n \in {x, y, w} : n[1] \in Int /\ n[2] \in Int /\ n[3] \in Int /\ n[4] \in Int
  BY DEF Tuples
<1>2. ~Precedes(x, x)
  BY <1>1, PrecedesMeans
<1>3. Precedes(x, y) /\ Precedes(y, w) => Precedes(x, w)
  BY <1>1, PrecedesMeans
<1>4. x # y => Precedes(x, y) \/ Precedes(y, x)
  <2>1. x # y => x[1] # y[1] \/ x[2] # y[2] \/ x[3] # y[3] \/ x[4] # y[4]
    BY DEF Tuples
  <2> QED
    BY <1>1, <2>1, PrecedesMeans
<1> QED
  BY <1>2, <1>3, <1>4

\* A strict order has a minimal element in a finite set: the one with the fewest
\* elements before it.
LEMMA FiniteHasMinimal ==
  ASSUME NEW S, IsFiniteSet(S), S # {}, NEW R, \A x \in S : <<x, x>> \notin R,
         \A x, y, w \in S : <<x, y>> \in R /\ <<y, w>> \in R => <<x, w>> \in R
  PROVE  \E x \in S : \A y \in S : <<y, x>> \notin R
<1> DEFINE Before(x) == {y \in S : <<y, x>> \in R}
           Sizes(T) == {Cardinality(Before(x)) : x \in T}
<1>1. ASSUME NEW x \in S PROVE IsFiniteSet(Before(x)) /\ Cardinality(Before(x)) \in Nat
  <2>1. Before(x) \in SUBSET S
    OBVIOUS
  <2> HIDE DEF Before
  <2> QED
    BY <2>1, FS_Subset, FS_CardinalityType
<1>2. Sizes(S) \subseteq Nat /\ Sizes(S) # {}
  <2>1. PICK x \in S : TRUE
    OBVIOUS
  <2>2. Cardinality(Before(x)) \in Sizes(S)
    BY <2>1
  <2>3. Sizes(S) \subseteq Nat
    <3> HIDE DEF Before
    <3> QED
      BY <1>1
  <2> QED
    BY <2>2, <2>3
<1>3. PICK n \in Sizes(S) : \A m \in Sizes(S) : <<m, n>> \notin OpToRel(<, Nat)
  <2> HIDE DEF Sizes
  <2> QED
    BY <1>2, NatLessThanWellFounded, WFMin
<1>4. PICK x \in S : n = Cardinality(Before(x))
  OBVIOUS
<1>5. ASSUME NEW y \in S, <<y, x>> \in R PROVE FALSE
  <2>1. Before(y) \subseteq Before(x) /\ y \in Before(x) /\ y \notin Before(y)
    BY <1>5
  <2>2. Cardinality(Before(y)) < Cardinality(Before(x))
    <3>1. Cardinality(Before(y)) <= Cardinality(Before(x))
          /\ (Cardinality(Before(x)) = Cardinality(Before(y)) => Before(x) = Before(y))
      BY <1>1, <2>1, FS_Subset
    <3> QED
      BY <1>1, <2>1, <3>1
  <2>3. Cardinality(Before(y)) \in Sizes(S)
    OBVIOUS
  <2> QED
    BY <1>1, <1>2, <1>3, <1>4, <2>2, <2>3 DEF OpToRel
<1> QED
  BY <1>5

LEMMA FiniteHasFirst ==
  ASSUME NEW S \in SUBSET Tuples, IsFiniteSet(S), S # {}
  PROVE  \E x \in S : \A y \in S \ {x} : Precedes(x, y)
<1> DEFINE R == {p \in S \X S : Precedes(p[1], p[2])}
<1>1. \A x, y \in S : <<x, y>> \in R <=> Precedes(x, y)
  OBVIOUS
<1>2. \A x \in S : x \in Tuples
  OBVIOUS
<1> HIDE DEF R
<1>3. \A x \in S : <<x, x>> \notin R
  BY <1>1, <1>2, PrecedesIsOrder
<1>4. \A x, y, w \in S : <<x, y>> \in R /\ <<y, w>> \in R => <<x, w>> \in R
  BY <1>1, <1>2, PrecedesIsOrder
<1>5. PICK x \in S : \A y \in S : <<y, x>> \notin R
  BY <1>3, <1>4, FiniteHasMinimal
<1> QED
  BY <1>1, <1>2, <1>5, PrecedesIsOrder

LEMMA FiniteHasLast ==
  ASSUME NEW S \in SUBSET Tuples, IsFiniteSet(S), S # {}
  PROVE  \E x \in S : \A y \in S \ {x} : Precedes(y, x)
<1> DEFINE R == {p \in S \X S : Precedes(p[2], p[1])}
<1>1. \A x, y \in S : <<x, y>> \in R <=> Precedes(y, x)
  OBVIOUS
<1>2. \A x \in S : x \in Tuples
  OBVIOUS
<1> HIDE DEF R
<1>3. \A x \in S : <<x, x>> \notin R
  BY <1>1, <1>2, PrecedesIsOrder
<1>4. \A x, y, w \in S : <<x, y>> \in R /\ <<y, w>> \in R => <<x, w>> \in R
  BY <1>1, <1>2, PrecedesIsOrder
<1>5. PICK x \in S : \A y \in S : <<y, x>> \notin R
  BY <1>3, <1>4, FiniteHasMinimal
<1> QED
  BY <1>1, <1>2, <1>5, PrecedesIsOrder

LEMMA FirstIsMember ==
  ASSUME NEW S \in SUBSET Tuples, IsFiniteSet(S), S # {}
  PROVE  First(S) \in S
BY FiniteHasFirst DEF First

-----------------------------------------------------------------------------
(* The limit. *)

\* The answer has at most as many slots as the limit: all but its last one are
\* before that.
LEMMA CutIsBounded ==
  ASSUME NEW slots \in SUBSET Tuples, IsFiniteSet(slots), query.limit \in Nat
  PROVE  IsFiniteSet(Cut(slots)) /\ Cardinality(Cut(slots)) <= query.limit
<1>1. Cut(slots) \in SUBSET slots
  BY DEF Cut
<1>2. IsFiniteSet(Cut(slots)) /\ Cardinality(Cut(slots)) \in Nat
  BY <1>1, FS_Subset, FS_CardinalityType
<1>3. CASE Cut(slots) = {}
  BY <1>2, <1>3, FS_EmptySet
<1>4. CASE Cut(slots) # {}
  <2>1. PICK last \in Cut(slots) : \A y \in Cut(slots) \ {last} : Precedes(y, last)
    BY <1>1, <1>2, <1>4, FiniteHasLast
  <2> DEFINE before == {x \in slots : Precedes(x, last)}
  <2>2. IsFiniteSet(before) /\ Cardinality(before) \in Nat
    BY FS_Subset, FS_CardinalityType
  <2>3. Cardinality(before) < query.limit
    BY <2>1 DEF Cut
  <2>4. Cut(slots) \ {last} \in SUBSET before
    BY <1>1, <2>1
  <2>5. Cardinality(Cut(slots) \ {last}) <= Cardinality(before)
    <3> HIDE DEF before
    <3> QED
      BY <2>2, <2>4, FS_Subset
  <2>6. Cardinality(Cut(slots) \ {last}) = Cardinality(Cut(slots)) - 1
    BY <1>2, <2>1, FS_RemoveElement
  <2> QED
    BY <1>2, <2>2, <2>3, <2>5, <2>6
<1> QED
  BY <1>2, <1>3, <1>4

\* Whatever is cut off comes after everything in the answer.
LEMMA CutIsInitial ==
  ASSUME NEW slots \in SUBSET Tuples, IsFiniteSet(slots), query.limit \in Nat,
         NEW a \in Cut(slots), NEW s \in slots, s \notin Cut(slots)
  PROVE  Precedes(a, s)
<1> DEFINE before(x) == {y \in slots : Precedes(y, x)}
<1>1. a \in slots /\ Cardinality(before(a)) < query.limit /\ ~(Cardinality(before(s)) < query.limit)
  BY DEF Cut
<1>2. SUFFICES ASSUME Precedes(s, a) PROVE FALSE
  BY <1>1, PrecedesIsOrder
<1>3. \A y \in slots : Precedes(y, s) => Precedes(y, a)
  BY <1>1, <1>2, PrecedesIsOrder
<1>4. before(s) \subseteq before(a)
  BY <1>3
<1>5. IsFiniteSet(before(a)) /\ Cardinality(before(a)) \in Nat /\ Cardinality(before(s)) \in Nat
  BY FS_Subset, FS_CardinalityType
<1>6. Cardinality(before(s)) <= Cardinality(before(a))
  BY <1>4, <1>5, FS_Subset
<1> QED
  BY <1>1, <1>5, <1>6

\* When something is cut off, the answer is full.
LEMMA CutIsFull ==
  ASSUME NEW slots \in SUBSET Tuples, IsFiniteSet(slots), query.limit \in Nat,
         NEW s \in slots, s \notin Cut(slots)
  PROVE  Cardinality(Cut(slots)) = query.limit
<1> DEFINE before(x) == {y \in slots : Precedes(y, x)}
           rest == slots \ Cut(slots)
<1>1. rest \in SUBSET Tuples /\ IsFiniteSet(rest) /\ rest # {}
  BY FS_Difference
<1>2. PICK m \in rest : \A y \in rest \ {m} : Precedes(m, y)
  <2> HIDE DEF rest
  <2> QED
    BY <1>1, FiniteHasFirst
<1>3. m \in slots /\ ~(Cardinality(before(m)) < query.limit)
  BY <1>2 DEF Cut
<1>4. before(m) \subseteq Cut(slots)
  <2>1. SUFFICES ASSUME NEW y \in slots, Precedes(y, m), y \notin Cut(slots) PROVE FALSE
    OBVIOUS
  <2>2. y = m \/ Precedes(m, y)
    BY <1>2, <2>1
  <2> QED
    BY <1>3, <2>1, <2>2, PrecedesIsOrder
<1>5. IsFiniteSet(Cut(slots)) /\ Cardinality(Cut(slots)) <= query.limit
      /\ Cardinality(Cut(slots)) \in Nat
  BY CutIsBounded, FS_CardinalityType
<1>6. Cardinality(before(m)) \in Nat /\ Cardinality(before(m)) <= Cardinality(Cut(slots))
  BY <1>4, <1>5, FS_Subset, FS_CardinalityType
<1> QED
  BY <1>3, <1>5, <1>6

-----------------------------------------------------------------------------
(* Dates and times of a local timestamp; what the grid of a date converts to. *)

\* A local timestamp has one date and one time of day.
LEMMA DateAndTime ==
  ASSUME NEW l \in Int
  PROVE  /\ DateOf(l) \in Int /\ l % DayLength \in Times
         /\ l = At(DateOf(l), l % DayLength)
<1> DEFINE d == l \div DayLength
           t == l % DayLength
<1>1. DayLength \in Nat \ {0}
  BY DayAssumption
<1>2. d \in Int
  BY <1>1
<1>3. t \in 0..(DayLength - 1)
  BY <1>1
<1>4. l = DayLength * d + t
  BY <1>1
<1> HIDE DEF d, t
<1>5. DayLength * d = d * DayLength
  BY <1>1, <1>2
<1> QED
  BY <1>2, <1>3, <1>4, <1>5 DEF DateOf, At, Times, d, t

\* Multiples of a day are as far apart as their dates.
LEMMA DaysApart ==
  ASSUME NEW d \in Int, NEW e \in Int, d < e
  PROVE  d * DayLength \in Int /\ e * DayLength \in Int /\ d * DayLength + DayLength <= e * DayLength
<1>1. DayLength \in Nat \ {0}
  BY DayAssumption
<1>2. e - d - 1 \in Nat
  OBVIOUS
<1>3. (e - d - 1) * DayLength \in Nat
  BY <1>1, <1>2
<1>4. e * DayLength = d * DayLength + DayLength + (e - d - 1) * DayLength
  BY <1>1
<1> QED
  BY <1>1, <1>3, <1>4

LEMMA DateOfAt ==
  ASSUME NEW d \in Int, NEW t \in Times
  PROVE  /\ At(d, t) \in Int /\ DateOf(At(d, t)) = d /\ At(d, t) % DayLength = t
<1> DEFINE l == At(d, t)
           e == DateOf(l)
           s == l % DayLength
<1>1. DayLength \in Nat \ {0} /\ t \in 0..(DayLength - 1) /\ d * DayLength \in Int
  BY DayAssumption DEF Times
<1>2. l \in Int /\ l = d * DayLength + t
  BY <1>1 DEF At
<1>3. e \in Int /\ s \in 0..(DayLength - 1) /\ l = e * DayLength + s
  <2> HIDE DEF l
  <2> QED
    BY <1>2, DateAndTime DEF Times, At
<1> HIDE DEF l, e, s
<1>4. ~(d < e)
  BY <1>1, <1>2, <1>3, DaysApart
<1>5. ~(e < d)
  BY <1>1, <1>2, <1>3, DaysApart
<1>6. e = d /\ s = t
  BY <1>1, <1>2, <1>3, <1>4, <1>5
<1> QED
  BY <1>2, <1>6 DEF l, e, s

\* A conversion returns an instant that shows the local time.
LEMMA ConversionShows ==
  ASSUME NEW z \in Zone, NEW l \in Int, NEW t \in LocalToUtc(z, l, NoFold)
  PROVE  t \in Int /\ ToLocal(z, t) = l
<1>1. t \in Int
  BY FoldsAreInstants, CandidateType DEF LocalToUtc
<1> QED
  BY <1>1, OnlyUniqueTimesConvert

LEMMA LocalType ==
  ASSUME NEW z \in Zone, NEW t \in Int
  PROVE  /\ ToLocal(z, t) \in Int /\ DateOf(ToLocal(z, t)) \in Int
         /\ ToLocal(z, t) - t < DayLength /\ t - ToLocal(z, t) < DayLength
<1>1. ToLocal(z, t) \in Int /\ ToLocal(z, t) - t < DayLength /\ t - ToLocal(z, t) < DayLength
  BY ZoneType, DayAssumption DEF ToLocal, Offset
<1> QED
  BY <1>1, DateAndTime

\* The grid of a date has the instants of the date that are on the grid and whose
\* local time is neither missing nor repeated.
LEMMA CandidateStartsMean ==
  ASSUME zone \in Zone, NEW d \in Int, NEW t
  PROVE  t \in CandidateStarts(d) <=>
           /\ t \in Int /\ DateOf(ToLocal(zone, t)) = d
           /\ (ToLocal(zone, t) % DayLength) % Grid = 0
           /\ LocalToUtc(zone, ToLocal(zone, t), NoFold) # {}
<1>1. ASSUME t \in CandidateStarts(d)
      PROVE  /\ t \in Int /\ DateOf(ToLocal(zone, t)) = d
             /\ (ToLocal(zone, t) % DayLength) % Grid = 0
             /\ LocalToUtc(zone, ToLocal(zone, t), NoFold) # {}
  <2>1. PICK time \in Times : time % Grid = 0 /\ t \in LocalToUtc(zone, At(d, time), NoFold)
    BY <1>1 DEF CandidateStarts
  <2>2. At(d, time) \in Int /\ DateOf(At(d, time)) = d /\ At(d, time) % DayLength = time
    BY DateOfAt
  <2>3. t \in Int /\ ToLocal(zone, t) = At(d, time)
    BY <2>1, <2>2, ConversionShows
  <2> QED
    BY <2>1, <2>2, <2>3
<1>2. ASSUME t \in Int, DateOf(ToLocal(zone, t)) = d,
             (ToLocal(zone, t) % DayLength) % Grid = 0,
             LocalToUtc(zone, ToLocal(zone, t), NoFold) # {}
      PROVE  t \in CandidateStarts(d)
  <2> DEFINE l == ToLocal(zone, t)
             time == l % DayLength
  <2>1. l \in Int /\ time \in Times /\ l = At(d, time)
    <3>1. l \in Int
      BY <1>2, LocalType
    <3> QED
      BY <1>2, <3>1, DateAndTime
  <2>2. PICK s : s \in LocalToUtc(zone, l, NoFold)
    BY <1>2
  <2>3. s \in Int /\ \A x \in Int : ToLocal(zone, x) = l => x = s
    <3>1. s \in Int
      BY <2>1, <2>2, ConversionShows
    <3> QED
      BY <2>1, <2>2, <3>1, OnlyUniqueTimesConvert
  <2>4. t \in LocalToUtc(zone, At(d, time), NoFold)
    BY <1>2, <2>1, <2>2, <2>3
  <2>5. time % Grid = 0
    BY <1>2
  <2> QED
    BY <2>1, <2>4, <2>5 DEF CandidateStarts
<1> QED
  BY <1>1, <1>2

\* The intervals of a date are positive.
LEMMA IntervalsArePositive ==
  ASSUME NEW z \in Zone, NEW given \in Schedule, NEW date \in Int,
         NEW i \in IntervalsStartingOn(given, z, date)
  PROVE  i[1] < i[2]
<1> DEFINE exceptions == {e \in given.exceptions : e.date = date}
<1>1. given.exceptions \in SUBSET Exception
  BY DEF Schedule
<1>2. CASE exceptions # {}
  <2>1. PICK s \in UNION {e.shifts : e \in exceptions} : i \in Interval(z, s, date)
    BY <1>2 DEF IntervalsStartingOn, Evaluated
  <2>2. PICK e \in exceptions : s \in e.shifts
    BY <2>1
  <2>3. e \in Exception
    BY <1>1, <2>2
  <2>4. s \in Shift
    BY <2>2, <2>3 DEF Exception
  <2> QED
    BY <2>1, <2>4, ShiftsArePositive
<1>3. CASE exceptions = {}
  <2>1. PICK r : i \in RuleInterval(z, r, date)
    BY <1>3 DEF IntervalsStartingOn, Evaluated
  <2>2. i[2] > i[1]
    BY <2>1 DEF RuleInterval
  <2> QED
    BY <2>2
<1> QED
  BY <1>2, <1>3

-----------------------------------------------------------------------------
(* The invariant of the query.  Of the barbers about whom nothing has       *)
(* changed since it was read, what it has read is still so: every interval  *)
(* it has found is one of the schedule, every one of the dates it has been  *)
(* through is found, and the answer is cut from the slots that are free.    *)

AvailType ==
  /\ clock \in FirstTime..MaxTime /\ now \in FirstTime..clock
  /\ zone \in Zones /\ schedule \in Plans /\ offers \subseteq Assigned
  /\ bookings \in [Bookings -> Visit \cup {NoVisit}]
  /\ changes \in 0..MaxChanges /\ changed \subseteq Barbers
  /\ query \in Query \cup {NoQuery}
  /\ phase \in {"idle", "begun", "refused", "reading", "answered"}

\* What the query holds, by where it is.
AvailPlaced ==
  /\ phase \in {"begun", "reading", "answered"} =>
       /\ query \in Query /\ query.limit \in Nat
       /\ query.to <= Today(now) + HorizonDays
  /\ phase \in {"idle", "begun", "refused"} => assigned = {} /\ found = {}
  /\ phase # "reading" => todo = {}
  /\ phase # "answered" => answer = {}
  /\ phase = "answered" => Cardinality(answer) <= query.limit
  /\ assigned \subseteq Assigned
  /\ \A o \in assigned : o[1] \in query.barbers
  /\ todo \subseteq Tuples /\ IsFiniteSet(todo)
  /\ \A j \in todo : <<j[1], j[2]>> \in assigned /\ j[4] \in CoveringDates(j[3])
  /\ \A f \in found : <<f[1], f[2]>> \in assigned /\ f[4][1] < f[4][2]

Matching == {o \in offers : o[1] \in query.barbers /\ o[2] \in query.services}

MatchingIsAssigned ==
  \A o \in Assigned : o[1] \notin changed => (o \in assigned <=> o \in Matching)

FoundIsTrue ==
  \A f \in found : f[1] \notin changed =>
    \E s \in CoveringDates(f[3]) : f[4] \in IntervalsStartingOn(schedule[f[1]], zone, s)

AllIsFound ==
  \A o \in assigned, d \in query.from..query.to : \A s \in CoveringDates(d) :
    \/ o[1] \in changed
    \/ <<o[1], o[2], d, s>> \in todo
    \/ Raises(schedule[o[1]], zone, s)
    \/ \A i \in IntervalsStartingOn(schedule[o[1]], zone, s) : <<o[1], o[2], d, i>> \in found

\* No live booking clashes with the slot.
Unbooked(slot) == \A b \in Bookings : Live(b) => ~Clashes(slot, bookings[b])

\* The slots that the answer is cut from.
CutFrom(free) ==
  /\ answer = Cut(free)
  /\ \A slot \in Candidates : slot[2] \notin changed => (slot \in free <=> Unbooked(slot))

AvailCurrent ==
  /\ phase \in {"reading", "answered"} => MatchingIsAssigned /\ FoundIsTrue /\ AllIsFound
  /\ phase = "answered" => \E free \in SUBSET Candidates : CutFrom(free)

AvailInv == AvailType /\ AvailPlaced /\ AvailCurrent

LEMMA StartsType ==
  /\ FirstTime \in Int /\ MaxTime + (HorizonDays + 3) * DayLength \in Int
  /\ Starts \subseteq Int /\ IsFiniteSet(Starts)
<1>1. FirstTime \in Int /\ MaxTime + (HorizonDays + 3) * DayLength \in Int
  BY BoundsAssumption, BranchAssumption, DayAssumption
<1> QED
  BY <1>1, FS_Interval DEF Starts

\* The horizon keeps every valid start below a bound.
LEMMA ValidStartsAreStarts ==
  ASSUME AvailType, NEW start \in Int, ValidStart(start, now)
  PROVE  start \in Starts
<1> DEFINE l == ToLocal(zone, start)
           n == ToLocal(zone, now)
           d == DateOf(l)
           e == DateOf(n)
<1>1. /\ zone \in Zone /\ now \in Int /\ FirstTime \in Int /\ MaxTime \in Int
      /\ FirstTime <= now /\ now <= MaxTime /\ MinLead \in Nat /\ HorizonDays \in Nat
      /\ DayLength \in Nat \ {0}
  BY BranchAssumption, BoundsAssumption, DayAssumption DEF AvailType
<1>2. l \in Int /\ d \in Int /\ n \in Int /\ e \in Int /\ start - l < DayLength /\ n - now < DayLength
  BY <1>1, LocalType
<1>3. start >= now + MinLead /\ d <= e + HorizonDays
  BY DEF ValidStart, Today
<1> HIDE DEF l, n
<1>4. /\ l % DayLength \in 0..(DayLength - 1) /\ l = d * DayLength + (l % DayLength)
      /\ n % DayLength \in 0..(DayLength - 1) /\ n = e * DayLength + (n % DayLength)
  BY <1>2, DateAndTime DEF At, Times
<1> HIDE DEF d, e
<1>5. d * DayLength \in Int /\ e * DayLength \in Int /\ HorizonDays * DayLength \in Int
  BY <1>1, <1>2
<1>6. d * DayLength <= e * DayLength + HorizonDays * DayLength
  <2>1. (e + HorizonDays - d) * DayLength \in Nat
    <3>1. e + HorizonDays - d \in Nat
      BY <1>1, <1>2, <1>3
    <3> QED
      BY <1>1, <3>1
  <2>2. (e + HorizonDays - d) * DayLength
          = e * DayLength + HorizonDays * DayLength - d * DayLength
    BY <1>1, <1>2
  <2> QED
    BY <1>5, <2>1, <2>2
<1>7. (HorizonDays + 3) * DayLength = HorizonDays * DayLength + DayLength + DayLength + DayLength
  BY <1>1
<1>8. start <= MaxTime + (HorizonDays + 3) * DayLength
  BY <1>1, <1>2, <1>4, <1>5, <1>6, <1>7
<1>9. FirstTime <= start
  BY <1>1, <1>3
<1> QED
  BY <1>8, <1>9, StartsType DEF Starts

LEMMA AssignedType ==
  ASSUME NEW o \in Assigned
  PROVE  /\ o[1] \in Barbers /\ o[2] \in Services /\ o = <<o[1], o[2]>>
         /\ o[1] \in Int /\ o[2] \in Int /\ Duration[o[2]] \in Nat \ {0}
<1>1. o \in Barbers \X Services
  BY BranchAssumption DEF Offers
<1>2. o[1] \in Barbers /\ o[2] \in Services /\ o = <<o[1], o[2]>>
  BY <1>1
<1>3. Barbers \subseteq Nat /\ Services \subseteq Nat /\ Duration \in [Services -> Nat \ {0}]
  BY BranchAssumption
<1> QED
  BY <1>2, <1>3

\* What a candidate is.
LEMMA CandidateMeans ==
  ASSUME AvailType, AvailPlaced, phase \in {"reading", "answered"}, NEW slot
  PROVE  slot \in Candidates <=>
           \E o \in assigned, d \in query.from..query.to, start \in Starts :
             /\ slot = Slot(o[1], o[2], start)
             /\ start \in CandidateStarts(d) /\ ValidStart(start, now)
             /\ \E f \in found : /\ <<f[1], f[2], f[3]>> = <<o[1], o[2], d>>
                                 /\ Fits(start, start + Duration[o[2]], f[4])
<1>1. query.from \in Int /\ query.to \in Int /\ zone \in Zone
  BY BranchAssumption DEF AvailType, AvailPlaced, Query
<1>2. \A d \in query.from..query.to : \A start \in CandidateStarts(d) :
        ValidStart(start, now) => start \in Starts
  BY <1>1, CandidateStartsMean, ValidStartsAreStarts
<1> DEFINE Good(o, d, start) ==
             /\ ValidStart(start, now)
             /\ \E f \in found : /\ <<f[1], f[2], f[3]>> = <<o[1], o[2], d>>
                                 /\ Fits(start, start + Duration[o[2]], f[4])
           SlotsOf(o, d) == {Slot(o[1], o[2], start) :
                               start \in {t \in CandidateStarts(d) : Good(o, d, t)}}
<1>3. Candidates = UNION {SlotsOf(o, d) : o \in assigned, d \in query.from..query.to}
  BY DEF Candidates
<1>4. \A o, d : slot \in SlotsOf(o, d) <=>
        \E start \in CandidateStarts(d) : slot = Slot(o[1], o[2], start) /\ Good(o, d, start)
  OBVIOUS
<1>5. slot \in Candidates <=>
        \E o \in assigned, d \in query.from..query.to : slot \in SlotsOf(o, d)
  <2> HIDE DEF SlotsOf
  <2> QED
    BY <1>3
<1>6. \A o, d, start : Good(o, d, start) => ValidStart(start, now)
  OBVIOUS
<1> HIDE DEF SlotsOf
<1>7. slot \in Candidates <=>
        \E o \in assigned, d \in query.from..query.to, start \in Starts :
          start \in CandidateStarts(d) /\ slot = Slot(o[1], o[2], start) /\ Good(o, d, start)
  <2> HIDE DEF Good
  <2> QED
    BY <1>2, <1>4, <1>5, <1>6
<1> QED
  BY <1>7

\* Candidates are finitely many slots.
LEMMA CandidatesAreFinite ==
  ASSUME AvailType, AvailPlaced, phase \in {"reading", "answered"}
  PROVE  Candidates \in SUBSET Tuples /\ IsFiniteSet(Candidates)
<1> DEFINE D == Starts \X (Barbers \X Services)
           f == [p \in D |-> Slot(p[2][1], p[2][2], p[1])]
           T == {f[p] : p \in D}
<1>1. IsFiniteSet(D)
  BY StartsType, BranchAssumption, FS_Product
<1>2. f \in Surjection(D, T)
  BY DEF Surjection
<1>3. IsFiniteSet(T)
  <2> HIDE DEF D, f, T
  <2> QED
    BY <1>1, <1>2, FS_Surjection
<1>4. ASSUME NEW slot \in Candidates PROVE slot \in T /\ slot \in Tuples
  <2>1. PICK o \in assigned, start \in Starts : slot = Slot(o[1], o[2], start)
    BY CandidateMeans
  <2>2. /\ o[1] \in Barbers /\ o[2] \in Services /\ o[1] \in Int /\ o[2] \in Int
        /\ Duration[o[2]] \in Nat
    BY AssignedType DEF AvailPlaced
  <2>3. <<start, <<o[1], o[2]>>>> \in D
    BY <2>2
  <2>4. f[<<start, <<o[1], o[2]>>>>] = slot
    BY <2>1, <2>3
  <2>5. slot \in Tuples
    BY <2>1, <2>2, StartsType DEF Slot, Tuples
  <2> QED
    BY <2>3, <2>4, <2>5
<1> HIDE DEF T
<1>5. Candidates \in SUBSET T
  BY <1>4
<1> QED
  BY <1>3, <1>4, <1>5, FS_Subset

-----------------------------------------------------------------------------
(* The invariant is inductive: the query. *)

LEMMA ScheduleType ==
  ASSUME AvailType, NEW b \in Barbers
  PROVE  schedule[b] \in Schedule
BY BranchAssumption DEF AvailType, Plans

LEMMA BeginStep ==
  ASSUME AvailInv, NEW q \in Query, Begin(q)
  PROVE  AvailInv'
<1> USE DEF AvailInv
<1>1. /\ phase = "idle" /\ query' = q /\ now' = clock
      /\ phase' = IF Acceptable(q) THEN "begun" ELSE "refused"
      /\ UNCHANGED <<clock, zone, schedule, offers, bookings, changes, assigned, todo, found,
                     answer, changed>>
  BY DEF Begin, database
<1>2. AvailType'
  <2>1. clock \in FirstTime..clock
    BY BoundsAssumption DEF AvailType
  <2> QED
    BY <1>1, <2>1 DEF AvailType
<1>3. Acceptable(q) => q.limit \in Nat /\ q.to <= Today(clock) + HorizonDays
  BY BoundsAssumption DEF Acceptable
<1>4. Today(now)' = Today(clock)
  BY <1>1 DEF Today
<1>5. AvailPlaced'
  BY <1>1, <1>3, <1>4 DEF AvailPlaced
<1>6. AvailCurrent'
  BY <1>1 DEF AvailCurrent
<1> QED
  BY <1>2, <1>5, <1>6

\* The jobs of the query are finitely many tuples.
LEMMA JobsAreFinite ==
  ASSUME AvailType, AvailPlaced, query \in Query, NEW jobs,
         \A j \in jobs : \E o \in Assigned, d \in query.from..query.to :
           \E s \in CoveringDates(d) : j = <<o[1], o[2], d, s>>
  PROVE  jobs \subseteq Tuples /\ IsFiniteSet(jobs)
<1> DEFINE Dates4 == (query.from - 1)..query.to
           D == (Barbers \X Services) \X (Dates4 \X Dates4)
           f == [p \in D |-> <<p[1][1], p[1][2], p[2][1], p[2][2]>>]
           T == {f[p] : p \in D}
<1>1. query.from \in Int /\ query.to \in Int /\ query.from - 1 \in Int
  BY DEF Query
<1>2. IsFiniteSet(D)
  <2>1. IsFiniteSet(Dates4)
    BY <1>1, FS_Interval
  <2>2. IsFiniteSet(Dates4 \X Dates4) /\ IsFiniteSet(Barbers \X Services)
    BY <2>1, BranchAssumption, FS_Product
  <2> HIDE DEF Dates4
  <2> QED
    BY <2>2, FS_Product
<1>3. f \in Surjection(D, T)
  BY DEF Surjection
<1>4. IsFiniteSet(T)
  <2> HIDE DEF D, f, T
  <2> QED
    BY <1>2, <1>3, FS_Surjection
<1>5. ASSUME NEW j \in jobs PROVE j \in T /\ j \in Tuples
  <2>1. PICK o \in Assigned, d \in query.from..query.to : \E s \in CoveringDates(d) :
          j = <<o[1], o[2], d, s>>
    OBVIOUS
  <2>2. PICK s \in CoveringDates(d) : j = <<o[1], o[2], d, s>>
    BY <2>1
  <2>3. o[1] \in Barbers /\ o[2] \in Services /\ o[1] \in Int /\ o[2] \in Int
    BY AssignedType
  <2>4. d \in Dates4 /\ s \in Dates4 /\ d \in Int /\ s \in Int
    BY <1>1 DEF CoveringDates
  <2>5. j \in Tuples
    BY <2>2, <2>3, <2>4 DEF Tuples
  <2>6. <<<<o[1], o[2]>>, <<d, s>>>> \in D
    BY <2>3, <2>4
  <2>7. f[<<<<o[1], o[2]>>, <<d, s>>>>] = j
    BY <2>2, <2>6
  <2> QED
    BY <2>5, <2>6, <2>7
<1> HIDE DEF T
<1> QED
  BY <1>4, <1>5, FS_Subset

LEMMA ReadAssignmentsStep ==
  ASSUME AvailInv, ReadAssignments
  PROVE  AvailInv'
<1> USE DEF AvailInv
<1>1. /\ phase = "begun" /\ phase' = "reading" /\ assigned' = Matching
      /\ UNCHANGED <<clock, zone, schedule, offers, bookings, changes, query, now, found,
                     answer, changed>>
      /\ query \in Query /\ query.limit \in Nat /\ found = {} /\ answer = {}
  BY DEF ReadAssignments, Matching, database, AvailPlaced
<1>2. \A j : j \in todo' <=>
        \E o \in Matching, d \in query.from..query.to : \E s \in CoveringDates(d) :
          j = <<o[1], o[2], d, s>>
  <2> DEFINE jobs(o, d) == {<<o[1], o[2], d, s>> : s \in CoveringDates(d)}
  <2>1. todo' = UNION {jobs(o, d) : o \in Matching, d \in query.from..query.to}
    BY DEF ReadAssignments, Matching
  <2>2. \A j, o, d : j \in jobs(o, d) <=> \E s \in CoveringDates(d) : j = <<o[1], o[2], d, s>>
    OBVIOUS
  <2> HIDE DEF jobs
  <2>3. ASSUME NEW j
        PROVE  j \in todo' <=> \E o \in Matching, d \in query.from..query.to : j \in jobs(o, d)
    BY <2>1
  <2> QED
    BY <2>2, <2>3
<1>3. AvailType'
  BY <1>1 DEF AvailType
<1>4. Matching \subseteq Assigned
  BY DEF Matching, AvailType
<1>5. todo' \subseteq Tuples /\ IsFiniteSet(todo')
  BY <1>1, <1>2, <1>4, JobsAreFinite
<1>6. \A j \in todo' : <<j[1], j[2]>> \in Matching /\ j[4] \in CoveringDates(j[3])
  <2> SUFFICES ASSUME NEW j \in todo'
               PROVE  <<j[1], j[2]>> \in Matching /\ j[4] \in CoveringDates(j[3])
    OBVIOUS
  <2>1. PICK o \in Matching, d \in query.from..query.to : \E s \in CoveringDates(d) :
          j = <<o[1], o[2], d, s>>
    BY <1>2
  <2>2. PICK s \in CoveringDates(d) : j = <<o[1], o[2], d, s>>
    BY <2>1
  <2>3. o = <<o[1], o[2]>>
    BY <1>4, AssignedType
  <2> QED
    BY <2>2, <2>3
<1>7. AvailPlaced'
  <2>1. Today(now)' = Today(now)
    BY <1>1 DEF Today
  <2>2. \A o \in Matching : o[1] \in query.barbers
    BY DEF Matching
  <2> QED
    BY <1>1, <1>4, <1>5, <1>6, <2>1, <2>2 DEF AvailPlaced
<1>8. AvailCurrent'
  <2>1. MatchingIsAssigned'
    BY <1>1 DEF Matching, MatchingIsAssigned
  <2>2. FoundIsTrue'
    BY <1>1 DEF FoundIsTrue
  <2>3. AllIsFound'
    BY <1>1, <1>2 DEF AllIsFound
  <2> QED
    BY <1>1, <2>1, <2>2, <2>3 DEF AvailCurrent
<1> QED
  BY <1>3, <1>7, <1>8

LEMMA ReadScheduleStep ==
  ASSUME AvailInv, ReadSchedule
  PROVE  AvailInv'
<1> USE DEF AvailInv
<1> DEFINE job == First(todo)
           given == schedule[job[1]]
           intervals == IntervalsStartingOn(given, zone, job[4])
           new == {<<job[1], job[2], job[3], i>> : i \in intervals}
<1>1. /\ phase = "reading" /\ phase' = "reading" /\ todo # {} /\ todo' = todo \ {job}
      /\ UNCHANGED <<clock, zone, schedule, offers, bookings, changes, query, now, assigned,
                     answer, changed>>
      /\ found' = IF Raises(given, zone, job[4]) THEN found ELSE found \cup new
  BY DEF ReadSchedule, database
<1>2. /\ job \in todo /\ job \in Tuples /\ <<job[1], job[2]>> \in assigned
      /\ job[4] \in CoveringDates(job[3])
  BY <1>1, FirstIsMember DEF AvailPlaced
<1>3. given \in Schedule /\ zone \in Zone /\ job[3] \in Int /\ job[4] \in Int
  <2>1. job[1] \in Barbers
    BY <1>2, AssignedType DEF AvailPlaced
  <2>2. zone \in Zone
    BY BranchAssumption DEF AvailType
  <2> QED
    BY <1>2, <2>1, <2>2, ScheduleType DEF Tuples
<1> HIDE DEF job
<1>4. ASSUME NEW f \in new
      PROVE  /\ <<f[1], f[2]>> \in assigned /\ f[4][1] < f[4][2]
             /\ f[1] = job[1] /\ f[3] = job[3] /\ f[4] \in intervals
  <2>1. PICK i \in intervals : f = <<job[1], job[2], job[3], i>>
    OBVIOUS
  <2>2. i[1] < i[2]
    BY <1>3, IntervalsArePositive
  <2> QED
    BY <1>2, <2>1, <2>2
<1>5. found' \subseteq found \cup new /\ found \subseteq found'
  BY <1>1
<1> HIDE DEF new
<1>6. AvailType'
  BY <1>1 DEF AvailType
<1>7. AvailPlaced'
  <2>1. todo' \subseteq todo /\ IsFiniteSet(todo')
    BY <1>1, FS_Subset DEF AvailPlaced
  <2>2. \A f \in found' : <<f[1], f[2]>> \in assigned' /\ f[4][1] < f[4][2]
    BY <1>1, <1>4, <1>5 DEF AvailPlaced
  <2>3. Today(now)' = Today(now)
    BY <1>1 DEF Today
  <2> QED
    BY <1>1, <2>1, <2>2, <2>3 DEF AvailPlaced
<1>8. AvailCurrent'
  <2>1. FoundIsTrue'
    <3>1. \A f \in found : f[1] \notin changed => \E s \in CoveringDates(f[3]) :
            f[4] \in IntervalsStartingOn(schedule[f[1]], zone, s)
      BY <1>1 DEF AvailCurrent, FoundIsTrue
    <3>2. \A f \in new : \E s \in CoveringDates(f[3]) :
            f[4] \in IntervalsStartingOn(schedule[f[1]], zone, s)
      BY <1>2, <1>4
    <3> QED
      BY <1>1, <1>5, <3>1, <3>2 DEF FoundIsTrue
  <2>2. AllIsFound'
    <3> SUFFICES ASSUME NEW o \in assigned, NEW d \in query.from..query.to,
                        NEW s \in CoveringDates(d), o[1] \notin changed
                 PROVE  \/ <<o[1], o[2], d, s>> \in todo'
                        \/ Raises(schedule[o[1]], zone, s)
                        \/ \A i \in IntervalsStartingOn(schedule[o[1]], zone, s) :
                             <<o[1], o[2], d, i>> \in found'
      BY <1>1 DEF AllIsFound
    <3>1. \/ <<o[1], o[2], d, s>> \in todo
          \/ Raises(schedule[o[1]], zone, s)
          \/ \A i \in IntervalsStartingOn(schedule[o[1]], zone, s) :
               <<o[1], o[2], d, i>> \in found
      BY <1>1 DEF AvailCurrent, AllIsFound
    <3>2. CASE <<o[1], o[2], d, s>> = job
      <4>1. o[1] = job[1] /\ o[2] = job[2] /\ d = job[3] /\ s = job[4]
        BY <3>2
      <4>2. ~Raises(schedule[o[1]], zone, s) => found' = found \cup new
        BY <1>1, <4>1
      <4> QED
        BY <4>1, <4>2 DEF new
    <3> QED
      BY <1>1, <1>5, <3>1, <3>2
  <2>3. MatchingIsAssigned'
    BY <1>1 DEF AvailCurrent, Matching, MatchingIsAssigned
  <2> QED
    BY <1>1, <2>1, <2>2, <2>3 DEF AvailCurrent
<1> QED
  BY <1>6, <1>7, <1>8

\* The candidates depend on what the query has read alone.
LEMMA CandidatesStay ==
  ASSUME UNCHANGED <<zone, query, now, assigned, found>>
  PROVE  Candidates' = Candidates
BY DEF Candidates, CandidateStarts, ValidStart, Today

LEMMA FinishStep ==
  ASSUME AvailInv, Finish
  PROVE  AvailInv'
<1> USE DEF AvailInv
<1>1. /\ phase = "reading" /\ phase' = "answered" /\ answer' = Cut(Free(Candidates))
      /\ UNCHANGED <<clock, zone, schedule, offers, bookings, changes, query, now, assigned,
                     todo, found, changed>>
      /\ todo = {} /\ query.limit \in Nat /\ query \in Query
  BY DEF Finish, database, AvailPlaced
<1>2. AvailType'
  BY <1>1 DEF AvailType
<1>3. Free(Candidates) \in SUBSET Candidates
  BY DEF Free
<1>4. Free(Candidates) \in SUBSET Tuples /\ IsFiniteSet(Free(Candidates))
  <2>1. Candidates \in SUBSET Tuples /\ IsFiniteSet(Candidates)
    BY <1>1, CandidatesAreFinite
  <2> QED
    BY <1>3, <2>1, FS_Subset
<1>5. Cardinality(answer') <= query.limit
  BY <1>1, <1>4, CutIsBounded
<1>6. AvailPlaced'
  <2>1. Today(now)' = Today(now)
    BY <1>1 DEF Today
  <2> QED
    BY <1>1, <1>5, <2>1 DEF AvailPlaced
<1>7. MatchingIsAssigned' /\ FoundIsTrue' /\ AllIsFound'
  <2>1. MatchingIsAssigned /\ FoundIsTrue /\ AllIsFound
    BY <1>1 DEF AvailCurrent
  <2> QED
    BY <1>1, <2>1 DEF Matching, MatchingIsAssigned, FoundIsTrue, AllIsFound
<1>8. \E free \in SUBSET Candidates' : CutFrom(free)'
  <2>1. Candidates' = Candidates
    BY <1>1, CandidatesStay
  <2>2. \A slots : Cut(slots)' = Cut(slots)
    BY <1>1 DEF Cut
  <2>3. \A slot : Unbooked(slot)' <=> Unbooked(slot)
    BY <1>1 DEF Unbooked, Live
  <2>4. ASSUME NEW slot \in Candidates PROVE slot \in Free(Candidates) <=> Unbooked(slot)
    <3>1. slot \in Free(Candidates) => Unbooked(slot)
      BY FreeSlotsAreFree DEF Unbooked
    <3>2. Unbooked(slot) => slot \in Free(Candidates)
      BY DEF Unbooked, Free, Occupied
    <3> QED
      BY <3>1, <3>2
  <2>5. \E free \in SUBSET Candidates :
          /\ answer' = Cut(free)
          /\ \A slot \in Candidates : slot \in free <=> Unbooked(slot)
    BY <1>1, <1>3, <2>4
  <2> QED
    BY <2>1, <2>2, <2>3, <2>5 DEF CutFrom
<1> QED
  BY <1>2, <1>6, <1>7, <1>8 DEF AvailCurrent

LEMMA ForgetStep ==
  ASSUME AvailInv, Forget
  PROVE  AvailInv'
<1> USE DEF AvailInv
<1>1. /\ phase \in {"answered", "refused"} /\ phase' = "idle" /\ query' = NoQuery
      /\ assigned' = {} /\ found' = {} /\ answer' = {} /\ changed' = {} /\ todo = {}
      /\ UNCHANGED <<clock, zone, schedule, offers, bookings, changes, now, todo>>
  BY DEF Forget, database, AvailPlaced
<1>2. AvailType'
  BY <1>1 DEF AvailType
<1>3. AvailPlaced'
  BY <1>1, FS_EmptySet DEF AvailPlaced
<1> QED
  BY <1>1, <1>2, <1>3 DEF AvailCurrent

-----------------------------------------------------------------------------
(* The invariant is inductive: what happens beside the query. *)

\* A change leaves alone what the query holds, and what it has read about the
\* barbers whom it does not touch.
LEMMA ChangedStep ==
  ASSUME AvailInv, AvailType', UNCHANGED reading, UNCHANGED zone, changed \subseteq changed',
         phase \in SettingsRead =>
           \A o \in Assigned : o[1] \notin changed' =>
             /\ schedule'[o[1]] = schedule[o[1]]
             /\ o \in offers' <=> o \in offers,
         phase \in BookingsRead =>
           \A slot : slot[2] \notin changed' => (Unbooked(slot)' <=> Unbooked(slot))
  PROVE  AvailInv'
<1> USE DEF AvailInv
<1>1. UNCHANGED <<query, phase, now, assigned, todo, found, answer>>
  BY DEF reading
<1>2. AvailPlaced'
  <2>1. Today(now)' = Today(now)
    BY <1>1 DEF Today
  <2> QED
    BY <1>1, <2>1 DEF AvailPlaced
<1>3. ASSUME phase \in {"reading", "answered"}
      PROVE  MatchingIsAssigned' /\ FoundIsTrue' /\ AllIsFound'
  <2>1. MatchingIsAssigned /\ FoundIsTrue /\ AllIsFound
    BY <1>3 DEF AvailCurrent
  <2>2. \A o \in Assigned : o[1] \notin changed' =>
          schedule'[o[1]] = schedule[o[1]] /\ (o \in offers' <=> o \in offers)
    BY <1>3 DEF SettingsRead
  <2>3. \A o \in assigned : o \in Assigned
    BY DEF AvailPlaced
  <2>4. MatchingIsAssigned'
    BY <1>1, <2>1, <2>2 DEF MatchingIsAssigned, Matching
  <2>5. FoundIsTrue'
    <3>1. ASSUME NEW f \in found, f[1] \notin changed'
          PROVE  \E s \in CoveringDates(f[3]) :
                   f[4] \in IntervalsStartingOn(schedule'[f[1]], zone, s)
      <4>1. <<f[1], f[2]>> \in Assigned
        BY <2>3 DEF AvailPlaced
      <4>2. <<f[1], f[2]>>[1] = f[1]
        OBVIOUS
      <4>3. schedule'[f[1]] = schedule[f[1]]
        BY <2>2, <3>1, <4>1, <4>2
      <4> QED
        BY <2>1, <3>1, <4>3 DEF FoundIsTrue
    <3> QED
      BY <1>1, <3>1 DEF FoundIsTrue
  <2>6. AllIsFound'
    <3>1. ASSUME NEW o \in assigned, NEW d \in query.from..query.to,
                 NEW s \in CoveringDates(d), o[1] \notin changed'
          PROVE  \/ <<o[1], o[2], d, s>> \in todo
                 \/ Raises(schedule'[o[1]], zone, s)
                 \/ \A i \in IntervalsStartingOn(schedule'[o[1]], zone, s) :
                      <<o[1], o[2], d, i>> \in found
      <4>1. schedule'[o[1]] = schedule[o[1]]
        BY <2>2, <2>3, <3>1
      <4> QED
        BY <2>1, <3>1, <4>1 DEF AllIsFound
    <3> QED
      BY <1>1, <3>1 DEF AllIsFound
  <2> QED
    BY <2>4, <2>5, <2>6
<1>4. ASSUME phase = "answered" PROVE \E free \in SUBSET Candidates' : CutFrom(free)'
  <2>1. PICK free \in SUBSET Candidates : CutFrom(free)
    BY <1>4 DEF AvailCurrent
  <2>2. Candidates' = Candidates
    BY <1>1, CandidatesStay
  <2>3. Cut(free)' = Cut(free)
    BY <1>1 DEF Cut
  <2>4. \A slot \in Candidates : slot[2] \notin changed' => (slot \in free <=> Unbooked(slot)')
    BY <1>4, <2>1 DEF CutFrom, BookingsRead
  <2>5. CutFrom(free)'
    BY <1>1, <2>1, <2>2, <2>3, <2>4 DEF CutFrom
  <2> QED
    BY <2>2, <2>5
<1> QED
  BY <1>1, <1>2, <1>3, <1>4 DEF AvailCurrent

LEMMA ChangeType ==
  ASSUME AvailType, MayChange, Change
  PROVE  /\ changes' \in 0..MaxChanges
         /\ UNCHANGED reading /\ UNCHANGED <<clock, zone, query, phase, now>>
BY BoundsAssumption DEF AvailType, MayChange, Change, reading

LEMMA OutdatesMeans ==
  ASSUME AvailType, NEW barber \in Barbers, NEW read, Outdates(barber, read)
  PROVE  /\ changed' \subseteq Barbers /\ changed \subseteq changed'
         /\ phase \in read => barber \in changed'
BY DEF Outdates, AvailType

LEMMA BookStep ==
  ASSUME AvailInv, NEW b \in Bookings, NEW barber \in Barbers, NEW service \in Services,
         NEW start \in Starts, Book(b, barber, service, start)
  PROVE  AvailInv'
<1> USE DEF AvailInv
<1> DEFINE visit == VisitOf(barber, service, start)
<1>1. /\ bookings' = [bookings EXCEPT ![b] = visit] /\ bookings[b] = NoVisit
      /\ UNCHANGED <<schedule, offers>> /\ Outdates(barber, BookingsRead)
      /\ changes' \in 0..MaxChanges
      /\ UNCHANGED reading /\ UNCHANGED <<clock, zone, query, phase, now>>
  BY ChangeType DEF Book
<1>2. visit \in Visit /\ visit.barber = barber
  <2>1. start \in Int /\ Duration[service] \in Nat \ {0}
    BY StartsType, BranchAssumption
  <2> QED
    BY <2>1 DEF VisitOf, Visit
<1> HIDE DEF visit
<1>3. bookings \in [Bookings -> Visit \cup {NoVisit}] /\ bookings' \in [Bookings -> Visit \cup {NoVisit}]
  BY <1>1, <1>2 DEF AvailType
<1>4. /\ changed' \subseteq Barbers /\ changed \subseteq changed'
      /\ phase \in BookingsRead => barber \in changed'
  BY <1>1, OutdatesMeans
<1>5. AvailType'
  BY <1>1, <1>3, <1>4 DEF AvailType
<1>6. ASSUME NEW slot, slot[2] # barber PROVE Unbooked(slot)' <=> Unbooked(slot)
  <2>1. ~Clashes(slot, visit) /\ ~Live(b)
    BY <1>1, <1>2, <1>6 DEF Clashes, Live
  <2>2. \A x \in Bookings \ {b} : bookings'[x] = bookings[x]
    BY <1>1, <1>3
  <2>3. bookings'[b] = visit
    BY <1>1, <1>3
  <2> QED
    BY <2>1, <2>2, <2>3 DEF Unbooked, Live
<1> QED
  BY <1>1, <1>4, <1>5, <1>6, ChangedStep

LEMMA CancelStep ==
  ASSUME AvailInv, NEW b \in Bookings, Cancel(b)
  PROVE  AvailInv'
<1> USE DEF AvailInv
<1>1. /\ bookings' = [bookings EXCEPT ![b].live = FALSE]
      /\ UNCHANGED <<schedule, offers>> /\ bookings[b] # NoVisit
      /\ Outdates(bookings[b].barber, BookingsRead)
      /\ changes' \in 0..MaxChanges
      /\ UNCHANGED reading /\ UNCHANGED <<clock, zone, query, phase, now>>
  BY ChangeType DEF Cancel, Live
<1>2. [bookings[b] EXCEPT !.live = FALSE] \in Visit /\ bookings[b].barber \in Barbers
      /\ ~[bookings[b] EXCEPT !.live = FALSE].live
  BY <1>1 DEF AvailType, Visit
<1>3. bookings \in [Bookings -> Visit \cup {NoVisit}] /\ bookings' \in [Bookings -> Visit \cup {NoVisit}]
  BY <1>1, <1>2 DEF AvailType
<1>4. /\ changed' \subseteq Barbers /\ changed \subseteq changed'
      /\ phase \in BookingsRead => bookings[b].barber \in changed'
  BY <1>1, <1>2, OutdatesMeans
<1>5. AvailType'
  BY <1>1, <1>3, <1>4 DEF AvailType
<1>6. ASSUME NEW slot, slot[2] # bookings[b].barber PROVE Unbooked(slot)' <=> Unbooked(slot)
  <2>1. ~Clashes(slot, bookings[b])
    BY <1>6 DEF Clashes
  <2>2. \A x \in Bookings \ {b} : bookings'[x] = bookings[x]
    BY <1>1, <1>3
  <2>3. bookings'[b] = [bookings[b] EXCEPT !.live = FALSE]
    BY <1>1, <1>3
  <2>4. ~Live(b)'
    BY <1>2, <2>3 DEF Live
  <2> QED
    BY <2>1, <2>2, <2>4 DEF Unbooked, Live
<1> QED
  BY <1>1, <1>4, <1>5, <1>6, ChangedStep

LEMMA ChangeScheduleStep ==
  ASSUME AvailInv, NEW barber \in Barbers, NEW given \in Schedules[barber],
         ChangeSchedule(barber, given)
  PROVE  AvailInv'
<1> USE DEF AvailInv
<1>1. /\ schedule' = [schedule EXCEPT ![barber] = given]
      /\ UNCHANGED <<bookings, offers>> /\ Outdates(barber, SettingsRead)
      /\ changes' \in 0..MaxChanges
      /\ UNCHANGED reading /\ UNCHANGED <<clock, zone, query, phase, now>>
  BY ChangeType DEF ChangeSchedule
<1>2. schedule' \in Plans /\ \A x \in Barbers \ {barber} : schedule'[x] = schedule[x]
  <2> DEFINE all == UNION {Schedules[b] : b \in Barbers}
  <2>1. given \in all /\ schedule \in [Barbers -> all]
    BY DEF AvailType, Plans
  <2>2. schedule' \in [Barbers -> all] /\ \A x \in Barbers \ {barber} : schedule'[x] = schedule[x]
    <3> HIDE DEF all
    <3> QED
      BY <1>1, <2>1
  <2>3. \A b \in Barbers : schedule'[b] \in Schedules[b]
    <3>1. schedule \in [Barbers -> all] /\ \A b \in Barbers : schedule[b] \in Schedules[b]
      BY DEF AvailType, Plans
    <3> HIDE DEF all
    <3> QED
      BY <1>1, <3>1
  <2> QED
    BY <2>2, <2>3 DEF Plans
<1>3. /\ changed' \subseteq Barbers /\ changed \subseteq changed'
      /\ phase \in SettingsRead => barber \in changed'
  BY <1>1, OutdatesMeans
<1>4. AvailType'
  BY <1>1, <1>2, <1>3 DEF AvailType
<1>5. phase \in SettingsRead =>
        \A o \in Assigned : o[1] \notin changed' => schedule'[o[1]] = schedule[o[1]]
  BY <1>2, <1>3, AssignedType
<1>6. \A slot : Unbooked(slot)' <=> Unbooked(slot)
  BY <1>1 DEF Unbooked, Live
<1> QED
  BY <1>1, <1>3, <1>4, <1>5, <1>6, ChangedStep

LEMMA SwitchStep ==
  ASSUME AvailInv, NEW offer \in Assigned, Switch(offer)
  PROVE  AvailInv'
<1> USE DEF AvailInv
<1>1. /\ offers' = IF offer \in offers THEN offers \ {offer} ELSE offers \cup {offer}
      /\ UNCHANGED <<bookings, schedule>> /\ Outdates(offer[1], SettingsRead)
      /\ changes' \in 0..MaxChanges
      /\ UNCHANGED reading /\ UNCHANGED <<clock, zone, query, phase, now>>
  BY ChangeType DEF Switch, AvailType
<1>2. /\ changed' \subseteq Barbers /\ changed \subseteq changed'
      /\ phase \in SettingsRead => offer[1] \in changed'
  BY <1>1, AssignedType, OutdatesMeans
<1>3. AvailType'
  BY <1>1, <1>2 DEF AvailType
<1>4. \A o : o # offer => (o \in offers' <=> o \in offers)
  BY <1>1
<1>5. \A slot : Unbooked(slot)' <=> Unbooked(slot)
  BY <1>1 DEF Unbooked, Live
<1> QED
  BY <1>1, <1>2, <1>3, <1>4, <1>5, ChangedStep

LEMMA TickStep ==
  ASSUME AvailInv, Tick
  PROVE  AvailInv'
<1> USE DEF AvailInv
<1>1. /\ clock < MaxTime /\ clock' = clock + 1
      /\ UNCHANGED <<zone, schedule, offers, bookings, changes, changed>> /\ UNCHANGED reading
      /\ UNCHANGED <<query, phase, now>>
  BY DEF Tick, database, reading
<1>2. clock' \in FirstTime..MaxTime /\ now' \in FirstTime..clock'
  BY <1>1, BoundsAssumption DEF AvailType
<1>3. AvailType'
  BY <1>1, <1>2 DEF AvailType
<1>4. \A slot : Unbooked(slot)' <=> Unbooked(slot)
  BY <1>1 DEF Unbooked, Live
<1> QED
  BY <1>1, <1>3, <1>4, ChangedStep

LEMMA EnvironmentStep ==
  ASSUME AvailInv, Environment
  PROVE  AvailInv'
BY BookStep, CancelStep, ChangeScheduleStep, SwitchStep, TickStep DEF Environment

LEMMA InitAvail == Init => AvailInv
<1> SUFFICES ASSUME Init PROVE AvailInv
  OBVIOUS
<1>1. FirstTime \in FirstTime..MaxTime /\ FirstTime \in FirstTime..FirstTime
      /\ 0 \in 0..MaxChanges
  BY BoundsAssumption
<1>2. AvailType
  BY <1>1 DEF Init, AvailType
<1>3. AvailPlaced
  BY FS_EmptySet DEF Init, AvailPlaced
<1> QED
  BY <1>2, <1>3 DEF Init, AvailInv, AvailCurrent

LEMMA StutterStep ==
  ASSUME AvailInv, UNCHANGED vars
  PROVE  AvailInv'
<1>1. UNCHANGED <<clock, zone, schedule, offers, bookings, changes, query, phase, now,
                  assigned, todo, found, answer, changed>>
  BY DEF vars, database
<1>2. UNCHANGED reading
  BY <1>1 DEF reading
<1>3. AvailType'
  BY <1>1 DEF AvailInv, AvailType
<1>4. \A slot : Unbooked(slot)' <=> Unbooked(slot)
  BY <1>1 DEF Unbooked, Live
<1> QED
  BY <1>1, <1>2, <1>3, <1>4, ChangedStep

LEMMA AvailInvHolds == Spec => []AvailInv
<1>1. Init => AvailInv
  BY InitAvail
<1>2. AvailInv /\ [Next]_vars => AvailInv'
  <2> SUFFICES ASSUME AvailInv, [Next]_vars PROVE AvailInv'
    OBVIOUS
  <2>1. ASSUME NEW q \in Queries, Begin(q) PROVE AvailInv'
    BY <2>1, BranchAssumption, BeginStep
  <2>2. CASE Read
    BY <2>2, ReadAssignmentsStep, ReadScheduleStep, FinishStep DEF Read
  <2>3. CASE Forget
    BY <2>3, ForgetStep
  <2>4. CASE Environment
    BY <2>4, EnvironmentStep
  <2>5. CASE UNCHANGED vars
    BY <2>5, StutterStep
  <2> QED
    BY <2>1, <2>2, <2>3, <2>4, <2>5 DEF Next
<1> QED
  BY <1>1, <1>2, PTL DEF Spec

-----------------------------------------------------------------------------
(* What the query offers and what create_booking accepts. *)

\* The date of a start and the dates of the shifts that may cover it.
FitsSchedule(barber, service, start) ==
  \E s \in CoveringDates(DateOf(ToLocal(zone, start))) :
    \E i \in IntervalsStartingOn(schedule[barber], zone, s) :
      Fits(start, start + Duration[service], i)

Unconvertible(barber, start) ==
  \E s \in CoveringDates(DateOf(ToLocal(zone, start))) : Raises(schedule[barber], zone, s)

LEMMA OutcomeMeans ==
  ASSUME NEW barber, NEW service, NEW start
  PROVE  /\ Outcome(barber, service, start) = "CREATED" <=>
              /\ <<barber, service>> \in offers /\ ValidStart(start, clock)
              /\ ~Unconvertible(barber, start) /\ FitsSchedule(barber, service, start)
              /\ ~Taken(VisitOf(barber, service, start))
         /\ Outcome(barber, service, start) = "ERROR" <=>
              /\ <<barber, service>> \in offers /\ ValidStart(start, clock)
              /\ Unconvertible(barber, start)
<1> DEFINE visit == VisitOf(barber, service, start)
           fits == BookingFits(schedule[barber], zone, start, visit.end)
           offered == <<barber, service>> \in offers
<1>1. visit.end = start + Duration[service]
  BY DEF VisitOf
<1>2. fits = IF Unconvertible(barber, start) THEN {} ELSE {FitsSchedule(barber, service, start)}
  BY <1>1 DEF BookingFits, Unconvertible, FitsSchedule, ScheduleDates, CoveringDates, Fits,
              Within
<1>3. fits = {} <=> Unconvertible(barber, start)
  BY <1>2
<1>4. FitsSchedule(barber, service, start) \in BOOLEAN
  BY DEF FitsSchedule
<1>5. ~Unconvertible(barber, start) =>
        (fits = {FALSE} <=> ~FitsSchedule(barber, service, start))
  BY <1>2, <1>4
<1>6. Outcome(barber, service, start) =
        IF ~offered \/ ~ValidStart(start, clock) THEN "RULE_VIOLATION"
        ELSE IF fits = {} THEN "ERROR"
        ELSE IF fits = {FALSE} THEN "RULE_VIOLATION"
        ELSE IF Taken(visit) THEN "SLOT_CONFLICT" ELSE "CREATED"
  BY DEF Outcome
<1>7. ~({} = {FALSE})
  OBVIOUS
<1> HIDE DEF visit, fits, offered
<1>8. CASE ~offered \/ ~ValidStart(start, clock)
  BY <1>6, <1>8 DEF offered
<1> QED
  BY <1>3, <1>5, <1>6, <1>7, <1>8 DEF offered, visit

\* A start that the query has to offer when it may go through all dates.
Offerable(barber, service, start) ==
  /\ <<barber, service>> \in offers /\ start \in Starts
  /\ barber \in query.barbers /\ service \in query.services
  /\ DateOf(ToLocal(zone, start)) \in query.from..query.to
  /\ Nameable(start)
  /\ ValidStart(start, now)
  /\ ~Taken(VisitOf(barber, service, start))

LEMMA ClashesAreOverlaps ==
  ASSUME NEW barber, NEW service, NEW start, NEW visit
  PROVE  Clashes(Slot(barber, service, start), visit)
           <=> Overlap(VisitOf(barber, service, start), visit)
<1> DEFINE slot == Slot(barber, service, start)
           own == VisitOf(barber, service, start)
<1>1. slot[1] = start /\ slot[2] = barber /\ slot[4] = start + Duration[service]
  BY DEF Slot
<1>2. own.barber = barber /\ own.start = start /\ own.end = start + Duration[service]
  BY DEF VisitOf
<1>3. \A a, b : a > b <=> b < a
  OBVIOUS
<1> HIDE DEF slot, own
<1>4. Clashes(slot, visit) <=> Overlap(own, visit)
  BY <1>1, <1>2, <1>3 DEF Clashes, Overlap
<1> QED
  BY <1>4 DEF slot, own

LEMMA UnbookedIsNotTaken ==
  ASSUME NEW barber, NEW service, NEW start
  PROVE  Unbooked(Slot(barber, service, start)) <=> ~Taken(VisitOf(barber, service, start))
<1>1. \A b \in Bookings : Clashes(Slot(barber, service, start), bookings[b])
                           <=> Overlap(VisitOf(barber, service, start), bookings[b])
  BY ClashesAreOverlaps
<1> QED
  BY <1>1 DEF Unbooked, Taken

\* What is offered could be booked, but for shifts that cannot be converted.
LEMMA OfferIsOfferable ==
  ASSUME AvailInv, phase = "answered", NEW slot \in answer, slot[2] \notin changed
  PROVE  \E barber \in Barbers, service \in Services, start \in Starts :
           /\ slot = Slot(barber, service, start)
           /\ Offerable(barber, service, start) /\ FitsSchedule(barber, service, start)
<1> USE DEF AvailInv
<1>1. /\ MatchingIsAssigned /\ FoundIsTrue /\ query \in Query
      /\ AvailType /\ AvailPlaced /\ zone \in Zone
  BY BranchAssumption DEF AvailCurrent, AvailPlaced, AvailType
<1>2. slot \in Candidates /\ Unbooked(slot)
  <2>1. PICK free \in SUBSET Candidates : CutFrom(free)
    BY DEF AvailCurrent
  <2> QED
    BY <2>1 DEF CutFrom, Cut
<1>3. PICK o \in assigned, d \in query.from..query.to, start \in Starts :
        /\ slot = Slot(o[1], o[2], start)
        /\ start \in CandidateStarts(d) /\ ValidStart(start, now)
        /\ \E f \in found : /\ <<f[1], f[2], f[3]>> = <<o[1], o[2], d>>
                            /\ Fits(start, start + Duration[o[2]], f[4])
  BY <1>1, <1>2, CandidateMeans
<1>4. PICK f \in found : /\ <<f[1], f[2], f[3]>> = <<o[1], o[2], d>>
                         /\ Fits(start, start + Duration[o[2]], f[4])
  BY <1>3
<1>5. o[1] \notin changed
  BY <1>3 DEF Slot
<1>6. /\ o[1] \in Barbers /\ o[2] \in Services /\ <<o[1], o[2]>> \in offers
      /\ o[1] \in query.barbers /\ o[2] \in query.services
  <2>1. o \in Assigned /\ o \in Matching
    BY <1>1, <1>5 DEF MatchingIsAssigned, AvailPlaced
  <2> QED
    BY <2>1, AssignedType DEF Matching
<1>7. DateOf(ToLocal(zone, start)) = d /\ Nameable(start)
  <2>1. d \in Int
    BY <1>1 DEF Query
  <2> QED
    BY <1>1, <1>3, <2>1, CandidateStartsMean DEF Nameable
<1>8. FitsSchedule(o[1], o[2], start)
  <2>1. f[1] \notin changed
    BY <1>4, <1>5
  <2>2. PICK s \in CoveringDates(f[3]) : f[4] \in IntervalsStartingOn(schedule[f[1]], zone, s)
    BY <1>1, <1>4, <2>1 DEF FoundIsTrue
  <2> QED
    BY <1>4, <1>7, <2>2 DEF FitsSchedule
<1>9. ~Taken(VisitOf(o[1], o[2], start))
  BY <1>2, <1>3, UnbookedIsNotTaken
<1> QED
  BY <1>1, <1>3, <1>6, <1>7, <1>8, <1>9 DEF Offerable

\* What could be booked is found.
LEMMA OfferableIsCandidate ==
  ASSUME AvailInv, phase = "answered", NEW barber \in Barbers \ changed, NEW service, NEW start,
         Offerable(barber, service, start), FitsSchedule(barber, service, start),
         ~Unconvertible(barber, start)
  PROVE  Slot(barber, service, start) \in Candidates
<1> USE DEF AvailInv
<1> DEFINE d == DateOf(ToLocal(zone, start))
           o == <<barber, service>>
           slot == Slot(barber, service, start)
<1>1. /\ MatchingIsAssigned /\ AllIsFound /\ todo = {} /\ query \in Query
      /\ AvailType /\ AvailPlaced /\ zone \in Zone
  BY BranchAssumption DEF AvailCurrent, AvailPlaced, AvailType
<1>2. /\ o \in assigned /\ o[1] = barber /\ o[2] = service /\ d \in query.from..query.to
      /\ start \in Starts /\ start \in Int
  <2>1. o \in Assigned /\ o \in Matching
    BY <1>1 DEF Offerable, Matching, AvailType
  <2>2. o[1] \notin changed
    OBVIOUS
  <2>3. o \in assigned
    BY <1>1, <2>1, <2>2 DEF MatchingIsAssigned
  <2> QED
    BY <2>3, StartsType DEF Offerable
<1>3. start \in CandidateStarts(d)
  <2>1. d \in Int
    BY <1>1, <1>2 DEF Query
  <2>2. (ToLocal(zone, start) % DayLength) % Grid = 0
    BY DEF Offerable, ValidStart
  <2> QED
    BY <1>1, <1>2, <2>1, <2>2, CandidateStartsMean DEF Offerable, Nameable
<1>4. PICK s \in CoveringDates(d) : \E i \in IntervalsStartingOn(schedule[barber], zone, s) :
        Fits(start, start + Duration[service], i)
  BY DEF FitsSchedule
<1>5. PICK i \in IntervalsStartingOn(schedule[barber], zone, s) :
        Fits(start, start + Duration[service], i)
  BY <1>4
<1>6. <<barber, service, d, i>> \in found
  <2>1. ~Raises(schedule[barber], zone, s) /\ o[1] \notin changed
    BY <1>2, <1>4 DEF Unconvertible
  <2> HIDE DEF o, d
  <2>2. \A x \in IntervalsStartingOn(schedule[o[1]], zone, s) : <<o[1], o[2], d, x>> \in found
    BY <1>1, <1>2, <1>4, <2>1 DEF AllIsFound
  <2> QED
    BY <1>2, <1>5, <2>2
<1> DEFINE f == <<barber, service, d, i>>
<1>7. /\ <<f[1], f[2], f[3]>> = <<o[1], o[2], d>>
      /\ Fits(start, start + Duration[o[2]], f[4])
  BY <1>2, <1>5
<1>8. slot = Slot(o[1], o[2], start) /\ ValidStart(start, now)
  BY <1>1, <1>2 DEF Offerable
<1> HIDE DEF f, o, d, slot
<1>9. f \in found
  BY <1>6 DEF f
<1>10. slot \in Candidates
  BY <1>1, <1>2, <1>3, <1>7, <1>8, <1>9, CandidateMeans
<1> QED
  BY <1>10 DEF slot

\* A start that is valid now was valid at the earlier time of the query, when its
\* date is one of those asked for.
LEMMA ValidNowWasValid ==
  ASSUME AvailInv, phase = "answered", NEW start \in Starts, ValidStart(start, clock),
         DateOf(ToLocal(zone, start)) \in query.from..query.to
  PROVE  ValidStart(start, now)
<1> DEFINE d == DateOf(ToLocal(zone, start))
           today == Today(now)
<1>1. /\ now \in Int /\ clock \in Int /\ now <= clock /\ start \in Int
      /\ MinLead \in Nat /\ HorizonDays \in Nat
      /\ query.from \in Int /\ query.to \in Int /\ query.to <= today + HorizonDays
      /\ zone \in Zone
  BY StartsType, BranchAssumption, BoundsAssumption DEF AvailInv, AvailType, AvailPlaced, Query
<1>2. today \in Int
  BY <1>1, LocalType DEF Today
<1> HIDE DEF d, today
<1>3. start >= now + MinLead
  BY <1>1 DEF ValidStart
<1>4. d <= today + HorizonDays
  BY <1>1, <1>2 DEF d
<1> QED
  BY <1>3, <1>4 DEF ValidStart, d, today

-----------------------------------------------------------------------------
(* The theorems of the query.  They speak of any specification that keeps   *)
(* the invariant, because the partner's reads keep it as well.              *)

LEMMA AvailTypeOK ==
  ASSUME AvailInv
  PROVE  TypeOK
<1> USE DEF AvailInv
<1>1. answer # {} => query # NoQuery /\ Cardinality(answer) <= query.limit
  BY BranchAssumption DEF AvailPlaced
<1> QED
  BY <1>1 DEF AvailType, AvailPlaced, TypeOK

\* Every slot of the answer is one of a barber asked for.
LEMMA AnswersKeepTheBarbers ==
  ASSUME AvailInv, phase = "answered", NEW slot \in answer
  PROVE  slot[2] \in query.barbers
<1>1. slot \in Candidates
  BY DEF AvailInv, AvailCurrent, CutFrom, Cut
<1>2. PICK o \in assigned, start \in Starts : slot = Slot(o[1], o[2], start)
  BY <1>1, CandidateMeans DEF AvailInv
<1> QED
  BY <1>2 DEF AvailInv, AvailPlaced, Slot

LEMMA AvailAccepts ==
  ASSUME AvailInv
  PROVE  OfferedSlotsAreAccepted
<1> SUFFICES ASSUME phase = "answered", NEW slot \in answer, slot[2] \notin changed,
                    ValidStart(slot[1], clock)
             PROVE  Outcome(slot[2], slot[3], slot[1]) \in {"CREATED", "ERROR"}
  BY DEF OfferedSlotsAreAccepted
<1>1. PICK barber \in Barbers, service \in Services, start \in Starts :
        /\ slot = Slot(barber, service, start)
        /\ Offerable(barber, service, start) /\ FitsSchedule(barber, service, start)
  BY OfferIsOfferable
<1>2. slot[1] = start /\ slot[2] = barber /\ slot[3] = service
  BY <1>1 DEF Slot
<1>3. Outcome(barber, service, start) \in {"CREATED", "ERROR"}
  BY <1>1, <1>2, OutcomeMeans DEF Offerable
<1> QED
  BY <1>2, <1>3

LEMMA AvailWithholdsNothing ==
  ASSUME AvailInv
  PROVE  NothingBookableIsWithheld
<1> SUFFICES ASSUME phase = "answered",
                    NEW barber \in query.barbers \ changed, NEW service \in query.services,
                    NEW start \in Starts,
                    Outcome(barber, service, start) = "CREATED",
                    Today(start) \in query.from..query.to, Nameable(start),
                    Slot(barber, service, start) \notin answer
             PROVE  /\ Cardinality(answer) = query.limit
                    /\ \A a \in answer : Precedes(a, Slot(barber, service, start))
  BY DEF NothingBookableIsWithheld
<1> DEFINE slot == Slot(barber, service, start)
<1>1. query \in Query /\ query.limit \in Nat /\ barber \in Barbers
  BY DEF AvailInv, AvailPlaced, Query
<1>2. ValidStart(start, clock) /\ ValidStart(start, now)
  BY OutcomeMeans, ValidNowWasValid DEF Today
<1>3. Offerable(barber, service, start) /\ FitsSchedule(barber, service, start)
      /\ ~Unconvertible(barber, start)
  BY <1>2, OutcomeMeans DEF Offerable, Today
<1>4. slot \in Candidates /\ Unbooked(slot)
  BY <1>1, <1>3, OfferableIsCandidate, UnbookedIsNotTaken DEF Offerable
<1>5. slot[2] \notin changed
  BY DEF Slot
<1> HIDE DEF slot
<1>6. PICK free \in SUBSET Candidates : CutFrom(free)
  BY DEF AvailInv, AvailCurrent
<1>7. slot \in free /\ slot \notin Cut(free)
  BY <1>4, <1>5, <1>6 DEF CutFrom, slot
<1>8. free \in SUBSET Tuples /\ IsFiniteSet(free)
  <2>1. Candidates \in SUBSET Tuples /\ IsFiniteSet(Candidates)
    BY CandidatesAreFinite DEF AvailInv
  <2> QED
    BY <1>6, <2>1, FS_Subset
<1>9. Cardinality(Cut(free)) = query.limit
  BY <1>1, <1>7, <1>8, CutIsFull
<1>10. \A a \in Cut(free) : Precedes(a, slot)
  BY <1>1, <1>7, <1>8, CutIsInitial
<1> QED
  BY <1>6, <1>9, <1>10 DEF CutFrom, slot

\* list_available_slots holds only well-formed slots and intervals, and its
\* answer has at most as many slots as the limit, whatever changes meanwhile.
THEOREM AvailabilityTypes == Spec => []TypeOK
BY AvailInvHolds, AvailTypeOK, PTL

\* Whatever changes between the reads, a slot of the answer that is still far
\* enough ahead is accepted by create_booking, or its shifts cannot be converted
\* at all, as long as nothing about its barber has changed since it was read: the
\* two use the same rules, and the query has been through the same dates.
THEOREM OffersAreAccepted == Spec => []OfferedSlotsAreAccepted
BY AvailInvHolds, AvailAccepts, PTL

\* The converse: a start that create_booking accepts, of a barber about whom
\* nothing has changed since it was read, is in the answer, or the answer is full
\* and everything in it is earlier.
THEOREM AnswersAreComplete == Spec => []NothingBookableIsWithheld
BY AvailInvHolds, AvailWithholdsNothing, PTL

-----------------------------------------------------------------------------
(* Both readers. *)

\* What the partner wants, the query under way is for: one date, the largest
\* limit, and a filter that passes the services wanted.
PartnerPlaced ==
  wanted # {} /\ phase \in {"begun", "reading", "answered"} =>
    /\ query.from = query.to /\ query.limit = MaxResults
    /\ wanted \subseteq query.services

PartnerInv == AvailInv /\ PartnerPlaced

LEMMA SlotsQueryType ==
  ASSUME NEW services \in SUBSET Services, NEW barber \in Barbers \cup {AnyBarber},
         NEW d \in Dates
  PROVE  /\ SlotsQuery(services, barber, d) \in Query
         /\ services \subseteq SlotsQuery(services, barber, d).services
<1>1. d \in Int /\ MaxResults \in Int
  BY MappingAssumption, BoundsAssumption
<1>2. QueriedServices(services) \in SUBSET Services /\ services \subseteq QueriedServices(services)
  BY DEF QueriedServices
<1>3. (IF barber = AnyBarber THEN Barbers ELSE {barber}) \in SUBSET Barbers
  OBVIOUS
<1> QED
  BY <1>1, <1>2, <1>3 DEF SlotsQuery, Query

LEMMA AskAvailabilityStep ==
  ASSUME PartnerInv, NEW q \in Queries, AskAvailability(q)
  PROVE  PartnerInv'
<1>1. AvailInv'
  BY BranchAssumption, BeginStep DEF AskAvailability, PartnerInv
<1> QED
  BY <1>1 DEF AskAvailability, PartnerInv, PartnerPlaced

LEMMA AskSlotsStep ==
  ASSUME PartnerInv, NEW services \in SUBSET Services,
         NEW barber \in Barbers \cup {AnyBarber}, NEW d \in Dates,
         AskSlots(services, barber, d)
  PROVE  PartnerInv'
<1> DEFINE q == SlotsQuery(services, barber, d)
<1>1. Begin(q) /\ wanted' = services
  BY DEF AskSlots
<1>2. q \in Query /\ services \subseteq q.services
  BY SlotsQueryType
<1>3. q.from = q.to /\ q.limit = MaxResults
  BY DEF SlotsQuery
<1> HIDE DEF q
<1>4. AvailInv'
  BY <1>1, <1>2, BeginStep DEF PartnerInv
<1>5. query' = q
  BY <1>1 DEF Begin
<1> QED
  BY <1>1, <1>2, <1>3, <1>4, <1>5 DEF PartnerInv, PartnerPlaced

LEMMA RefuseSlotsStep ==
  ASSUME PartnerInv, NEW services, NEW barber, RefuseSlots(services, barber)
  PROVE  PartnerInv'
<1>1. /\ phase = "idle" /\ phase' = "refused"
      /\ UNCHANGED <<clock, zone, schedule, offers, bookings, changes, query, now, assigned,
                     todo, found, answer, changed, wanted>>
  BY DEF RefuseSlots, database
<1>2. AvailType' /\ AvailPlaced'
  BY <1>1 DEF PartnerInv, AvailInv, AvailType, AvailPlaced
<1> QED
  BY <1>1, <1>2 DEF PartnerInv, AvailInv, AvailCurrent, PartnerPlaced

LEMMA SwitchReadsStep ==
  ASSUME PartnerInv, SwitchReads
  PROVE  PartnerInv'
<1>1. /\ changes' \in 0..MaxChanges /\ UNCHANGED reading
      /\ UNCHANGED <<clock, zone, query, phase, now>>
      /\ UNCHANGED <<schedule, offers, bookings, changed, wanted>>
  BY ChangeType DEF SwitchReads, PartnerInv, AvailInv, database
<1>2. AvailType'
  BY <1>1 DEF PartnerInv, AvailInv, AvailType
<1>3. \A slot : Unbooked(slot)' <=> Unbooked(slot)
  BY <1>1 DEF Unbooked, Live
<1>4. AvailInv'
  BY <1>1, <1>2, <1>3, ChangedStep DEF PartnerInv
<1> QED
  BY <1>1, <1>4 DEF PartnerInv, PartnerPlaced

\* The steps of the query, and what happens beside it, leave its parameters.
LEMMA ReadStep ==
  ASSUME PartnerInv, Read \/ Environment, UNCHANGED wanted
  PROVE  PartnerInv'
<1>1. AvailInv'
  BY ReadAssignmentsStep, ReadScheduleStep, FinishStep, EnvironmentStep DEF PartnerInv, Read
<1>2. Read => UNCHANGED query /\ phase \in {"begun", "reading"}
  BY DEF Read, ReadAssignments, ReadSchedule, Finish
<1>3. Environment => UNCHANGED <<query, phase>>
  BY DEF Environment, Book, Cancel, ChangeSchedule, Switch, Change, Tick, reading
<1> QED
  BY <1>1, <1>2, <1>3 DEF PartnerInv, PartnerPlaced

LEMMA PartnerInvHolds == ReadsSpec => []PartnerInv
<1>1. ReadsInit => PartnerInv
  BY InitAvail DEF ReadsInit, PartnerInv, PartnerPlaced
<1>2. PartnerInv /\ [ReadsNext]_readVars => PartnerInv'
  <2> SUFFICES ASSUME PartnerInv, [ReadsNext]_readVars PROVE PartnerInv'
    OBVIOUS
  <2>1. ASSUME NEW q \in Queries, AskAvailability(q) PROVE PartnerInv'
    BY <2>1, AskAvailabilityStep
  <2>2. ASSUME NEW services \in (SUBSET Services) \ {{}},
               NEW barber \in Barbers \cup {AnyBarber},
               RefuseSlots(services, barber) \/ \E d \in Dates : AskSlots(services, barber, d)
        PROVE  PartnerInv'
    BY <2>2, RefuseSlotsStep, AskSlotsStep
  <2>3. CASE SwitchReads
    BY <2>3, SwitchReadsStep
  <2>4. CASE (Read \/ Environment) /\ UNCHANGED <<wanted, reads>>
    BY <2>4, ReadStep
  <2>5. CASE Forget /\ wanted' = {} /\ UNCHANGED reads
    BY <2>5, ForgetStep DEF PartnerInv, PartnerPlaced
  <2>6. CASE UNCHANGED readVars
    <3>1. UNCHANGED vars /\ UNCHANGED <<wanted, query, phase>>
      BY <2>6 DEF readVars, vars
    <3> QED
      BY <3>1, StutterStep DEF PartnerInv, PartnerPlaced
  <2> QED
    BY <2>1, <2>2, <2>3, <2>4, <2>5, <2>6 DEF ReadsNext
<1> QED
  BY <1>1, <1>2, PTL DEF ReadsSpec

\* The runs check the query through both readers: they share its invariant, and
\* with it every theorem above.
THEOREM ReadersKeepTheQuery ==
  ReadsSpec => [](TypeOK /\ OfferedSlotsAreAccepted /\ NothingBookableIsWithheld)
<1>1. PartnerInv => TypeOK /\ OfferedSlotsAreAccepted /\ NothingBookableIsWithheld
  BY AvailTypeOK, AvailAccepts, AvailWithholdsNothing DEF PartnerInv
<1> QED
  BY <1>1, PartnerInvHolds, PTL

\* Several services are asked for without a filter and picked out of the answer
\* afterwards.  The times shown are those that create_booking accepts for one of
\* the services, on the date and with the barbers asked for; what is missing of
\* them comes after everything in an answer that the limit has cut off.
THEOREM PartnerSeesExactly == ReadsSpec => []PartnerSeesItsServices
<1>1. ASSUME PartnerInv, phase = "answered", wanted # {}
      PROVE  /\ AvailInv /\ wanted \subseteq query.services /\ query.limit = MaxResults
             /\ query.from = query.to /\ query.from \in Int
  BY <1>1 DEF PartnerInv, PartnerPlaced, AvailInv, AvailPlaced, Query
<1>2. ASSUME PartnerInv, phase = "answered", wanted # {},
             NEW start \in Shown, ValidStart(start, clock)
      PROVE  \E barber \in query.barbers, service \in wanted :
               barber \in changed \/ Outcome(barber, service, start) \in {"CREATED", "ERROR"}
  <2>1. PICK slot \in answer : slot[3] \in wanted /\ slot[1] = start
    BY DEF Shown
  <2>2. CASE slot[2] \in changed
    <3>1. slot[2] \in query.barbers
      BY <1>1, <1>2, <2>1, AnswersKeepTheBarbers
    <3> QED
      BY <2>1, <2>2, <3>1
  <2>3. CASE slot[2] \notin changed
    <3>1. PICK barber \in Barbers, service \in Services, at \in Starts :
            /\ slot = Slot(barber, service, at)
            /\ Offerable(barber, service, at) /\ FitsSchedule(barber, service, at)
      BY <1>1, <1>2, <2>3, OfferIsOfferable
    <3>2. at = start /\ service \in wanted /\ barber \in query.barbers
      BY <2>1, <3>1 DEF Slot, Offerable
    <3>3. Outcome(barber, service, start) \in {"CREATED", "ERROR"}
      BY <1>2, <3>1, <3>2, OutcomeMeans DEF Offerable
    <3> QED
      BY <3>2, <3>3
  <2> QED
    BY <2>2, <2>3
<1>3. ASSUME PartnerInv, phase = "answered", wanted # {},
             NEW barber \in query.barbers \ changed, NEW service \in wanted,
             NEW start \in Starts, Outcome(barber, service, start) = "CREATED",
             DateOf(ToLocal(zone, start)) = query.from, Nameable(start)
      PROVE  \/ start \in Shown
             \/ /\ Cardinality(answer) = MaxResults
                /\ \A a \in answer : Precedes(a, Slot(barber, service, start))
  <2>1. Today(start) \in query.from..query.to /\ service \in query.services
    BY <1>1, <1>3 DEF Today
  <2>2. \/ Slot(barber, service, start) \in answer
        \/ /\ Cardinality(answer) = query.limit
           /\ \A a \in answer : Precedes(a, Slot(barber, service, start))
    BY <1>1, <1>3, <2>1, AvailWithholdsNothing DEF NothingBookableIsWithheld
  <2>3. Slot(barber, service, start)[1] = start /\ Slot(barber, service, start)[3] = service
    BY DEF Slot
  <2>4. Slot(barber, service, start) \in answer => start \in Shown
    BY <2>3 DEF Shown
  <2> QED
    BY <1>1, <1>3, <2>2, <2>4
<1>4. PartnerInv => PartnerSeesItsServices
  BY <1>2, <1>3 DEF PartnerSeesItsServices
<1> QED
  BY <1>4, PartnerInvHolds, PTL
=============================================================================

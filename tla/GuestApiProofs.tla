--------------------------- MODULE GuestApiProofs ---------------------------
(***************************************************************************)
(* Proofs about GuestApi for every number of browsers, accounts, requests, *)
(* bookings and keys.                                                      *)
(*                                                                         *)
(* StoreInv relates the tables to each other and to the history: a receipt *)
(* never goes away, and it names the booking that it has made.  Handler    *)
(* says what a request has found out so far; it stays true because the     *)
(* tables only grow (StoreGrows), whatever the other parties do.           *)
(***************************************************************************)
EXTENDS GuestApi, BookingRulesProofs

Grant == [token: Requests, session: Requests, created: Nat]
Origin == [session: Requests, key: Keys, token: Requests]
PCs == {"idle", "lookup", "authorize", "roles", "branches", "execute", "reread",
        "answered", "done"}

-----------------------------------------------------------------------------
(* The tables. *)

\* The receipt of the creation of a booking.
CreationOf(o) == <<o.session, NoBooking, "CREATE_BOOKING", o.key>>

\* A token belongs to a booking, and outlives the horizon of its creation.
Granted(b) ==
  grants[b] # NoGrant =>
    /\ rows[b] \in Row /\ grants[b].created <= clock
    /\ origin[b] # NoGrant /\ origin[b].session = grants[b].session
    /\ rows[b].version = 1 => rows[b].start <= grants[b].created + TokenTicks

\* A booking that was made has the receipt of its creation.
Recorded(b) ==
  origin[b] # NoGrant => rows[b] # NoRow /\ CreationOf(origin[b]) \in DOMAIN receipts

\* A result is kept for its retention, and names the booking of its identity.
Kept(id) ==
  LET receipt == receipts[id]
      response == receipt.response
  IN  /\ receipt.state \in {"COMPLETED", "TOMBSTONE"} /\ completed[id] \in Nat
      /\ receipt.state = "TOMBSTONE" => completed[id] + ResponseTicks <= clock
      /\ receipt.state = "COMPLETED" =>
           /\ response \in Responses /\ receipt.expires = completed[id] + ResponseTicks
           /\ id[3] = "CREATE_BOOKING" => response.code \in {"CREATED", "SLOT_CONFLICT"}
           /\ id[3] # "CREATE_BOOKING" => response.code # "CREATED" /\ response.booking = id[2]
           /\ response.code = "CREATED" =>
                /\ response.booking \in Bookings /\ origin[response.booking] # NoGrant
                /\ origin[response.booking] =
                     [session |-> id[1], key |-> id[4], token |-> receipt.token]

StoreInv ==
  /\ clock \in 0..MaxTime
  /\ rows \in [Bookings -> Row \cup {NoRow}]
  /\ grants \in [Bookings -> Grant \cup {NoGrant}]
  /\ origin \in [Bookings -> Origin \cup {NoGrant}]
  /\ \A b \in Bookings : Granted(b) /\ Recorded(b)
  /\ DOMAIN completed = DOMAIN receipts /\ \A id \in DOMAIN receipts : Kept(id)
  /\ OneBookingPerKey /\ UpcomingBookingsKeepTheirToken

-----------------------------------------------------------------------------
(* The handlers. *)

\* Where a request is, what it asks for and in which session.
Placed(r) ==
  /\ pc[r] \in PCs /\ session[r] \in Requests \cup {NoSession}
  /\ pc[r] \notin {"idle", "done"} => call[r] \in Calls
  /\ pc[r] \in {"execute", "reread"} => Cmd(r) \in Commands
  /\ pc[r] \in {"lookup", "authorize", "roles", "branches"} => ~IsCreate(Cmd(r))
  /\ pc[r] = "authorize" => ~IsOutcome(Cmd(r))
  /\ pc[r] \in {"roles", "branches"} => IsOutcome(Cmd(r))
  /\ pc[r] \notin {"idle", "done", "answered"} /\ IsOutcome(Cmd(r)) => Who(r) \in Users
  /\ pc[r] = "execute" /\ ~IsOutcome(Cmd(r)) => session[r] \in Requests

\* What it has found in the tables.
Found(r) ==
  /\ pc[r] \in {"authorize", "roles", "branches", "execute"} /\ ~IsCreate(Cmd(r)) =>
       rows[Cmd(r).booking] \in Row
  /\ pc[r] = "execute" /\ ~IsOutcome(Cmd(r)) /\ ~IsCreate(Cmd(r)) =>
       /\ origin[Cmd(r).booking] # NoGrant
       /\ origin[Cmd(r).booking].session = session[r]
  /\ pc[r] = "reread" =>
       /\ Identity(r) \in DOMAIN receipts
       /\ receipts[Identity(r)].state = "COMPLETED" =>
            receipts[Identity(r)].response.code = "CREATED"

\* A user who has not been permitted the outcome is not permitted it by what the
\* request has read of its scopes.
Judged(r) ==
  /\ pc[r] = "branches" /\ r \notin entitled =>
       /\ "OWNER" \notin roles[r]
       /\ \A s \in scopes[Who(r)] : s[2] # TargetBranch(r)
  /\ pc[r] = "execute" /\ IsOutcome(Cmd(r)) /\ r \notin entitled => ~Permits(r)

\* What it answers is true.
Told(r) ==
  pc[r] = "answered" =>
    /\ answer[r].status = 201 =>
         /\ answer[r].booking \in Bookings /\ origin[answer[r].booking] # NoGrant
         /\ answer[r].token = origin[answer[r].booking].token
         /\ session[r] = origin[answer[r].booking].session
    /\ answer[r].code = "FORGOTTEN" =>
         /\ Identity(r) \in DOMAIN receipts
         /\ completed[Identity(r)] + ResponseTicks <= clock
    /\ answer[r].status = 200 /\ ~IsOutcome(Cmd(r)) =>
         /\ answer[r].booking \in Bookings /\ origin[answer[r].booking] # NoGrant
         /\ origin[answer[r].booking].session = session[r]
    /\ answer[r].status = 200 /\ IsOutcome(Cmd(r)) => r \in entitled

Handler(r) == Placed(r) /\ Found(r) /\ Judged(r) /\ Told(r)

HandlersType ==
  /\ pc \in [Requests -> PCs] /\ DOMAIN call = Requests /\ DOMAIN session = Requests
  /\ DOMAIN roles = Requests /\ DOMAIN branchIds = Requests /\ DOMAIN answer = Requests

StaffInv ==
  /\ shifted \in 0..MaxScopeChanges /\ scopes \in [Users -> SUBSET Scopes]
  /\ cookie \in [Guests -> Requests \cup {NoSession}] /\ shown \subseteq Requests

GuestInv ==
  StoreInv /\ StaffInv /\ HandlersType /\ \A r \in Requests : Handler(r)

-----------------------------------------------------------------------------
(* Calls, identities, and what the steps do to the tables. *)

LEMMA CallShape ==
  ASSUME NEW c \in Calls
  PROVE  /\ c.who \in Guests \cup Users
         /\ c.cmd \in Commands \/ c.cmd.op = "GET_BOOKING"
         /\ ~IsCreate(c.cmd) => c.cmd.booking \in Bookings
         /\ IsCreate(c.cmd) \/ IsOutcome(c.cmd) => c.cmd \in Commands
BY ApiAssumption, CommandShape DEF Call, Reading, IsCreate, IsOutcome

\* The identity of a command tells creations from changes.
LEMMA IdentityShape ==
  ASSUME NEW r \in Requests, Cmd(r) \in Commands
  PROVE  /\ IsCreate(Cmd(r)) => Identity(r) = <<session[r], NoBooking, "CREATE_BOOKING", Cmd(r).key>>
         /\ ~IsCreate(Cmd(r)) => /\ Identity(r)[3] # "CREATE_BOOKING"
                                 /\ Identity(r)[2] = Cmd(r).booking
         /\ Identity(r)[3] = "CREATE_BOOKING" <=> IsCreate(Cmd(r))
         /\ IsCreate(Cmd(r)) => Cmd(r).key \in Keys /\ ~IsOutcome(Cmd(r))
BY CommandShape DEF Identity, IsCreate, IsOutcome

\* The tables only grow, and nobody is given a permission unseen.
StoreGrows ==
  /\ clock <= clock'
  /\ \A b \in Bookings : rows[b] \in Row => rows'[b] \in Row /\ rows'[b].barber = rows[b].barber
  /\ \A b \in Bookings : origin[b] # NoGrant => origin'[b] = origin[b]
  /\ \A id \in DOMAIN receipts :
       /\ id \in DOMAIN receipts' /\ completed'[id] = completed[id]
       /\ receipts'[id].state = "COMPLETED" => receipts'[id] = receipts[id]

\* A request that does not move itself still knows what it knew.
LEMMA OthersStay ==
  ASSUME GuestInv, clock' \in Nat, StoreGrows, NEW q \in Requests,
         pc'[q] = pc[q], call'[q] = call[q], session'[q] = session[q], roles'[q] = roles[q],
         branchIds'[q] = branchIds[q], answer'[q] = answer[q],
         q \in entitled => q \in entitled',
         pc[q] = "branches" /\ q \notin entitled' =>
           \A s \in scopes'[Who(q)] : s[2] # TargetBranch(q)
  PROVE  Handler(q)'
<1> USE DEF GuestInv
<1>1. /\ Cmd(q)' = Cmd(q) /\ Who(q)' = Who(q) /\ Identity(q)' = Identity(q)
  BY DEF Cmd, Who, Identity
<1>2. Handler(q)
  OBVIOUS
<1>3. Placed(q)'
  BY <1>1, <1>2 DEF Handler, Placed
<1>4. pc[q] \notin {"idle", "done"} /\ ~IsCreate(Cmd(q)) => Cmd(q).booking \in Bookings
  BY <1>2, CallShape DEF Handler, Placed, Cmd
<1>5. Found(q)'
  BY <1>1, <1>2, <1>4 DEF Handler, Found, StoreGrows
<1>6. /\ pc[q] \in {"branches", "execute"} /\ IsOutcome(Cmd(q)) =>
         TargetBranch(q)' = TargetBranch(q)
  BY <1>1, <1>2, <1>4 DEF Handler, Found, StoreGrows, TargetBranch, IsOutcome, IsCreate
<1>7. Judged(q)'
  <2>1. pc[q] = "branches" => IsOutcome(Cmd(q))
    BY <1>2 DEF Handler, Placed
  <2> QED
    BY <1>1, <1>2, <1>6, <2>1 DEF Handler, Judged, Permits
<1>8. Told(q)'
  <2>1. Told(q) /\ clock \in Nat /\ ResponseTicks \in Nat
    BY <1>2, ApiAssumption DEF Handler, StoreInv
  <2>2. SUFFICES ASSUME pc[q] = "answered" PROVE Told(q)'
    BY DEF Told
  <2>3. ASSUME answer[q].code = "FORGOTTEN"
        PROVE  /\ Identity(q) \in DOMAIN receipts'
               /\ completed'[Identity(q)] + ResponseTicks <= clock'
    <3>1. Identity(q) \in DOMAIN receipts /\ completed[Identity(q)] + ResponseTicks <= clock
      BY <2>1, <2>2, <2>3 DEF Told
    <3>2. completed[Identity(q)] \in Nat /\ completed'[Identity(q)] = completed[Identity(q)]
      BY <3>1 DEF StoreInv, Kept, StoreGrows
    <3> QED
      BY <2>1, <3>1, <3>2 DEF StoreGrows
  <2>4. \A b \in Bookings : origin[b] # NoGrant => origin'[b] = origin[b]
    BY DEF StoreGrows
  <2> QED
    BY <1>1, <2>1, <2>2, <2>3, <2>4 DEF Told
<1> QED
  BY <1>3, <1>5, <1>7, <1>8 DEF Handler

-----------------------------------------------------------------------------
(* GuestInv is inductive: the steps of a handler. *)

\* Only request r moves.
OnlyMoves(r) ==
  \A q \in Requests \ {r} :
    /\ pc'[q] = pc[q] /\ call'[q] = call[q] /\ session'[q] = session[q]
    /\ roles'[q] = roles[q] /\ branchIds'[q] = branchIds[q] /\ answer'[q] = answer[q]
    /\ q \in entitled' <=> q \in entitled

LEMMA HandlerStep ==
  ASSUME GuestInv, NEW r \in Requests, OnlyMoves(r), StoreInv', StoreGrows,
         UNCHANGED scopes, StaffInv', HandlersType', Handler(r)'
  PROVE  GuestInv'
<1>1. ASSUME NEW q \in Requests, q # r PROVE Handler(q)'
  <2>1. pc[q] = "branches" /\ q \notin entitled =>
           \A s \in scopes[Who(q)] : s[2] # TargetBranch(q)
    BY DEF GuestInv, Handler, Judged
  <2>2. clock' \in Nat
    BY DEF StoreInv
  <2> QED
    BY <1>1, <2>1, <2>2, OthersStay DEF OnlyMoves
<1> QED
  BY <1>1 DEF GuestInv

\* The same when the tables stay as they are.
LEMMA ReadingStep ==
  ASSUME GuestInv, NEW r \in Requests, OnlyMoves(r), UNCHANGED <<clock, stored, scopes>>,
         StaffInv', HandlersType', Handler(r)'
  PROVE  GuestInv'
<1>1. UNCHANGED <<clock, rows, grants, receipts, origin, completed>>
  BY DEF stored
<1>2. StoreInv'
  BY <1>1 DEF GuestInv, StoreInv, Granted, Recorded, CreationOf, Kept, OneBookingPerKey,
     UpcomingBookingsKeepTheirToken
<1>3. StoreGrows
  BY <1>1 DEF GuestInv, StoreInv, StoreGrows
<1> QED
  BY <1>2, <1>3, HandlerStep

\* An answer that reports nothing of the tables.
LEMMA PlainAnswer ==
  ASSUME NEW r \in Requests, NEW status, NEW code,
         status \notin {200, 201}, code # "FORGOTTEN", answer'[r] = Answer(status, code)
  PROVE  Told(r)'
BY DEF Told, Answer

\* How a reply moves the request.
LEMMA ReplyMoves ==
  ASSUME HandlersType, NEW r \in Requests, NEW a, Reply(r, a)
  PROVE  /\ pc' \in [Requests -> PCs] /\ DOMAIN answer' = Requests
         /\ pc'[r] = "answered" /\ answer'[r] = a
         /\ \A q \in Requests \ {r} : pc'[q] = pc[q] /\ answer'[q] = answer[q]
BY DEF HandlersType, Reply, PCs

LEMMA GotoMoves ==
  ASSUME HandlersType, NEW r \in Requests, NEW place \in PCs, Goto(r, place)
  PROVE  /\ pc' \in [Requests -> PCs] /\ pc'[r] = place
         /\ \A q \in Requests \ {r} : pc'[q] = pc[q]
BY DEF HandlersType, Goto

LEMMA SessionType ==
  ASSUME StaffInv, NEW r \in Requests, NEW who
  PROVE  SessionOf(r, who) \in Requests
BY DEF StaffInv, SessionOf

\* A handler that only replies, without having looked anything up for it.
LEMMA RefusalStep ==
  ASSUME GuestInv, NEW r \in Requests, call[r] \in Calls,
         NEW status, NEW code, status \notin {200, 201}, code # "FORGOTTEN",
         Reply(r, Answer(status, code)),
         UNCHANGED <<clock, stored, staff, browsers, call, roles, branchIds>>,
         session' \in {session, [session EXCEPT ![r] = SessionOf(r, Who(r))]}
  PROVE  GuestInv'
<1> USE DEF GuestInv
<1>1. UNCHANGED <<clock, rows, grants, receipts, origin, completed, scopes, shifted, entitled,
                  cookie, shown>>
  BY DEF stored, staff, browsers
<1>2. StaffInv'
  BY <1>1 DEF StaffInv
<1>3. HandlersType' /\ OnlyMoves(r)
  BY <1>1, ReplyMoves DEF HandlersType, OnlyMoves
<1>4. pc'[r] = "answered" /\ Told(r)'
  BY ReplyMoves, PlainAnswer
<1>5. session'[r] \in Requests \cup {NoSession}
  BY SessionType DEF HandlersType, Handler, Placed
<1>6. Handler(r)'
  BY <1>4, <1>5 DEF Handler, Placed, Found, Judged, PCs
<1> QED
  BY <1>1, <1>2, <1>3, <1>6, ReadingStep

LEMMA RefusalSteps ==
  ASSUME GuestInv, NEW r \in Requests, RefuseByLimit(r) \/ GiveUp(r) \/ Forbid(r)
  PROVE  GuestInv'
<1>1. call[r] \in Calls
  BY DEF GuestInv, Handler, Placed, RefuseByLimit, GiveUp, Forbid
<1> QED
  BY <1>1, RefusalStep DEF RefuseByLimit, GiveUp, Forbid

LEMMA LookUpStep ==
  ASSUME GuestInv, NEW r \in Requests, LookUp(r)
  PROVE  GuestInv'
<1> USE DEF GuestInv
<1>1. /\ pc[r] = "lookup" /\ call[r] \in Calls /\ ~IsCreate(Cmd(r)) /\ Cmd(r).booking \in Bookings
      /\ session[r] \in Requests \cup {NoSession}
      /\ IsOutcome(Cmd(r)) => Who(r) \in Users
  BY CallShape DEF LookUp, Handler, Placed, Cmd
<1>2. CASE rows[Cmd(r).booking] = NoRow
  BY <1>1, <1>2, RefusalStep DEF LookUp
<1>3. CASE rows[Cmd(r).booking] # NoRow
  <2> DEFINE place == IF IsOutcome(Cmd(r)) THEN "roles" ELSE "authorize"
  <2>1. /\ Goto(r, place) /\ place \in PCs /\ UNCHANGED answer
        /\ UNCHANGED <<clock, rows, grants, receipts, origin, completed, scopes, shifted,
                       entitled, cookie, shown, call, session, roles, branchIds>>
    BY <1>3 DEF LookUp, stored, staff, browsers, PCs
  <2>2. StaffInv' /\ HandlersType' /\ OnlyMoves(r)
    BY <2>1, GotoMoves DEF StaffInv, HandlersType, OnlyMoves
  <2>3. pc'[r] = place /\ Cmd(r)' = Cmd(r) /\ Who(r)' = Who(r)
    BY <2>1, GotoMoves DEF Cmd, Who
  <2>4. rows[Cmd(r).booking] \in Row
    BY <1>1, <1>3 DEF StoreInv
  <2>5. Handler(r)'
    BY <1>1, <2>1, <2>3, <2>4 DEF Handler, Placed, Found, Judged, Told, PCs
  <2> QED
    BY <2>1, <2>2, <2>5, ReadingStep DEF stored
<1> QED
  BY <1>2, <1>3

LEMMA ReceiveStep ==
  ASSUME GuestInv, NEW r \in Requests, NEW c \in Calls, Receive(r, c)
  PROVE  GuestInv'
<1> USE DEF GuestInv
<1>1. /\ pc[r] = "idle" /\ session[r] \in Requests \cup {NoSession}
      /\ UNCHANGED <<clock, rows, grants, receipts, origin, completed, scopes, shifted,
                     entitled, cookie, shown, roles, branchIds>>
      /\ call' = [call EXCEPT ![r] = c]
  BY DEF Receive, Handler, Placed, stored, staff, browsers
<1>2. /\ StaffInv' /\ Cmd(r)' = c.cmd /\ Who(r)' = c.who
      /\ DOMAIN call' = Requests /\ call'[r] = c
      /\ \A q \in Requests \ {r} : call'[q] = call[q]
  BY <1>1 DEF StaffInv, Cmd, Who, HandlersType
<1>3. CASE IsOutcome(c.cmd) /\ c.who \notin Users
  <2>1. Reply(r, Answer(401, "AUTHENTICATION_REQUIRED")) /\ UNCHANGED session
    BY <1>3 DEF Receive
  <2>2. HandlersType' /\ OnlyMoves(r)
    BY <1>1, <1>2, <2>1, ReplyMoves DEF HandlersType, OnlyMoves
  <2>3. pc'[r] = "answered" /\ Told(r)'
    BY <2>1, ReplyMoves, PlainAnswer
  <2>4. Handler(r)'
    BY <1>1, <1>2, <2>1, <2>3 DEF Handler, Placed, Found, Judged, PCs
  <2> QED
    BY <1>1, <1>2, <2>2, <2>4, ReadingStep DEF stored
<1>4. CASE ~(IsOutcome(c.cmd) /\ c.who \notin Users)
  <2> DEFINE place == IF c.cmd.op = "CREATE_BOOKING" THEN "execute" ELSE "lookup"
  <2>1. /\ Goto(r, place) /\ place \in PCs /\ UNCHANGED answer
        /\ session' = IF c.cmd.op = "CREATE_BOOKING"
                        THEN [session EXCEPT ![r] = SessionOf(r, c.who)] ELSE session
    BY <1>4 DEF Receive, PCs
  <2>2. HandlersType' /\ OnlyMoves(r)
    BY <1>1, <1>2, <2>1, GotoMoves DEF HandlersType, OnlyMoves
  <2>3. pc'[r] = place
    BY <2>1, GotoMoves
  <2>4. /\ session'[r] \in Requests \cup {NoSession}
        /\ IsCreate(c.cmd) => session'[r] \in Requests
    BY <1>1, <2>1, SessionType DEF HandlersType, IsCreate
  <2>5. Handler(r)'
    BY <1>2, <1>4, <2>3, <2>4, CallShape
       DEF Handler, Placed, Found, Judged, Told, PCs, IsCreate, IsOutcome
  <2> QED
    BY <1>1, <1>2, <2>2, <2>5, ReadingStep DEF stored
<1> QED
  BY <1>3, <1>4

LEMMA AuthorizeStep ==
  ASSUME GuestInv, NEW r \in Requests, NEW token, AuthorizeGuest(r, token)
  PROVE  GuestInv'
<1> USE DEF GuestInv
<1> DEFINE s == SessionOf(r, Who(r))
           b == Cmd(r).booking
<1>1. /\ pc[r] = "authorize" /\ call[r] \in Calls /\ b \in Bookings
      /\ ~IsCreate(Cmd(r)) /\ ~IsOutcome(Cmd(r)) /\ rows[b] \in Row
      /\ Cmd(r) \in Commands \/ Cmd(r).op = "GET_BOOKING"
  BY CallShape DEF AuthorizeGuest, Handler, Placed, Found, Cmd
<1>2. /\ session' = [session EXCEPT ![r] = s] /\ s \in Requests
      /\ session'[r] = s /\ DOMAIN session' = Requests
      /\ \A q \in Requests \ {r} : session'[q] = session[q]
      /\ UNCHANGED <<clock, rows, grants, receipts, origin, completed, scopes, shifted,
                     entitled, cookie, shown, call, roles, branchIds>>
  BY SessionType DEF AuthorizeGuest, HandlersType, stored, staff, browsers
<1>3. StaffInv' /\ Cmd(r)' = Cmd(r) /\ Who(r)' = Who(r)
  BY <1>2 DEF StaffInv, Cmd, Who
<1>4. CASE ~Manages(b, token, s)
  <2>1. /\ Reply(r, Answer(404, "NOT_FOUND"))
        /\ UNCHANGED <<clock, stored, staff, browsers, call, roles, branchIds>>
        /\ session' \in {session, [session EXCEPT ![r] = SessionOf(r, Who(r))]}
    BY <1>4 DEF AuthorizeGuest
  <2> QED
    BY <1>1, <2>1, RefusalStep
<1>5. CASE Manages(b, token, s)
  <2>1. origin[b] # NoGrant /\ origin[b].session = s
    BY <1>1, <1>5 DEF Manages, StoreInv, Granted
  <2>2. CASE Cmd(r).op = "GET_BOOKING"
    <3> DEFINE a == [Answer(200, "BOOKING") EXCEPT !.booking = b]
    <3>1. Reply(r, a) /\ a.status = 200 /\ a.code = "BOOKING" /\ a.booking = b
      BY <1>5, <2>2 DEF AuthorizeGuest, Answer
    <3> HIDE DEF a
    <3>2. HandlersType' /\ OnlyMoves(r) /\ pc'[r] = "answered" /\ answer'[r] = a
      BY <1>2, <3>1, ReplyMoves DEF HandlersType, OnlyMoves
    <3>3. Told(r)'
      BY <1>1, <1>2, <1>3, <2>1, <3>1, <3>2 DEF Told
    <3>4. Handler(r)'
      BY <1>1, <1>2, <1>3, <3>2, <3>3 DEF Handler, Placed, Found, Judged, PCs
    <3> QED
      BY <1>2, <1>3, <3>2, <3>4, ReadingStep DEF stored
  <2>3. CASE Cmd(r).op # "GET_BOOKING"
    <3>1. Goto(r, "execute") /\ UNCHANGED answer
      BY <1>5, <2>3 DEF AuthorizeGuest
    <3>2. HandlersType' /\ OnlyMoves(r) /\ pc'[r] = "execute"
      BY <1>2, <3>1, GotoMoves DEF HandlersType, OnlyMoves, PCs
    <3>3. Handler(r)'
      BY <1>1, <1>2, <1>3, <2>1, <2>3, <3>2 DEF Handler, Placed, Found, Judged, Told, PCs
    <3> QED
      BY <1>2, <1>3, <3>2, <3>3, ReadingStep DEF stored
  <2> QED
    BY <2>2, <2>3
<1> QED
  BY <1>4, <1>5

\* What is read of the scopes cannot permit what the user was never permitted.
LEMMA ScopeSteps ==
  ASSUME GuestInv, NEW r \in Requests, ReadRoles(r) \/ ReadBranches(r)
  PROVE  GuestInv'
<1> USE DEF GuestInv
<1>1. /\ pc[r] \in {"roles", "branches"} /\ call[r] \in Calls /\ Cmd(r) \in Commands
      /\ IsOutcome(Cmd(r)) /\ ~IsCreate(Cmd(r)) /\ Who(r) \in Users
      /\ rows[Cmd(r).booking] \in Row /\ session[r] \in Requests \cup {NoSession}
  BY CallShape DEF ReadRoles, ReadBranches, Handler, Placed, Found, Cmd
<1>2. UNCHANGED <<clock, rows, grants, receipts, origin, completed, scopes, shifted,
                  cookie, shown, call, session, answer>>
  BY DEF ReadRoles, ReadBranches, stored, staff, browsers
<1>3. StaffInv' /\ Cmd(r)' = Cmd(r) /\ Who(r)' = Who(r) /\ TargetBranch(r)' = TargetBranch(r)
  BY <1>2 DEF StaffInv, Cmd, Who, TargetBranch
<1>4. CASE ReadRoles(r)
  <2>1. /\ Goto(r, "branches") /\ UNCHANGED branchIds
        /\ roles' = [roles EXCEPT ![r] = {s[1] : s \in scopes[Who(r)]}]
        /\ entitled' = IF MayMark(Who(r), TargetBranch(r)) THEN entitled \cup {r} ELSE entitled
    BY <1>4 DEF ReadRoles
  <2>2. /\ HandlersType' /\ OnlyMoves(r) /\ pc'[r] = "branches"
        /\ roles'[r] = {s[1] : s \in scopes[Who(r)]}
    BY <1>2, <2>1, GotoMoves DEF HandlersType, OnlyMoves, PCs
  <2>3. r \notin entitled' => \A s \in scopes[Who(r)] : s[1] # "OWNER" /\ s[2] # TargetBranch(r)
    BY <2>1 DEF MayMark
  <2>4. Judged(r)'
    BY <1>2, <1>3, <2>2, <2>3 DEF Judged
  <2>5. Handler(r)'
    BY <1>1, <1>2, <1>3, <2>2, <2>4 DEF Handler, Placed, Found, Told, PCs
  <2> QED
    BY <1>2, <1>3, <2>2, <2>5, ReadingStep DEF stored
<1>5. CASE ReadBranches(r)
  <2>1. /\ Goto(r, "execute") /\ UNCHANGED <<roles, entitled>> /\ pc[r] = "branches"
        /\ branchIds' = [branchIds EXCEPT ![r] = {s[2] : s \in scopes[Who(r)]} \ {AnyBranch}]
    BY <1>5 DEF ReadBranches, staff
  <2>2. /\ HandlersType' /\ OnlyMoves(r) /\ pc'[r] = "execute"
        /\ branchIds'[r] = {s[2] : s \in scopes[Who(r)]} \ {AnyBranch}
    BY <1>2, <2>1, GotoMoves DEF HandlersType, OnlyMoves, PCs
  <2>3. r \notin entitled => "OWNER" \notin roles[r]
                             /\ \A s \in scopes[Who(r)] : s[2] # TargetBranch(r)
    BY <2>1 DEF Handler, Judged
  <2>4. Judged(r)'
    BY <1>3, <2>1, <2>2, <2>3 DEF Judged, Permits
  <2>5. Handler(r)'
    BY <1>1, <1>2, <1>3, <2>2, <2>4 DEF Handler, Placed, Found, Told, PCs
  <2> QED
    BY <1>2, <1>3, <2>2, <2>5, ReadingStep DEF stored
<1> QED
  BY <1>4, <1>5

\* A request that ends is forgotten; a browser keeps a session and a token.
LEMMA EndSteps ==
  ASSUME GuestInv, NEW r \in Requests, Deliver(r) \/ Lose(r)
  PROVE  GuestInv'
<1> USE DEF GuestInv
<1>1. /\ Forgotten(r) /\ pc[r] = "answered" /\ session[r] \in Requests \cup {NoSession}
      /\ UNCHANGED <<clock, rows, grants, receipts, origin, completed, scopes, shifted>>
  BY DEF Deliver, Lose, Forgotten, stored, Handler, Placed
<1>2. StaffInv'
  <2>1. CASE Lose(r)
    BY <1>1, <2>1 DEF Lose, browsers, StaffInv
  <2>2. CASE Deliver(r)
    <3>1. answer[r].status = 201 => answer[r].token \in Requests
      BY <1>1 DEF Handler, Told, StoreInv, Origin
    <3>2. shown' \subseteq Requests
      BY <2>2, <3>1 DEF Deliver, StaffInv
    <3>3. cookie' \in [Guests -> Requests \cup {NoSession}]
      BY <1>1, <2>2 DEF Deliver, StaffInv
    <3> QED
      BY <1>1, <3>2, <3>3 DEF StaffInv
  <2> QED
    BY <2>1, <2>2
<1>3. HandlersType' /\ OnlyMoves(r) /\ pc'[r] = "done" /\ session'[r] = NoSession
  BY <1>1, GotoMoves DEF Forgotten, HandlersType, OnlyMoves, PCs
<1>4. Handler(r)'
  BY <1>3 DEF Handler, Placed, Found, Judged, Told, PCs
<1> QED
  BY <1>1, <1>2, <1>3, <1>4, ReadingStep DEF stored

\* A repetition: the stored result, or the creation whose token is read again.
LEMMA ReplayStep ==
  ASSUME GuestInv, NEW r \in Requests, Replay(r)
  PROVE  GuestInv'
<1> USE DEF GuestInv
<1> DEFINE id == Identity(r)
           receipt == receipts[id]
           response == receipt.response
<1>1. /\ pc[r] = "execute" /\ call[r] \in Calls /\ Cmd(r) \in Commands
      /\ session[r] \in Requests \cup {NoSession}
      /\ Allowed(r) /\ id \in DOMAIN receipts /\ Kept(id)
  BY DEF Replay, Handler, Placed, StoreInv
<1>2. /\ UNCHANGED <<clock, stored, staff, browsers, call, session, roles, branchIds>>
      /\ UNCHANGED <<clock, rows, grants, receipts, origin, completed, scopes, shifted,
                     entitled, cookie, shown>>
  BY DEF Replay, stored, staff, browsers
<1>3. StaffInv' /\ Cmd(r)' = Cmd(r) /\ Who(r)' = Who(r) /\ Identity(r)' = id
  BY <1>2 DEF StaffInv, Cmd, Who, Identity
<1>4. ASSUME NEW a, Reply(r, a), Told(r)' PROVE GuestInv'
  <2>1. HandlersType' /\ OnlyMoves(r) /\ pc'[r] = "answered"
    BY <1>2, <1>4, ReplyMoves DEF HandlersType, OnlyMoves
  <2>2. Handler(r)'
    BY <1>1, <1>2, <1>4, <2>1 DEF Handler, Placed, Found, Judged, PCs
  <2> QED
    BY <1>2, <1>3, <2>1, <2>2, ReadingStep
<1>5. CASE receipt.cmd # Cmd(r)
  <2> DEFINE status == IF IsCreate(Cmd(r)) THEN 409 ELSE 500
  <2>1. Reply(r, Answer(status, "KEY_MISMATCH")) /\ status \notin {200, 201}
    BY <1>5 DEF Replay
  <2> HIDE DEF status
  <2> QED
    BY <1>1, <1>2, <2>1, RefusalStep
<1>6. CASE receipt.cmd = Cmd(r) /\ (receipt.state = "TOMBSTONE" \/ receipt.expires <= clock)
  <2> DEFINE a == Answer(500, "FORGOTTEN")
  <2>1. Reply(r, a) /\ a.status = 500
    BY <1>6 DEF Replay, Answer
  <2> HIDE DEF a
  <2>2. completed[id] + ResponseTicks <= clock
    BY <1>1, <1>6 DEF Kept
  <2>3. Told(r)'
    BY <1>1, <1>2, <1>3, <2>1, <2>2, ReplyMoves DEF Told
  <2> QED
    BY <1>4, <2>1, <2>3
<1>7. CASE receipt.cmd = Cmd(r) /\ receipt.state # "TOMBSTONE" /\ ~(receipt.expires <= clock)
           /\ response.code = "CREATED"
  <2>1. Goto(r, "reread") /\ UNCHANGED answer
    BY <1>7 DEF Replay
  <2>2. HandlersType' /\ OnlyMoves(r) /\ pc'[r] = "reread"
    BY <1>2, <2>1, GotoMoves DEF HandlersType, OnlyMoves, PCs
  <2>3. IsOutcome(Cmd(r)) => Who(r) \in Users
    BY <1>1 DEF Handler, Placed
  <2>4. Handler(r)'
    BY <1>1, <1>2, <1>3, <1>7, <2>2, <2>3 DEF Handler, Placed, Found, Judged, Told, PCs
  <2> QED
    BY <1>2, <1>3, <2>2, <2>4, ReadingStep
<1>8. CASE receipt.cmd = Cmd(r) /\ receipt.state # "TOMBSTONE" /\ ~(receipt.expires <= clock)
           /\ response.code # "CREATED"
  <2> DEFINE status == Status(r, response)
             a == AnswerOf(status, response, NoToken)
  <2>1. Reply(r, a) /\ a.status = status /\ a.code = response.code /\ a.booking = response.booking
    BY <1>8 DEF Replay, AnswerOf
  <2>2. response \in Responses /\ response.code # "FORGOTTEN"
    BY <1>1, <1>8 DEF Kept, Responses, Codes, Terminal
  <2>3. /\ status # 201
        /\ status = 200 => response.code \in {"RESCHEDULED"} \cup Terminal
    BY <1>8 DEF Status
  <2>4. ASSUME status = 200, ~IsOutcome(Cmd(r))
        PROVE  /\ response.booking \in Bookings /\ origin[response.booking] # NoGrant
               /\ origin[response.booking].session = session[r]
    <3>1. ~IsCreate(Cmd(r)) /\ response.booking = Cmd(r).booking
      BY <1>1, <1>8, <2>3, <2>4, IdentityShape DEF Kept, Terminal
    <3>2. Cmd(r).booking \in Bookings
      BY <1>1, <3>1, CommandShape
    <3> QED
      BY <1>1, <2>4, <3>1, <3>2 DEF Handler, Found
  <2>5. status = 200 /\ IsOutcome(Cmd(r)) => r \in entitled
    BY <1>1 DEF Allowed, Handler, Judged
  <2> HIDE DEF status, a
  <2>6. Told(r)'
    BY <1>2, <1>3, <2>1, <2>2, <2>3, <2>4, <2>5, ReplyMoves DEF Told
  <2> QED
    BY <1>4, <2>1, <2>6
<1> QED
  BY <1>5, <1>6, <1>7, <1>8

\* The second reading finds the token of the creation, or nothing.
LEMMA RereadStep ==
  ASSUME GuestInv, NEW r \in Requests, Reread(r)
  PROVE  GuestInv'
<1> USE DEF GuestInv
<1> DEFINE id == Identity(r)
           receipt == receipts[id]
           response == receipt.response
           a == IF receipt.state = "TOMBSTONE" THEN Answer(500, "FORGOTTEN")
                ELSE AnswerOf(201, response, ReplayToken(r))
<1>1. /\ pc[r] = "reread" /\ call[r] \in Calls /\ Cmd(r) \in Commands
      /\ session[r] \in Requests \cup {NoSession} /\ id \in DOMAIN receipts /\ Kept(id)
      /\ receipt.state = "COMPLETED" => response.code = "CREATED"
  BY DEF Reread, Handler, Placed, Found, StoreInv
<1>2. /\ UNCHANGED <<clock, stored, scopes, call, session, roles, branchIds>>
      /\ UNCHANGED <<clock, rows, grants, receipts, origin, completed, scopes, shifted,
                     entitled, cookie, shown>>
  BY DEF Reread, stored, staff, browsers
<1>3. StaffInv' /\ Cmd(r)' = Cmd(r) /\ Who(r)' = Who(r) /\ Identity(r)' = id
  BY <1>2 DEF StaffInv, Cmd, Who, Identity
<1>4. Reply(r, a)
  BY DEF Reread
<1>5. Told(r)'
  <2>1. answer'[r] = a
    BY <1>4, ReplyMoves
  <2>2. CASE receipt.state = "TOMBSTONE"
    <3>1. a.status = 500 /\ completed[id] + ResponseTicks <= clock
      BY <1>1, <2>2 DEF Answer, Kept
    <3> HIDE DEF a
    <3> QED
      BY <1>1, <1>2, <1>3, <2>1, <3>1 DEF Told
  <2>3. CASE receipt.state # "TOMBSTONE"
    <3>1. receipt.state = "COMPLETED" /\ response.code = "CREATED"
      BY <1>1, <2>3 DEF Kept
    <3>2. IsCreate(Cmd(r)) /\ id[1] = session[r]
      BY <1>1, <3>1, IdentityShape DEF Kept
    <3>3. /\ response.booking \in Bookings /\ origin[response.booking] # NoGrant
          /\ origin[response.booking].session = session[r]
          /\ origin[response.booking].token = receipt.token
      BY <1>1, <3>1, <3>2 DEF Kept
    <3>4. /\ a.status = 201 /\ a.code = "CREATED" /\ a.booking = response.booking
          /\ a.token = receipt.token
      BY <2>3, <3>1 DEF AnswerOf, ReplayToken
    <3> HIDE DEF a
    <3> QED
      BY <1>2, <1>3, <2>1, <3>3, <3>4 DEF Told
  <2> QED
    BY <2>2, <2>3
<1>6. HandlersType' /\ OnlyMoves(r) /\ pc'[r] = "answered"
  BY <1>2, <1>4, ReplyMoves DEF HandlersType, OnlyMoves
<1>7. Handler(r)'
  BY <1>1, <1>2, <1>5, <1>6 DEF Handler, Placed, Found, Judged, PCs
<1> QED
  BY <1>2, <1>3, <1>6, <1>7, ReadingStep

-----------------------------------------------------------------------------
(* The commands that take effect. *)

\* A start that is accepted now is reached before a token of now is old.
LEMMA StartWithinRetention ==
  ASSUME NEW start \in Nat, NEW now \in Nat, ValidStart(start, now)
  PROVE  start <= now + TokenTicks
<1> DEFINE s == start \div DayLength
           n == now \div DayLength
<1>1. /\ DayLength \in Nat \ {0} /\ HorizonDays \in Nat /\ TokenTicks \in Nat
      /\ (HorizonDays + 1) * DayLength <= TokenTicks + 1
  BY PolicyAssumption, ApiAssumption
<1>2. /\ s \in Int /\ start = DayLength * s + (start % DayLength)
      /\ start % DayLength \in Int /\ start % DayLength < DayLength
  BY <1>1, Division
<1>3. /\ n \in Int /\ now = DayLength * n + (now % DayLength)
      /\ now % DayLength \in Int /\ 0 <= now % DayLength
  BY <1>1, Division
<1>4. s <= n + HorizonDays
  BY DEF ValidStart
<1> HIDE DEF s, n
<1>5. DayLength * s <= DayLength * (n + HorizonDays)
  BY <1>1, <1>2, <1>3, <1>4
<1>6. DayLength * (n + HorizonDays) + DayLength = DayLength * n + (HorizonDays + 1) * DayLength
  BY <1>1, <1>3
<1>7. DayLength * s \in Int /\ DayLength * n \in Int /\ (HorizonDays + 1) * DayLength \in Int
  BY <1>1, <1>2, <1>3
<1> QED
  BY <1>1, <1>2, <1>3, <1>5, <1>6, <1>7

\* The receipt that a command leaves; the others stay.
LEMMA SettleStores ==
  ASSUME NEW r \in Requests, NEW b, NEW verdict, Settle(r, b, verdict),
         Identity(r) \notin DOMAIN receipts, DOMAIN completed = DOMAIN receipts,
         NEW id, id = Identity(r), NEW response, response = Response(b, verdict),
         NEW token, token = IF response.code = "CREATED" THEN r ELSE NoToken
  PROVE  /\ DOMAIN receipts' = DOMAIN receipts \cup {id}
         /\ DOMAIN completed' = DOMAIN receipts \cup {id}
         /\ \A x \in DOMAIN receipts : receipts'[x] = receipts[x] /\ completed'[x] = completed[x]
         /\ completed'[id] = clock
         /\ receipts'[id] = [cmd |-> Cmd(r), state |-> "COMPLETED", response |-> response,
                             token |-> token, expires |-> clock + ResponseTicks]
         /\ rows' = [rows EXCEPT ![b] = verdict.row]
         /\ Reply(r, AnswerOf(Status(r, response), response, token))
BY DEF Settle, Added

\* What a settled command means for the request itself and for the others, once
\* the tables are known to be in order.
LEMMA SettledStep ==
  ASSUME GuestInv, NEW r \in Requests, pc[r] = "execute", NEW a, Reply(r, a),
         StoreInv', StoreGrows, Told(r)',
         UNCHANGED <<clock, staff, browsers, call, session, roles, branchIds>>
  PROVE  GuestInv'
<1> USE DEF GuestInv
<1>1. UNCHANGED <<clock, scopes, shifted, entitled, cookie, shown, call, session, roles, branchIds>>
  BY DEF staff, browsers
<1>2. StaffInv' /\ HandlersType' /\ OnlyMoves(r) /\ pc'[r] = "answered"
  BY <1>1, ReplyMoves DEF StaffInv, HandlersType, OnlyMoves
<1>3. Handler(r)'
  BY <1>1, <1>2 DEF Handler, Placed, Found, Judged, PCs, Cmd
<1> QED
  BY <1>1, <1>2, <1>3, HandlerStep

LEMMA ChangeStep ==
  ASSUME GuestInv, NEW r \in Requests, ExecuteChange(r)
  PROVE  GuestInv'
<1> USE DEF GuestInv
<1> DEFINE c == Cmd(r)
           b == c.booking
           id == Identity(r)
           verdict == ChangeVerdict(c, rows[b], clock, rows)
           response == Response(b, verdict)
           status == Status(r, response)
           a == AnswerOf(status, response, NoToken)
<1>1. /\ pc[r] = "execute" /\ c \in Commands /\ ~IsCreate(c) /\ Allowed(r)
      /\ b \in Bookings /\ rows[b] \in Row /\ id \notin DOMAIN receipts /\ clock \in Nat
      /\ Settle(r, b, verdict)
      /\ UNCHANGED <<clock, grants, origin, staff, browsers, call, session, roles, branchIds>>
  <2>1. pc[r] = "execute" /\ c \in Commands /\ ~IsCreate(c)
    BY DEF ExecuteChange, Handler, Placed
  <2> QED
    BY <2>1, CommandShape DEF ExecuteChange, Handler, Found, StoreInv
<1>2. /\ verdict.code \in Codes /\ verdict.code # "CREATED" /\ verdict.row \in Row
      /\ verdict.row.barber = rows[b].barber
      /\ verdict.row = rows[b] \/ verdict.row.version = rows[b].version + 1
  BY <1>1, ChangeShape, ChangeVerdictType
<1> HIDE DEF verdict
<1>3. /\ response \in Responses /\ response.code = verdict.code /\ response.booking = b
  BY <1>1, <1>2, ResponseType, NullAssumption DEF Response
<1> HIDE DEF response
<1>4. /\ DOMAIN receipts' = DOMAIN receipts \cup {id}
      /\ DOMAIN completed' = DOMAIN receipts \cup {id}
      /\ \A x \in DOMAIN receipts : receipts'[x] = receipts[x] /\ completed'[x] = completed[x]
      /\ completed'[id] = clock
      /\ receipts'[id] = [cmd |-> c, state |-> "COMPLETED", response |-> response,
                          token |-> NoToken, expires |-> clock + ResponseTicks]
      /\ rows' = [rows EXCEPT ![b] = verdict.row]
      /\ Reply(r, a)
  BY <1>1, <1>2, <1>3, SettleStores DEF StoreInv, response
<1>5. /\ rows' \in [Bookings -> Row \cup {NoRow}] /\ rows'[b] = verdict.row
      /\ \A x \in Bookings \ {b} : rows'[x] = rows[x]
      /\ rows[b].version \in Nat \ {0}
  BY <1>1, <1>2, <1>4 DEF StoreInv, Row
<1>6. rows'[b].version = 1 => rows'[b] = rows[b]
  BY <1>2, <1>5
<1>7. StoreGrows
  BY <1>1, <1>2, <1>4, <1>5 DEF StoreGrows
<1>8. \A x \in Bookings : Granted(x)' /\ Recorded(x)'
  <2> SUFFICES ASSUME NEW x \in Bookings PROVE Granted(x)' /\ Recorded(x)'
    OBVIOUS
  <2>1. Granted(x) /\ Recorded(x)
    BY DEF StoreInv
  <2>2. Granted(x)'
    BY <1>1, <1>2, <1>5, <1>6, <2>1 DEF Granted
  <2>3. Recorded(x)'
    BY <1>1, <1>2, <1>4, <1>5, <2>1, NullAssumption DEF Recorded, CreationOf
  <2> QED
    BY <2>2, <2>3
<1>9. \A x \in DOMAIN receipts' : Kept(x)'
  <2>1. ASSUME NEW x \in DOMAIN receipts PROVE Kept(x)'
    <3>1. Kept(x)
      BY DEF StoreInv
    <3> QED
      BY <1>1, <1>4, <3>1 DEF Kept
  <2>2. ASSUME NEW x, x = id PROVE Kept(x)'
    <3>1. x[3] # "CREATE_BOOKING" /\ x[2] = b
      BY <1>1, <2>2, IdentityShape
    <3>2. /\ receipts'[x].state = "COMPLETED" /\ receipts'[x].response = response
          /\ receipts'[x].expires = clock + ResponseTicks /\ completed'[x] = clock
      BY <1>4, <2>2
    <3> QED
      BY <1>1, <1>2, <1>3, <3>1, <3>2 DEF Kept
  <2> QED
    BY <1>4, <2>1, <2>2
<1>10. OneBookingPerKey' /\ UpcomingBookingsKeepTheirToken'
  BY <1>1, <1>5, <1>6 DEF StoreInv, OneBookingPerKey, UpcomingBookingsKeepTheirToken
<1>11. StoreInv'
  BY <1>1, <1>4, <1>5, <1>8, <1>9, <1>10 DEF StoreInv
<1>12. Told(r)'
  <2>1. status # 201 /\ a.status = status /\ a.code = response.code /\ a.booking = b
    BY <1>2, <1>3 DEF Status, AnswerOf
  <2>2. answer'[r] = a /\ response.code # "FORGOTTEN" /\ Cmd(r)' = Cmd(r)
    BY <1>1, <1>2, <1>3, <1>4, ReplyMoves DEF Codes, Terminal, Cmd
  <2>3. ~IsOutcome(c) => origin[b] # NoGrant /\ origin[b].session = session[r]
    BY <1>1 DEF Handler, Found
  <2>4. IsOutcome(c) => r \in entitled
    BY <1>1 DEF Handler, Judged, Allowed
  <2>5. UNCHANGED <<origin, session, entitled>>
    BY <1>1 DEF staff
  <2> HIDE DEF a, status
  <2> QED
    BY <1>1, <2>1, <2>2, <2>3, <2>4, <2>5 DEF Told
<1> QED
  BY <1>1, <1>4, <1>7, <1>11, <1>12, SettledStep

\* A creation that takes its slot: a booking, its token and its receipt.
LEMMA CreatedStep ==
  ASSUME GuestInv, NEW r \in Requests, NEW b \in Bookings, NEW verdict,
         pc[r] = "execute", IsCreate(Cmd(r)), Identity(r) \notin DOMAIN receipts,
         rows[b] = NoRow, ~BreaksCreateRules(Cmd(r), clock), Settle(r, b, verdict),
         verdict = Verdict("CREATED", NewRow(Cmd(r))),
         grants' = [grants EXCEPT ![b] = [token |-> r, session |-> session[r], created |-> clock]],
         origin' = [origin EXCEPT ![b] = [session |-> session[r], key |-> Cmd(r).key, token |-> r]],
         UNCHANGED <<clock, staff, browsers, call, session, roles, branchIds>>
  PROVE  GuestInv'
<1> USE DEF GuestInv
<1> DEFINE c == Cmd(r)
           id == Identity(r)
           response == Response(b, verdict)
           grant == [token |-> r, session |-> session[r], created |-> clock]
           made == [session |-> session[r], key |-> c.key, token |-> r]
           status == Status(r, response)
           a == AnswerOf(status, response, r)
<1>1. /\ c \in Commands /\ session[r] \in Requests /\ clock \in Nat /\ c.key \in Keys
      /\ ~IsOutcome(c) /\ id = <<session[r], NoBooking, "CREATE_BOOKING", c.key>>
      /\ NewRow(c) \in Row /\ NewRow(c) # NoRow
      /\ NewRow(c).version = 1 /\ NewRow(c).start = c.start
  <2>1. c \in Commands /\ (~IsOutcome(c) => session[r] \in Requests)
    BY DEF Handler, Placed
  <2>2. /\ ~IsOutcome(c) /\ c.key \in Keys
        /\ id = <<session[r], NoBooking, "CREATE_BOOKING", c.key>>
    BY <2>1, IdentityShape
  <2>3. NewRow(c) \in Row /\ NewRow(c) # NoRow
    BY <2>1, NewRowType, NullAssumption
  <2>4. NewRow(c).version = 1 /\ NewRow(c).start = c.start
    BY DEF NewRow
  <2> QED
    BY <2>1, <2>2, <2>3, <2>4 DEF StoreInv
<1>2. /\ response \in Responses /\ response.code = "CREATED" /\ response.booking = b
      /\ verdict.row = NewRow(c)
  <2>1. verdict.code = "CREATED" /\ verdict.row = NewRow(c) /\ verdict.code \in Codes
    BY DEF Verdict, Codes
  <2> QED
    BY <1>1, <2>1, ResponseType DEF Response
<1> HIDE DEF response
<1>3. /\ DOMAIN receipts' = DOMAIN receipts \cup {id}
      /\ DOMAIN completed' = DOMAIN receipts \cup {id}
      /\ \A x \in DOMAIN receipts : receipts'[x] = receipts[x] /\ completed'[x] = completed[x]
      /\ completed'[id] = clock
      /\ receipts'[id] = [cmd |-> c, state |-> "COMPLETED", response |-> response,
                          token |-> r, expires |-> clock + ResponseTicks]
      /\ rows' = [rows EXCEPT ![b] = NewRow(c)]
      /\ Reply(r, a)
  <2>1. response = Response(b, verdict) /\ DOMAIN completed = DOMAIN receipts
    BY DEF response, StoreInv
  <2>2. r = IF response.code = "CREATED" THEN r ELSE NoToken
    BY <1>2
  <2> QED
    BY <1>2, <2>1, <2>2, SettleStores
<1>4. status = 201
  BY <1>2 DEF Status, Terminal
<1>5. grants[b] = NoGrant /\ origin[b] = NoGrant
  BY NullAssumption DEF StoreInv, Granted, Recorded
<1>6. /\ grant \in Grant /\ grant # NoGrant /\ made \in Origin /\ made # NoGrant
  BY <1>1, ApiAssumption DEF Grant, Origin
<1>7. /\ rows' \in [Bookings -> Row \cup {NoRow}] /\ rows'[b] = NewRow(c)
      /\ grants' \in [Bookings -> Grant \cup {NoGrant}] /\ grants'[b] = grant
      /\ origin' \in [Bookings -> Origin \cup {NoGrant}] /\ origin'[b] = made
      /\ \A x \in Bookings \ {b} :
           rows'[x] = rows[x] /\ grants'[x] = grants[x] /\ origin'[x] = origin[x]
  BY <1>1, <1>3, <1>6 DEF StoreInv
<1>8. grant.session = session[r] /\ grant.created = clock /\ made.session = session[r]
      /\ made.key = c.key /\ made.token = r /\ CreationOf(made) = id
  BY <1>1 DEF CreationOf
<1> HIDE DEF grant, made
<1>9. StoreGrows
  BY <1>1, <1>3, <1>5, <1>7, NullAssumption DEF StoreGrows
<1>10. ASSUME NEW x \in Bookings PROVE Granted(x)' /\ Recorded(x)'
  <2>1. CASE x = b
    <3>1. c.start <= clock + TokenTicks
      BY <1>1, CommandShape, StartWithinRetention DEF BreaksCreateRules
    <3>2. Granted(x)'
      BY <1>1, <1>6, <1>7, <1>8, <2>1, <3>1 DEF Granted
    <3>3. Recorded(x)'
      BY <1>1, <1>3, <1>7, <1>8, <2>1 DEF Recorded, CreationOf
    <3> QED
      BY <3>2, <3>3
  <2>2. CASE x # b
    BY <1>3, <1>7, <2>2 DEF StoreInv, Granted, Recorded, CreationOf
  <2> QED
    BY <2>1, <2>2
<1>11. ASSUME NEW x \in DOMAIN receipts' PROVE Kept(x)'
  <2>1. CASE x \in DOMAIN receipts
    <3>1. Kept(x) /\ receipts'[x] = receipts[x] /\ completed'[x] = completed[x]
      BY <1>3, <2>1 DEF StoreInv
    <3>2. \A y \in Bookings : origin[y] # NoGrant => origin'[y] = origin[y]
      BY <1>5, <1>7
    <3> QED
      BY <3>1, <3>2 DEF Kept
  <2>2. CASE x = id
    <3>1. x[1] = session[r] /\ x[3] = "CREATE_BOOKING" /\ x[4] = c.key
      BY <1>1, <2>2
    <3>2. /\ receipts'[x].state = "COMPLETED" /\ receipts'[x].response = response
          /\ receipts'[x].expires = clock + ResponseTicks /\ receipts'[x].token = r
          /\ completed'[x] = clock
      BY <1>3, <2>2
    <3>3. origin'[b] = [session |-> session[r], key |-> c.key, token |-> r]
      BY <1>7 DEF made
    <3> QED
      BY <1>1, <1>2, <1>6, <1>7, <3>1, <3>2, <3>3 DEF Kept
  <2> QED
    BY <1>3, <2>1, <2>2
\* The identity is new, so no other booking has the session and the key.
<1>12. OneBookingPerKey'
  <2>1. ASSUME NEW x \in Bookings \ {b}, origin[x] # NoGrant
        PROVE  <<origin[x].session, origin[x].key>> # <<made.session, made.key>>
    <3>1. CreationOf(origin[x]) # id
      BY <2>1 DEF StoreInv, Recorded
    <3> QED
      BY <1>8, <3>1 DEF CreationOf
  <2>2. \A x, y \in Bookings \ {b} : x # y /\ origin[x] # NoGrant /\ origin[y] # NoGrant =>
          <<origin[x].session, origin[x].key>> # <<origin[y].session, origin[y].key>>
    BY DEF StoreInv, OneBookingPerKey
  <2> QED
    BY <1>7, <2>1, <2>2 DEF OneBookingPerKey
<1>13. UpcomingBookingsKeepTheirToken'
  BY <1>6, <1>7 DEF StoreInv, UpcomingBookingsKeepTheirToken
<1>14. StoreInv'
  BY <1>3, <1>7, <1>10, <1>11, <1>12, <1>13 DEF StoreInv
<1>15. Told(r)'
  <2>1. a.status = 201 /\ a.code = "CREATED" /\ a.booking = b /\ a.token = r
    BY <1>2, <1>4 DEF AnswerOf
  <2>2. answer'[r] = a
    BY <1>3, ReplyMoves
  <2> HIDE DEF a
  <2> QED
    BY <1>6, <1>7, <1>8, <2>1, <2>2 DEF Told
<1> QED
  BY <1>3, <1>9, <1>14, <1>15, SettledStep

\* A creation that finds its slot taken leaves its receipt.
LEMMA ConflictStep ==
  ASSUME GuestInv, NEW r \in Requests, NEW b \in Bookings, NEW verdict,
         pc[r] = "execute", IsCreate(Cmd(r)), Identity(r) \notin DOMAIN receipts,
         rows[b] = NoRow, Settle(r, b, verdict), verdict = Verdict("SLOT_CONFLICT", NoRow),
         UNCHANGED <<clock, grants, origin, staff, browsers, call, session, roles, branchIds>>
  PROVE  GuestInv'
<1> USE DEF GuestInv
<1> DEFINE id == Identity(r)
           response == Response(b, verdict)
           a == AnswerOf(409, response, NoToken)
<1>1. Cmd(r) \in Commands /\ clock \in Nat /\ id[3] = "CREATE_BOOKING"
  BY IdentityShape DEF Handler, Placed, StoreInv
<1>2. response \in Responses /\ response.code = "SLOT_CONFLICT" /\ verdict.row = NoRow
  BY ResponseType DEF Response, Verdict, Codes
<1> HIDE DEF response
<1>3. /\ DOMAIN receipts' = DOMAIN receipts \cup {id}
      /\ DOMAIN completed' = DOMAIN receipts \cup {id}
      /\ \A x \in DOMAIN receipts : receipts'[x] = receipts[x] /\ completed'[x] = completed[x]
      /\ completed'[id] = clock
      /\ receipts'[id] = [cmd |-> Cmd(r), state |-> "COMPLETED", response |-> response,
                          token |-> NoToken, expires |-> clock + ResponseTicks]
      /\ rows' = [rows EXCEPT ![b] = NoRow]
      /\ Reply(r, AnswerOf(Status(r, response), response, NoToken))
  <2>1. response = Response(b, verdict) /\ DOMAIN completed = DOMAIN receipts
    BY DEF response, StoreInv
  <2>2. NoToken = IF response.code = "CREATED" THEN r ELSE NoToken
    BY <1>2
  <2> QED
    BY <1>2, <2>1, <2>2, SettleStores
<1>4. Reply(r, a)
  BY <1>2, <1>3 DEF Status, Terminal
<1>5. rows' = rows
  BY <1>3 DEF StoreInv
<1>6. StoreGrows
  BY <1>1, <1>3, <1>5 DEF StoreGrows
<1>7. ASSUME NEW x \in DOMAIN receipts' PROVE Kept(x)'
  <2>1. CASE x \in DOMAIN receipts
    BY <1>3, <2>1 DEF StoreInv, Kept
  <2>2. CASE x = id
    <3>1. /\ receipts'[x].state = "COMPLETED" /\ receipts'[x].response = response
          /\ receipts'[x].expires = clock + ResponseTicks /\ completed'[x] = clock
      BY <1>3, <2>2
    <3> QED
      BY <1>1, <1>2, <2>2, <3>1 DEF Kept
  <2> QED
    BY <1>3, <2>1, <2>2
<1>8. StoreInv'
  BY <1>3, <1>5, <1>7 DEF StoreInv, Granted, Recorded, CreationOf, OneBookingPerKey,
     UpcomingBookingsKeepTheirToken
<1>9. Told(r)'
  <2>1. a.status = 409 /\ a.code = "SLOT_CONFLICT"
    BY <1>2 DEF AnswerOf
  <2>2. answer'[r] = a
    BY <1>4, ReplyMoves
  <2> HIDE DEF a
  <2> QED
    BY <2>1, <2>2 DEF Told
<1> QED
  BY <1>4, <1>6, <1>8, <1>9, SettledStep

LEMMA CreateStep ==
  ASSUME GuestInv, NEW r \in Requests, NEW b \in Bookings, ExecuteCreate(r, b)
  PROVE  GuestInv'
<1>1. /\ pc[r] = "execute" /\ IsCreate(Cmd(r)) /\ Identity(r) \notin DOMAIN receipts
      /\ rows[b] = NoRow /\ call[r] \in Calls
      /\ UNCHANGED <<clock, staff, browsers, call, session, roles, branchIds>>
  BY DEF ExecuteCreate, FreshBooking, GuestInv, Handler, Placed
<1>2. CASE BreaksCreateRules(Cmd(r), clock)
  <2>1. Reply(r, Answer(500, "RULE_VIOLATION")) /\ UNCHANGED stored
    BY <1>2 DEF ExecuteCreate
  <2> QED
    BY <1>1, <2>1, RefusalStep
<1>3. CASE ~BreaksCreateRules(Cmd(r), clock)
  <2> DEFINE verdict == CreateVerdict(Cmd(r), b, rows)
  <2>1. \/ verdict = Verdict("CREATED", NewRow(Cmd(r))) /\ verdict.code = "CREATED"
        \/ verdict = Verdict("SLOT_CONFLICT", NoRow) /\ verdict.code # "CREATED"
    BY DEF CreateVerdict, Verdict
  <2>2. /\ Settle(r, b, verdict)
        /\ IF verdict.code = "CREATED"
             THEN /\ grants' = [grants EXCEPT ![b] =
                       [token |-> r, session |-> session[r], created |-> clock]]
                  /\ origin' = [origin EXCEPT ![b] =
                       [session |-> session[r], key |-> Cmd(r).key, token |-> r]]
             ELSE UNCHANGED <<grants, origin>>
    BY <1>3 DEF ExecuteCreate
  <2> HIDE DEF verdict
  <2>3. CASE verdict = Verdict("CREATED", NewRow(Cmd(r))) /\ verdict.code = "CREATED"
    BY <1>1, <1>3, <2>2, <2>3, CreatedStep
  <2>4. CASE verdict = Verdict("SLOT_CONFLICT", NoRow) /\ verdict.code # "CREATED"
    BY <1>1, <2>2, <2>4, ConflictStep
  <2> QED
    BY <2>1, <2>3, <2>4
<1> QED
  BY <1>2, <1>3

-----------------------------------------------------------------------------
(* GuestInv is inductive: what happens beside the handlers. *)

\* No request moves.
LEMMA BesideStep ==
  ASSUME GuestInv, StoreInv', StaffInv', StoreGrows, UNCHANGED handler,
         entitled \subseteq entitled',
         \A q \in Requests : pc[q] = "branches" /\ q \notin entitled' =>
           \A s \in scopes'[Who(q)] : s[2] # TargetBranch(q)
  PROVE  GuestInv'
<1>1. UNCHANGED <<pc, call, session, roles, branchIds, answer>>
  BY DEF handler
<1>2. HandlersType'
  BY <1>1 DEF GuestInv, HandlersType
<1>3. clock' \in Nat
  BY DEF StoreInv
<1>4. ASSUME NEW q \in Requests PROVE Handler(q)'
  BY <1>1, <1>3, OthersStay
<1> QED
  BY <1>2, <1>4 DEF GuestInv

\* The same when the staff's roles stay as they are.
LEMMA QuietStep ==
  ASSUME GuestInv, StoreInv', StoreGrows, UNCHANGED <<staff, browsers, handler>>
  PROVE  GuestInv'
<1>1. UNCHANGED <<scopes, shifted, entitled, cookie, shown>>
  BY DEF staff, browsers
<1>2. StaffInv'
  BY <1>1 DEF GuestInv, StaffInv
<1>3. \A q \in Requests : pc[q] = "branches" /\ q \notin entitled =>
        \A s \in scopes[Who(q)] : s[2] # TargetBranch(q)
  BY DEF GuestInv, Handler, Judged
<1> QED
  BY <1>1, <1>2, <1>3, BesideStep

\* Only results that have lived their time are removed, and no identity is.
LEMMA RedactStep ==
  ASSUME GuestInv, RedactReceipts
  PROVE  GuestInv'
<1> USE DEF GuestInv
<1>1. /\ UNCHANGED <<clock, rows, grants, origin, completed>>
      /\ UNCHANGED <<staff, browsers, handler>>
      /\ DOMAIN receipts' = DOMAIN receipts
  BY DEF RedactReceipts, Redacted
<1>2. ASSUME NEW id \in DOMAIN receipts
      PROVE  \/ receipts'[id] = receipts[id]
             \/ receipts'[id].state = "TOMBSTONE" /\ Due(id)
  BY DEF RedactReceipts, Redacted
<1>3. ASSUME NEW id \in DOMAIN receipts PROVE Kept(id)'
  <2>1. Kept(id)
    BY DEF StoreInv
  <2>2. CASE receipts'[id] = receipts[id]
    BY <1>1, <2>1, <2>2 DEF Kept
  <2>3. CASE receipts'[id].state = "TOMBSTONE" /\ Due(id)
    <3>1. completed[id] + ResponseTicks <= clock /\ completed[id] \in Nat
      BY <2>1, <2>3 DEF Kept, Due
    <3> QED
      BY <1>1, <2>3, <3>1 DEF Kept
  <2> QED
    BY <1>2, <2>2, <2>3
<1>4. StoreInv'
  BY <1>1, <1>3 DEF StoreInv, Granted, Recorded, CreationOf, OneBookingPerKey,
     UpcomingBookingsKeepTheirToken
<1>5. StoreGrows
  <2>1. clock \in Nat
    BY DEF StoreInv
  <2> QED
    BY <1>1, <1>2, <2>1 DEF StoreGrows
<1> QED
  BY <1>1, <1>4, <1>5, QuietStep

\* A token that is old has outlived the start of its booking.
LEMMA RevokeStep ==
  ASSUME GuestInv, RevokeTokens
  PROVE  GuestInv'
<1> USE DEF GuestInv
<1>1. /\ UNCHANGED <<clock, rows, receipts, origin, completed>>
      /\ UNCHANGED <<staff, browsers, handler>>
      /\ DOMAIN grants' = Bookings
  BY DEF RevokeTokens
<1>2. ASSUME NEW b \in Bookings
      PROVE  \/ grants'[b] = grants[b]
             \/ grants'[b] = NoGrant /\ grants[b] # NoGrant /\ Old(b)
  BY DEF RevokeTokens
<1>3. grants' \in [Bookings -> Grant \cup {NoGrant}]
  <2>1. grants' = [b \in Bookings |-> grants'[b]]
    BY DEF RevokeTokens
  <2>2. \A b \in Bookings : grants'[b] \in Grant \cup {NoGrant}
    BY <1>2 DEF StoreInv
  <2> QED
    BY <2>1, <2>2
<1>4. \A b \in Bookings : Granted(b)' /\ Recorded(b)'
  BY <1>1, <1>2 DEF StoreInv, Granted, Recorded, CreationOf
<1>5. UpcomingBookingsKeepTheirToken'
  <2> SUFFICES ASSUME NEW b \in Bookings, rows[b] # NoRow, rows[b].version = 1,
                      clock < rows[b].start
               PROVE  grants'[b] # NoGrant
    BY <1>1 DEF UpcomingBookingsKeepTheirToken
  <2>1. grants[b] # NoGrant
    BY DEF StoreInv, UpcomingBookingsKeepTheirToken
  <2>2. /\ grants[b].created \in Nat /\ rows[b].start \in Nat /\ clock \in Nat
        /\ rows[b].start <= grants[b].created + TokenTicks
    BY <2>1 DEF StoreInv, Granted, Grant, Row
  <2>3. TokenTicks \in Nat
    BY ApiAssumption
  <2>4. ~Old(b)
    BY <2>2, <2>3 DEF Old
  <2> QED
    BY <1>2, <2>1, <2>4
<1>6. StoreInv'
  BY <1>1, <1>3, <1>4, <1>5 DEF StoreInv, Kept, OneBookingPerKey
<1>7. StoreGrows
  BY <1>1 DEF StoreInv, StoreGrows
<1> QED
  BY <1>1, <1>6, <1>7, QuietStep

\* Whoever is given the branch of its request, or every branch, is permitted.
LEMMA ScopeChangeStep ==
  ASSUME GuestInv, NEW user \in Users, NEW scope \in Scopes, ChangeScope(user, scope)
  PROVE  GuestInv'
<1> USE DEF GuestInv
<1>1. /\ UNCHANGED <<clock, rows, grants, receipts, origin, completed>>
      /\ UNCHANGED <<cookie, shown>> /\ UNCHANGED handler
      /\ shifted < MaxScopeChanges /\ shifted' = shifted + 1
      /\ scopes' = [scopes EXCEPT ![user] =
           IF scope \in scopes[user] THEN scopes[user] \ {scope} ELSE scopes[user] \cup {scope}]
      /\ entitled \subseteq entitled'
  BY DEF ChangeScope, stored, browsers
<1>2. StaffInv'
  <2>1. shifted' \in 0..MaxScopeChanges
    BY <1>1, ApiAssumption DEF StaffInv
  <2>2. scopes' \in [Users -> SUBSET Scopes]
    BY <1>1 DEF StaffInv
  <2> QED
    BY <1>1, <2>1, <2>2 DEF StaffInv
<1>3. StoreInv'
  BY <1>1 DEF StoreInv, Granted, Recorded, CreationOf, Kept, OneBookingPerKey,
     UpcomingBookingsKeepTheirToken
<1>4. StoreGrows
  BY <1>1 DEF StoreInv, StoreGrows
<1>5. ASSUME NEW q \in Requests, pc[q] = "branches", q \notin entitled',
             NEW s \in scopes'[Who(q)]
      PROVE  s[2] # TargetBranch(q)
  <2>1. Who(q) \in Users /\ (\A x \in scopes[Who(q)] : x[2] # TargetBranch(q))
    <3>1. IsOutcome(Cmd(q)) /\ Who(q) \in Users
      BY <1>5 DEF Handler, Placed
    <3> QED
      BY <1>1, <1>5, <3>1 DEF Handler, Judged
  <2>2. CASE s \in scopes[Who(q)]
    BY <2>1, <2>2
  <2>3. CASE s \notin scopes[Who(q)]
    <3>1. Who(q) = user /\ s = scope /\ scope \notin scopes[user]
      BY <1>1, <1>5, <2>1, <2>3 DEF StaffInv
    <3> QED
      BY <1>5, <3>1 DEF ChangeScope
  <2> QED
    BY <2>2, <2>3
<1> QED
  BY <1>1, <1>2, <1>3, <1>4, <1>5, BesideStep

LEMMA TickStep ==
  ASSUME GuestInv, Tick
  PROVE  GuestInv'
<1> USE DEF GuestInv
<1>1. /\ clock < MaxTime /\ clock' = clock + 1 /\ clock \in 0..MaxTime
      /\ UNCHANGED <<rows, grants, receipts, origin, completed>>
      /\ UNCHANGED <<staff, browsers, handler>>
  BY DEF Tick, stored, StoreInv
<1>2. clock' \in 0..MaxTime /\ clock <= clock' /\ ResponseTicks \in Nat
  BY <1>1, ApiAssumption
<1>3. \A b \in Bookings : Granted(b)' /\ Recorded(b)'
  <2> SUFFICES ASSUME NEW b \in Bookings PROVE Granted(b)' /\ Recorded(b)'
    OBVIOUS
  <2>1. Granted(b) /\ Recorded(b) /\ grants[b] \in Grant \cup {NoGrant}
    BY DEF StoreInv
  <2> QED
    BY <1>1, <1>2, <2>1 DEF Granted, Recorded, CreationOf, Grant
<1>4. \A id \in DOMAIN receipts : Kept(id)'
  <2> SUFFICES ASSUME NEW id \in DOMAIN receipts PROVE Kept(id)'
    OBVIOUS
  <2>1. Kept(id)
    BY DEF StoreInv
  <2>2. completed[id] + ResponseTicks <= clock => completed[id] + ResponseTicks <= clock'
    BY <1>1, <1>2, <2>1 DEF Kept
  <2> QED
    BY <1>1, <2>1, <2>2 DEF Kept
<1>5. UpcomingBookingsKeepTheirToken'
  <2> SUFFICES ASSUME NEW b \in Bookings, rows[b] # NoRow, rows[b].version = 1,
                      clock' < rows[b].start
               PROVE  grants[b] # NoGrant
    BY <1>1 DEF UpcomingBookingsKeepTheirToken
  <2>1. rows[b].start \in Nat
    BY DEF StoreInv, Row
  <2> QED
    BY <1>1, <2>1 DEF StoreInv, UpcomingBookingsKeepTheirToken
<1>6. StoreInv'
  BY <1>1, <1>2, <1>3, <1>4, <1>5 DEF StoreInv, OneBookingPerKey
<1>7. StoreGrows
  BY <1>1, <1>2 DEF StoreInv, StoreGrows
<1> QED
  BY <1>1, <1>6, <1>7, QuietStep

-----------------------------------------------------------------------------
(* GuestInv holds. *)

LEMMA InitGuest == Init => GuestInv
<1> SUFFICES ASSUME Init PROVE GuestInv
  OBVIOUS
<1>1. StoreInv
  <2>1. clock \in 0..MaxTime
    BY ApiAssumption DEF Init
  <2>2. DOMAIN receipts = {} /\ DOMAIN completed = {}
    BY DEF Init
  <2>3. /\ \A b \in Bookings : rows[b] = NoRow /\ grants[b] = NoGrant /\ origin[b] = NoGrant
        /\ rows \in [Bookings -> Row \cup {NoRow}]
        /\ grants \in [Bookings -> Grant \cup {NoGrant}]
        /\ origin \in [Bookings -> Origin \cup {NoGrant}]
    BY DEF Init
  <2> QED
    BY <2>1, <2>2, <2>3
       DEF StoreInv, Granted, Recorded, OneBookingPerKey, UpcomingBookingsKeepTheirToken
<1>2. StaffInv
  BY ApiAssumption DEF Init, StaffInv
<1>3. HandlersType
  BY DEF Init, HandlersType, PCs
<1>4. ASSUME NEW r \in Requests PROVE Handler(r)
  BY DEF Init, Handler, Placed, Found, Judged, Told, PCs
<1> QED
  BY <1>1, <1>2, <1>3, <1>4 DEF GuestInv

LEMMA HandleStep ==
  ASSUME GuestInv, NEW r \in Requests, Handle(r)
  PROVE  GuestInv'
<1>1. CASE \E c \in Calls : Receive(r, c)
  BY <1>1, ReceiveStep
<1>2. CASE LookUp(r)
  BY <1>2, LookUpStep
<1>3. CASE ReadRoles(r) \/ ReadBranches(r)
  BY <1>3, ScopeSteps
<1>4. CASE \E token \in shown \cup {NoToken} : AuthorizeGuest(r, token)
  BY <1>4, AuthorizeStep
<1>5. CASE RefuseByLimit(r) \/ GiveUp(r) \/ Forbid(r)
  BY <1>5, RefusalSteps
<1>6. CASE \E b \in Bookings : ExecuteCreate(r, b)
  BY <1>6, CreateStep
<1>7. CASE ExecuteChange(r)
  BY <1>7, ChangeStep
<1>8. CASE Replay(r)
  BY <1>8, ReplayStep
<1>9. CASE Reread(r)
  BY <1>9, RereadStep
<1>10. CASE Deliver(r) \/ Lose(r)
  BY <1>10, EndSteps
<1> QED
  BY <1>1, <1>2, <1>3, <1>4, <1>5, <1>6, <1>7, <1>8, <1>9, <1>10 DEF Handle

LEMMA NextGuest == GuestInv /\ [Next]_vars => GuestInv'
<1> SUFFICES ASSUME GuestInv, [Next]_vars PROVE GuestInv'
  OBVIOUS
<1>1. ASSUME NEW r \in Requests, Handle(r) PROVE GuestInv'
  BY <1>1, HandleStep
<1>2. CASE RedactReceipts
  BY <1>2, RedactStep
<1>3. CASE RevokeTokens
  BY <1>3, RevokeStep
<1>4. ASSUME NEW user \in Users, NEW scope \in Scopes, ChangeScope(user, scope)
      PROVE  GuestInv'
  BY <1>4, ScopeChangeStep
<1>5. CASE Tick
  BY <1>5, TickStep
<1>6. CASE UNCHANGED vars
  <2>1. UNCHANGED <<clock, rows, grants, receipts, origin, completed>>
        /\ UNCHANGED <<staff, browsers, handler>>
    BY <1>6 DEF vars, stored
  <2>2. StoreInv'
    BY <2>1 DEF GuestInv, StoreInv, Granted, Recorded, CreationOf, Kept, OneBookingPerKey,
       UpcomingBookingsKeepTheirToken
  <2>3. StoreGrows
    BY <2>1 DEF GuestInv, StoreInv, StoreGrows
  <2> QED
    BY <2>1, <2>2, <2>3, QuietStep
<1> QED
  BY <1>1, <1>2, <1>3, <1>4, <1>5, <1>6 DEF Next

\* Whatever the requests, the privacy jobs and the changes of roles do, the
\* tables and every handler's knowledge of them stay in order (GuestInv).
THEOREM GuestInvHolds == Spec => []GuestInv
<1>1. Init => GuestInv
  BY InitGuest
<1>2. GuestInv /\ [Next]_vars => GuestInv'
  BY NextGuest
<1> QED
  BY <1>1, <1>2, PTL DEF Spec

-----------------------------------------------------------------------------
(* What follows. *)

\* Bookings, tokens and receipts are well formed; who has read the branches is a
\* member of staff, and only a session has reached a guest's command (the handlers
\* of api.py).
THEOREM GuestTypesHold == Spec => []TypeOK
<1>1. GuestInv => TypeOK
  <2> SUFFICES ASSUME GuestInv PROVE TypeOK
    OBVIOUS
  <2>1. ASSUME NEW b \in Bookings, grants[b] # NoGrant
        PROVE  rows[b] # NoRow /\ grants[b].created <= clock
    BY <2>1, NullAssumption DEF GuestInv, StoreInv, Granted
  <2>2. ASSUME NEW id \in DOMAIN receipts
        PROVE  /\ receipts[id].state \in {"COMPLETED", "TOMBSTONE"}
               /\ receipts[id].state = "COMPLETED" => receipts[id].response \in Responses
    BY <2>2 DEF GuestInv, StoreInv, Kept
  <2>3. ASSUME NEW r \in Requests, pc[r] = "execute"
        PROVE  IF IsOutcome(Cmd(r)) THEN Who(r) \in Users ELSE session[r] # NoSession
    BY <2>3, ApiAssumption DEF GuestInv, Handler, Placed
  <2>4. /\ clock \in 0..MaxTime /\ shifted \in 0..MaxScopeChanges
        /\ rows \in [Bookings -> Row \cup {NoRow}] /\ scopes \in [Users -> SUBSET Scopes]
        /\ cookie \in [Guests -> Requests \cup {NoSession}] /\ shown \subseteq Requests
    BY DEF GuestInv, StoreInv, StaffInv
  <2> QED
    BY <2>1, <2>2, <2>3, <2>4 DEF TypeOK
<1> QED
  BY <1>1, GuestInvHolds, PTL

\* Whoever is told 201, at the first time or again, gets the token stored with the
\* booking, in the session that made it (BookingCollectionView.post).
THEOREM AnswersShowStoredTokens == Spec => []AnswersShowTheStoredToken
<1>1. GuestInv => AnswersShowTheStoredToken
  BY DEF GuestInv, Handler, Told, Answered, AnswersShowTheStoredToken
<1> QED
  BY <1>1, GuestInvHolds, PTL

\* A session and a key make at most one booking, also after the result of the
\* first creation has been removed from its receipt (CommandReceipt's identity).
THEOREM KeysMakeOneBooking == Spec => []OneBookingPerKey
<1>1. GuestInv => OneBookingPerKey
  BY DEF GuestInv, StoreInv
<1> QED
  BY <1>1, GuestInvHolds, PTL

\* A repetition fails for a forgotten result only when the retention has passed
\* (redact_expired_receipts against the two readings of a replayed creation).
THEOREM RepetitionsHaveTheirRetention == Spec => []RepetitionsLastTheirRetention
<1>1. GuestInv => RepetitionsLastTheirRetention
  BY DEF GuestInv, Handler, Told, Answered, RepetitionsLastTheirRetention
<1> QED
  BY <1>1, GuestInvHolds, PTL

\* A guest sees and changes only what its own session has booked, although the
\* token may be known to others (authorize_management_token).
THEOREM SessionsManageTheirOwn == Spec => []OnlyItsSessionManages
<1>1. GuestInv => OnlyItsSessionManages
  BY DEF GuestInv, Handler, Told, Answered, OnlyItsSessionManages
<1> QED
  BY <1>1, GuestInvHolds, PTL

\* A booking that lies ahead and has not been moved keeps its token
\* (revoke_old_management_tokens against the booking horizon).
THEOREM UpcomingTokensStay == Spec => []UpcomingBookingsKeepTheirToken
<1>1. GuestInv => UpcomingBookingsKeepTheirToken
  BY DEF GuestInv, StoreInv
<1> QED
  BY <1>1, GuestInvHolds, PTL

\* An outcome is answered only to a user who was permitted to mark it at one
\* instant of its request, although roles and branches are read in two queries
\* (StaffOutcomeView.post).
THEOREM OutcomesWerePermitted == Spec => []OutcomesArePermitted
<1>1. GuestInv => OutcomesArePermitted
  BY DEF GuestInv, Handler, Told, Answered, OutcomesArePermitted
<1> QED
  BY <1>1, GuestInvHolds, PTL
=============================================================================

------------------------------ MODULE GuestApi ------------------------------
(***************************************************************************)
(* The HTTP handlers of guests and staff over the booking commands.  A     *)
(* handler is a sequence of reads and of at most one command, and other    *)
(* requests, the privacy jobs and changes of staff roles come in between.  *)
(* A command takes effect in one step, with its receipt, as BookingLedger  *)
(* states.  Every request draws its own secrets: the management token that *)
(* request r issues, and the session that it starts, are called r.         *)
(*                                                                         *)
(* What a handler does not catch is answered with 500; Django then stores  *)
(* no session cookie in the response.                                      *)
(***************************************************************************)
EXTENDS BookingRules, Functions

CONSTANTS
  Guests,          \* browsers without an account
  Users,           \* staff accounts
  Requests,        \* HTTP requests
  Calls,           \* [who, cmd]: what they may ask for
  BranchOf,        \* barber -> its branch
  Scopes,          \* the <<role, branch>> pairs that a user may be given
  AnyBranch,       \* the branch of an OWNER's scope
  ResponseTicks,   \* response_retention, 30 days
  TokenTicks,      \* retention_days of management tokens, 90 days
  NoSession, NoToken, NoGrant, NoCall, NoAnswer,
  MaxTime,         \* bound on the clock, for model checking
  MaxScopeChanges  \* bound on changes of scopes, for model checking

Branches == Range(BranchOf)
Roles == {"MASTER", "ADMIN", "OWNER"}
Reading == [op: {"GET_BOOKING"}, booking: Bookings]
Call == [who: Guests \cup Users, cmd: Commands \cup Reading]

\* The check constraint on StaffScope; tokens are kept for longer than the horizon
\* reaches, which is how the defaults are (90 and 60 days).
ASSUME ApiAssumption ==
  /\ Bookings \subseteq Nat /\ Guests \cap Users = {} /\ Calls \subseteq Call
  /\ Scopes \subseteq {<<"OWNER", AnyBranch>>} \cup ({"MASTER", "ADMIN"} \X Branches)
  /\ AnyBranch \notin Branches /\ NoSession \notin Requests /\ NoToken \notin Requests
  /\ ResponseTicks \in Nat \ {0} /\ TokenTicks \in Nat
  /\ (HorizonDays + 1) * DayLength <= TokenTicks + 1
  /\ NoGrant \notin [token: Requests, session: Requests, created: Nat]
  /\ NoGrant \notin [session: Requests, key: Keys, token: Requests]
  /\ MaxTime \in Nat /\ MaxScopeChanges \in Nat

VARIABLES
  clock,      \* the time
  rows,       \* Booking
  grants,     \* BookingManagementToken of a booking
  receipts,   \* CommandReceipt: identity -> content, for those that exist
  scopes,     \* StaffScope of a user
  shifted,    \* changes of scopes so far
  cookie,     \* guest -> the session cookie its browser holds
  shown,      \* tokens that a 201 answer has shown to somebody
  pc,         \* where a request is
  call,       \* what it asks for
  session,    \* its session
  roles,      \* the roles of its user, as it has read them
  branchIds,  \* the branches of its user, as it has read them
  answer,     \* the answer it gives
  origin,     \* booking -> the session, key and token of its creation
  completed,  \* receipt identity -> when its command took effect
  entitled    \* requests whose user has been permitted the outcome meanwhile

stored == <<rows, grants, receipts, origin, completed>>
staff == <<scopes, shifted, entitled>>
browsers == <<cookie, shown>>
handler == <<pc, call, session, roles, branchIds, answer>>
vars == <<clock, stored, staff, browsers, handler>>

Init ==
  /\ clock = 0
  /\ rows = [b \in Bookings |-> NoRow]
  /\ grants = [b \in Bookings |-> NoGrant]
  /\ receipts = <<>>
  /\ scopes \in [Users -> SUBSET Scopes]
  /\ shifted = 0
  /\ cookie = [g \in Guests |-> NoSession]
  /\ shown = {}
  /\ pc = [r \in Requests |-> "idle"]
  /\ call = [r \in Requests |-> NoCall]
  /\ session = [r \in Requests |-> NoSession]
  /\ roles = [r \in Requests |-> {}]
  /\ branchIds = [r \in Requests |-> {}]
  /\ answer = [r \in Requests |-> NoAnswer]
  /\ origin = [b \in Bookings |-> NoGrant]
  /\ completed = <<>>
  /\ entitled = {}

Cmd(r) == call[r].cmd
Who(r) == call[r].who
IsOutcome(c) == c.op \in {"COMPLETE_BOOKING", "MARK_NO_SHOW"}

Answer(status, code) ==
  [status |-> status, code |-> code, booking |-> NoBooking, version |-> 0, token |-> NoToken]

AnswerOf(status, response, token) ==
  [status |-> status, code |-> response.code, booking |-> response.booking,
   version |-> response.version, token |-> token]

Reply(r, a) ==
  /\ pc' = [pc EXCEPT ![r] = "answered"]
  /\ answer' = [answer EXCEPT ![r] = a]

Goto(r, place) == pc' = [pc EXCEPT ![r] = place]

-----------------------------------------------------------------------------
(* A request until its command. *)

\* Mutated form of SessionOf: no session is created.
CookieOnly(r, who) == IF who \in Guests THEN cookie[who] ELSE NoSession

\* _session_key: the session of the cookie, or a new one.
SessionOf(r, who) ==
  IF who \in Guests /\ cookie[who] # NoSession THEN cookie[who] ELSE r

\* A creation takes its session at once; the others look the booking up first,
\* and an outcome needs an account.
Receive(r, c) ==
  /\ pc[r] = "idle"
  /\ call' = [call EXCEPT ![r] = c]
  /\ IF IsOutcome(c.cmd) /\ c.who \notin Users
       THEN Reply(r, Answer(401, "AUTHENTICATION_REQUIRED")) /\ UNCHANGED session
       ELSE /\ Goto(r, IF c.cmd.op = "CREATE_BOOKING" THEN "execute" ELSE "lookup")
            /\ session' = IF c.cmd.op = "CREATE_BOOKING"
                            THEN [session EXCEPT ![r] = SessionOf(r, c.who)] ELSE session
            /\ UNCHANGED answer
  /\ UNCHANGED <<clock, stored, staff, browsers, roles, branchIds>>

\* _booking_or_404
LookUp(r) ==
  /\ pc[r] = "lookup"
  /\ IF rows[Cmd(r).booking] = NoRow
       THEN Reply(r, Answer(404, "NOT_FOUND"))
       ELSE Goto(r, IF IsOutcome(Cmd(r)) THEN "roles" ELSE "authorize") /\ UNCHANGED answer
  /\ UNCHANGED <<clock, stored, staff, browsers, call, session, roles, branchIds>>

\* Mutated form of Manages: the session of the grant is not compared.
ManagesFromAnySession(b, token, s) == grants[b] # NoGrant /\ grants[b].token = token

Manages(b, token, s) ==
  grants[b] # NoGrant /\ grants[b].token = token /\ grants[b].session = s

\* authorize_management_token, with a token that somebody has been shown, or none.
AuthorizeGuest(r, token) ==
  LET s == SessionOf(r, Who(r))
  IN  /\ pc[r] = "authorize"
      /\ session' = [session EXCEPT ![r] = s]
      /\ IF ~Manages(Cmd(r).booking, token, s) THEN Reply(r, Answer(404, "NOT_FOUND"))
         ELSE IF Cmd(r).op = "GET_BOOKING"
           THEN Reply(r, [Answer(200, "BOOKING") EXCEPT !.booking = Cmd(r).booking])
         ELSE Goto(r, "execute") /\ UNCHANGED answer
      /\ UNCHANGED <<clock, stored, staff, browsers, call, roles, branchIds>>

MayMark(user, branch) == \E s \in scopes[user] : s[1] = "OWNER" \/ s[2] = branch

TargetBranch(r) == BranchOf[rows[Cmd(r).booking].barber]

\* The scopes of the user are read in two queries: the roles ...
ReadRoles(r) ==
  /\ pc[r] = "roles"
  /\ roles' = [roles EXCEPT ![r] = {s[1] : s \in scopes[Who(r)]}]
  /\ entitled' = IF MayMark(Who(r), TargetBranch(r)) THEN entitled \cup {r} ELSE entitled
  /\ Goto(r, "branches")
  /\ UNCHANGED <<clock, stored, scopes, shifted, browsers, call, session, branchIds, answer>>

\* ... and the branches.
ReadBranches(r) ==
  /\ pc[r] = "branches"
  /\ branchIds' = [branchIds EXCEPT ![r] = {s[2] : s \in scopes[Who(r)]} \ {AnyBranch}]
  /\ Goto(r, "execute")
  /\ UNCHANGED <<clock, stored, staff, browsers, call, session, roles, answer>>

\* Every mutation may be refused by the rate limit.
RefuseByLimit(r) ==
  /\ pc[r] = "execute"
  /\ Reply(r, Answer(429, "RATE_LIMITED"))
  /\ UNCHANGED <<clock, stored, staff, browsers, call, session, roles, branchIds>>

\* Lock and statement timeouts, the deadline: BookingRetryableError is not caught.
GiveUp(r) ==
  /\ pc[r] = "execute"
  /\ Reply(r, Answer(500, "UNAVAILABLE"))
  /\ UNCHANGED <<clock, stored, staff, browsers, call, session, roles, branchIds>>

-----------------------------------------------------------------------------
(* The command and its receipt. *)

\* CommandScope and the key: the principal is the session or the user.
Identity(r) ==
  LET c == Cmd(r)
      principal == IF IsOutcome(c) THEN Who(r) ELSE session[r]
  IN  <<principal, IF IsCreate(c) THEN NoBooking ELSE c.booking, c.op, c.key>>

Status(r, response) ==
  CASE response.code = "CREATED" -> 201
    [] response.code \in {"RESCHEDULED"} \cup Terminal -> 200
    [] OTHER -> 409

\* A table with one more row.
Added(table, id, row) ==
  [x \in DOMAIN table \cup {id} |-> IF x = id THEN row ELSE table[x]]

\* The effect has taken place: its result is stored and answered.
Settle(r, b, verdict) ==
  LET response == Response(b, verdict)
      id == Identity(r)
  IN  /\ rows' = [rows EXCEPT ![b] = verdict.row]
      /\ receipts' = Added(receipts, id,
           [cmd |-> Cmd(r), state |-> "COMPLETED", response |-> response,
            token |-> IF response.code = "CREATED" THEN r ELSE NoToken,
            expires |-> clock + ResponseTicks])
      /\ completed' = Added(completed, id, clock)
      /\ Reply(r, AnswerOf(Status(r, response), response,
                           IF response.code = "CREATED" THEN r ELSE NoToken))

FreshBooking(b) == rows[b] = NoRow /\ \A x \in Bookings : x < b => rows[x] # NoRow

\* create_booking for a new receipt; a broken rule rolls everything back.
ExecuteCreate(r, b) ==
  LET verdict == CreateVerdict(Cmd(r), b, rows)
      grant == [token |-> r, session |-> session[r], created |-> clock]
  IN  /\ pc[r] = "execute" /\ IsCreate(Cmd(r)) /\ Identity(r) \notin DOMAIN receipts
      /\ FreshBooking(b)
      /\ IF BreaksCreateRules(Cmd(r), clock)
           THEN Reply(r, Answer(500, "RULE_VIOLATION")) /\ UNCHANGED stored
           ELSE /\ Settle(r, b, verdict)
                /\ IF verdict.code = "CREATED"
                     THEN /\ grants' = [grants EXCEPT ![b] = grant]
                          /\ origin' = [origin EXCEPT ![b] =
                               [session |-> session[r], key |-> Cmd(r).key, token |-> r]]
                     ELSE UNCHANGED <<grants, origin>>
      /\ UNCHANGED <<clock, staff, browsers, call, session, roles, branchIds>>

\* Mutated form of Permits: any role will do for any branch.
PermitsAnyBranch(r) == roles[r] # {}

\* authorize: every role may mark outcomes, OWNER in every branch.
Permits(r) ==
  "OWNER" \in roles[r] \/ (roles[r] # {} /\ TargetBranch(r) \in branchIds[r])

Forbid(r) ==
  /\ pc[r] = "execute" /\ IsOutcome(Cmd(r)) /\ ~Permits(r)
  /\ Reply(r, Answer(403, "FORBIDDEN"))
  /\ UNCHANGED <<clock, stored, staff, browsers, call, session, roles, branchIds>>

Allowed(r) == IsOutcome(Cmd(r)) => Permits(r)

ExecuteChange(r) ==
  LET c == Cmd(r)
  IN  /\ pc[r] = "execute" /\ ~IsCreate(c) /\ Allowed(r)
      /\ Identity(r) \notin DOMAIN receipts
      /\ Settle(r, c.booking, ChangeVerdict(c, rows[c.booking], clock, rows))
      /\ UNCHANGED <<clock, grants, origin, staff, browsers, call, session, roles, branchIds>>

\* The receipt exists.  Only a creation catches the conflict of two payloads; an
\* expired or removed result is caught by none.
Replay(r) ==
  LET receipt == receipts[Identity(r)]
  IN  /\ pc[r] = "execute" /\ Allowed(r) /\ Identity(r) \in DOMAIN receipts
      /\ IF receipt.cmd # Cmd(r)
           THEN Reply(r, Answer(IF IsCreate(Cmd(r)) THEN 409 ELSE 500, "KEY_MISMATCH"))
         ELSE IF receipt.state = "TOMBSTONE" \/ receipt.expires <= clock
           THEN Reply(r, Answer(500, "FORGOTTEN"))
         ELSE IF receipt.response.code = "CREATED"
           THEN Goto(r, "reread") /\ UNCHANGED answer
         ELSE Reply(r, AnswerOf(Status(r, receipt.response), receipt.response, NoToken))
      /\ UNCHANGED <<clock, stored, staff, browsers, call, session, roles, branchIds>>

\* Mutated form of ReplayToken: the token that this request has issued.
IssuedToken(r) == r

\* The stored token, decrypted.
ReplayToken(r) == receipts[Identity(r)].token

\* A replayed creation reads its receipt a second time; there is nothing to read
\* the token from when it has been redacted meanwhile.
Reread(r) ==
  LET receipt == receipts[Identity(r)]
  IN  /\ pc[r] = "reread"
      /\ Reply(r, IF receipt.state = "TOMBSTONE" THEN Answer(500, "FORGOTTEN")
                  ELSE AnswerOf(201, receipt.response, ReplayToken(r)))
      /\ UNCHANGED <<clock, stored, staff, browsers, call, session, roles, branchIds>>

-----------------------------------------------------------------------------
(* What happens beside the handlers. *)

\* Nothing of the request remains.
Forgotten(r) ==
  /\ Goto(r, "done")
  /\ call' = [call EXCEPT ![r] = NoCall]
  /\ session' = [session EXCEPT ![r] = NoSession]
  /\ roles' = [roles EXCEPT ![r] = {}]
  /\ branchIds' = [branchIds EXCEPT ![r] = {}]
  /\ answer' = [answer EXCEPT ![r] = NoAnswer]
  /\ entitled' = entitled \ {r}
  /\ UNCHANGED <<clock, stored, scopes, shifted>>

\* The answer reaches the client: a guest keeps the session of it, and the token.
Deliver(r) ==
  /\ pc[r] = "answered"
  /\ cookie' = IF Who(r) \in Guests /\ answer[r].status # 500 /\ session[r] # NoSession
                 THEN [cookie EXCEPT ![Who(r)] = session[r]] ELSE cookie
  /\ shown' = IF answer[r].status = 201 THEN shown \cup {answer[r].token} ELSE shown
  /\ Forgotten(r)

\* The answer is lost.
Lose(r) == pc[r] = "answered" /\ UNCHANGED browsers /\ Forgotten(r)

\* Mutated form of Due: results are removed a tick early.
DueEarly(id) == receipts[id].state = "COMPLETED" /\ receipts[id].expires <= clock + 1

Due(id) == receipts[id].state = "COMPLETED" /\ receipts[id].expires <= clock

\* Mutated form of Redacted: the receipt is deleted.
Deleted(ids) == Restrict(receipts, DOMAIN receipts \ ids)

\* The identity of the command stays when its result is removed.
Redacted(ids) ==
  [id \in DOMAIN receipts |->
     IF id \in ids THEN [cmd |-> receipts[id].cmd, state |-> "TOMBSTONE"] ELSE receipts[id]]

\* redact_expired_receipts
RedactReceipts ==
  LET due == {id \in DOMAIN receipts : Due(id)}
  IN  /\ due # {}
      /\ receipts' = Redacted(due)
      /\ UNCHANGED <<clock, rows, grants, origin, completed, staff, browsers, handler>>

\* Mutated form of Old: tokens are kept as long as responses.
OldAsResponses(b) == grants[b].created < clock - ResponseTicks

Old(b) == grants[b].created < clock - TokenTicks

\* revoke_old_management_tokens
RevokeTokens ==
  LET old == {b \in Bookings : grants[b] # NoGrant /\ Old(b)}
  IN  /\ old # {}
      /\ grants' = [b \in Bookings |-> IF b \in old THEN NoGrant ELSE grants[b]]
      /\ UNCHANGED <<clock, rows, receipts, origin, completed, staff, browsers, handler>>

\* A scope is given to a user or taken away.
ChangeScope(user, scope) ==
  /\ shifted < MaxScopeChanges
  /\ shifted' = shifted + 1
  /\ scopes' = [scopes EXCEPT ![user] =
       IF scope \in @ THEN @ \ {scope} ELSE @ \cup {scope}]
  /\ entitled' = entitled \cup
       {r \in Requests : pc[r] = "branches" /\ Who(r) = user
                         /\ (TargetBranch(r) = scope[2] \/ scope[1] = "OWNER")
                         /\ scope \notin scopes[user]}
  /\ UNCHANGED <<clock, stored, browsers, handler>>

Tick ==
  /\ clock < MaxTime
  /\ clock' = clock + 1
  /\ UNCHANGED <<stored, staff, browsers, handler>>

Handle(r) ==
  \/ \E c \in Calls : Receive(r, c)
  \/ LookUp(r) \/ ReadRoles(r) \/ ReadBranches(r)
  \/ \E token \in shown \cup {NoToken} : AuthorizeGuest(r, token)
  \/ RefuseByLimit(r) \/ GiveUp(r) \/ Forbid(r)
  \/ \E b \in Bookings : ExecuteCreate(r, b)
  \/ ExecuteChange(r) \/ Replay(r) \/ Reread(r)
  \/ Deliver(r) \/ Lose(r)

Next ==
  \/ \E r \in Requests : Handle(r)
  \/ RedactReceipts \/ RevokeTokens
  \/ \E user \in Users, scope \in Scopes : ChangeScope(user, scope)
  \/ Tick

Spec == Init /\ [][Next]_vars

-----------------------------------------------------------------------------
(* Properties. *)

Answered == {r \in Requests : pc[r] = "answered"}

\* Bookings, tokens and receipts are well formed; who has read the branches is
\* a member of staff, and only a session has reached a guest's command.
TypeOK ==
  /\ clock \in 0..MaxTime /\ shifted \in 0..MaxScopeChanges
  /\ rows \in [Bookings -> Row \cup {NoRow}]
  /\ \A b \in Bookings : grants[b] # NoGrant => rows[b] # NoRow /\ grants[b].created <= clock
  /\ \A id \in DOMAIN receipts :
       /\ receipts[id].state \in {"COMPLETED", "TOMBSTONE"}
       /\ receipts[id].state = "COMPLETED" => receipts[id].response \in Responses
  /\ scopes \in [Users -> SUBSET Scopes]
  /\ cookie \in [Guests -> Requests \cup {NoSession}] /\ shown \subseteq Requests
  /\ \A r \in Requests : pc[r] = "execute" =>
       IF IsOutcome(Cmd(r)) THEN Who(r) \in Users ELSE session[r] # NoSession

\* Whoever is told 201, at the first time or again, gets the one token that was
\* stored with the booking, and gets it in the session that made the booking
\* (booking-flow.md: the stored token of the original guest scope).
AnswersShowTheStoredToken ==
  \A r \in Answered : answer[r].status = 201 =>
    LET made == origin[answer[r].booking]
    IN  made # NoGrant /\ answer[r].token = made.token /\ session[r] = made.session

\* A session and a key make at most one booking, also after its receipt has lost
\* its result (INV-03).
OneBookingPerKey ==
  \A b, c \in Bookings : b # c /\ origin[b] # NoGrant /\ origin[c] # NoGrant =>
    <<origin[b].session, origin[b].key>> # <<origin[c].session, origin[c].key>>

\* A repetition fails for a forgotten result only when the retention has passed,
\* whichever of the two readings of the receipt finds it gone.
RepetitionsLastTheirRetention ==
  \A r \in Answered : answer[r].code = "FORGOTTEN" =>
    completed[Identity(r)] + ResponseTicks <= clock

\* A guest sees and changes only what its own session has booked, although the
\* token may be known to others.
OnlyItsSessionManages ==
  \A r \in Answered : answer[r].status = 200 /\ ~IsOutcome(Cmd(r)) =>
    origin[answer[r].booking].session = session[r]

\* A booking that still lies ahead and has not been moved can be managed by its
\* guest: tokens live longer than the horizon reaches.
UpcomingBookingsKeepTheirToken ==
  \A b \in Bookings :
    rows[b] # NoRow /\ rows[b].version = 1 /\ clock < rows[b].start => grants[b] # NoGrant

\* An outcome is answered only to a user who was permitted to mark it at one
\* instant of its request, although roles and branches are read separately.
OutcomesArePermitted ==
  \A r \in Answered : IsOutcome(Cmd(r)) /\ answer[r].status = 200 => r \in entitled
=============================================================================

------------------------------ MODULE RateLimit ------------------------------
(***************************************************************************)
(* The fixed-window limit on API mutations of one scope.  A request reads  *)
(* the window from its clock, then counts itself in one transaction: it    *)
(* locks the counter of the window, or inserts it when there is none.      *)
(***************************************************************************)
EXTENDS Integers, FiniteSets

CONSTANTS
  Requests,   \* mutating requests of one scope
  Limit,      \* MUTATIONS_PER_MINUTE
  LastWindow, \* bound on the clock, for model checking
  Nobody      \* a counter that is not locked

ASSUME LimitAssumption ==
  /\ Limit \in Nat \ {0} /\ LastWindow \in Nat /\ Nobody \notin Requests

VARIABLES
  minute,   \* the current window
  count,    \* window -> committed counter; 0 when there is no row
  lock,     \* window -> the transaction that holds the row lock of the counter
  insert,   \* window -> the transaction with an uncommitted insert
  pc,       \* request -> where it is in enforce_mutation_limit
  window,   \* request -> the window it read
  read      \* request -> the counter value it read

vars == <<minute, count, lock, insert, pc, window, read>>

Windows == 0..LastWindow
Ended == {"admitted", "refused", "error", "lost"}

Init ==
  /\ minute = 0
  /\ count = [m \in Windows |-> 0]
  /\ lock = [m \in Windows |-> Nobody]
  /\ insert = [m \in Windows |-> Nobody]
  /\ pc = [r \in Requests |-> "idle"]
  /\ window = [r \in Requests |-> 0]
  /\ read = [r \in Requests |-> 0]

-----------------------------------------------------------------------------

\* The request starts the transaction and reads its window.
Enter(r) ==
  /\ pc[r] = "idle"
  /\ window' = [window EXCEPT ![r] = minute]
  /\ pc' = [pc EXCEPT ![r] = "get"]
  /\ UNCHANGED <<minute, count, lock, insert, read>>

\* Mutated form of Unlocked: the counter is read without FOR UPDATE.
UnlockedAlways(m) == TRUE

Unlocked(m) == lock[m] = Nobody

\* SELECT ... FOR UPDATE finds the counter.
LockCounter(r) ==
  LET m == window[r]
  IN  /\ pc[r] = "get" /\ count[m] > 0 /\ Unlocked(m)
      /\ lock' = [lock EXCEPT ![m] = r]
      /\ read' = [read EXCEPT ![r] = count[m]]
      /\ pc' = [pc EXCEPT ![r] = "locked"]
      /\ UNCHANGED <<minute, count, insert, window>>

\* SELECT ... FOR UPDATE finds no committed counter.
MissCounter(r) ==
  /\ pc[r] = "get" /\ count[window[r]] = 0
  /\ pc' = [pc EXCEPT ![r] = "create"]
  /\ UNCHANGED <<minute, count, lock, insert, window, read>>

\* The insert waits for an uncommitted one of the same window.
InsertCounter(r) ==
  LET m == window[r]
  IN  /\ pc[r] = "create" /\ count[m] = 0 /\ insert[m] = Nobody
      /\ insert' = [insert EXCEPT ![m] = r]
      /\ pc' = [pc EXCEPT ![r] = "inserted"]
      /\ UNCHANGED <<minute, count, lock, window, read>>

\* The insert violates the unique constraint.  It runs in the transaction of
\* the whole function, not in a savepoint: the transaction is broken, and the
\* query of the except branch raises.
FailInsert(r) ==
  /\ pc[r] = "create" /\ count[window[r]] > 0
  /\ pc' = [pc EXCEPT ![r] = "error"]
  /\ UNCHANGED <<minute, count, lock, insert, window, read>>

CommitInsert(r) ==
  LET m == window[r]
  IN  /\ pc[r] = "inserted"
      /\ count' = [count EXCEPT ![m] = 1]
      /\ insert' = [insert EXCEPT ![m] = Nobody]
      /\ pc' = [pc EXCEPT ![r] = "admitted"]
      /\ UNCHANGED <<minute, lock, window, read>>

\* Mutated forms of Exhausted: the limit is off by one, either way.
ExhaustedOneLate(r) == read[r] > Limit
ExhaustedOneEarly(r) == read[r] >= Limit - 1

Exhausted(r) == read[r] >= Limit

CommitIncrement(r) ==
  LET m == window[r]
  IN  /\ pc[r] = "locked" /\ ~Exhausted(r)
      /\ count' = [count EXCEPT ![m] = read[r] + 1]
      /\ lock' = [lock EXCEPT ![m] = Nobody]
      /\ pc' = [pc EXCEPT ![r] = "admitted"]
      /\ UNCHANGED <<minute, insert, window, read>>

\* Mutated form of Refuse: the counter stays locked.
RefuseLocked(r) ==
  /\ pc[r] = "locked" /\ Exhausted(r)
  /\ pc' = [pc EXCEPT ![r] = "refused"]
  /\ UNCHANGED <<minute, count, lock, insert, window, read>>

\* RateLimitExceeded: the transaction rolls back.
Refuse(r) ==
  LET m == window[r]
  IN  /\ pc[r] = "locked" /\ Exhausted(r)
      /\ lock' = [lock EXCEPT ![m] = Nobody]
      /\ pc' = [pc EXCEPT ![r] = "refused"]
      /\ UNCHANGED <<minute, count, insert, window, read>>

\* The process or its connection dies: the transaction rolls back.
Crash(r) ==
  /\ pc[r] \in {"get", "create", "inserted", "locked"}
  /\ lock' = [m \in Windows |-> IF lock[m] = r THEN Nobody ELSE lock[m]]
  /\ insert' = [m \in Windows |-> IF insert[m] = r THEN Nobody ELSE insert[m]]
  /\ pc' = [pc EXCEPT ![r] = "lost"]
  /\ UNCHANGED <<minute, count, window, read>>

NextMinute ==
  /\ minute < LastWindow
  /\ minute' = minute + 1
  /\ UNCHANGED <<count, lock, insert, pc, window, read>>

AllEnded == (\A r \in Requests : pc[r] \in Ended) /\ UNCHANGED vars

Run(r) ==
  \/ LockCounter(r) \/ MissCounter(r) \/ InsertCounter(r) \/ FailInsert(r)
  \/ CommitInsert(r) \/ CommitIncrement(r) \/ Refuse(r)

Next ==
  \/ \E r \in Requests : Enter(r) \/ Run(r) \/ Crash(r)
  \/ NextMinute
  \/ AllEnded

Spec == Init /\ [][Next]_vars

\* A started request keeps running: the process and the database do.
FairSpec == Spec /\ \A r \in Requests : WF_vars(Run(r))

-----------------------------------------------------------------------------
(* Properties. *)

Of(state, m) == {r \in Requests : pc[r] = state /\ window[r] = m}

\* The counter of a window counts exactly the requests that were let through in
\* it: no increment is lost between two requests, none is left by a request
\* that was refused or died, so no window admits more than its limit.
CounterIsExact ==
  \A m \in Windows : count[m] = Cardinality(Of("admitted", m)) /\ count[m] <= Limit

\* A request is refused only when its window is really used up by others.
RefusedOnlyWhenUsedUp ==
  \A m \in Windows : Of("refused", m) # {} => Cardinality(Of("admitted", m)) = Limit

\* Every request that has read its window is admitted, refused or fails: it
\* does not wait forever for the counter or for the insert of another one.
EveryRequestEnds ==
  \A r \in Requests : pc[r] = "get" ~> pc[r] \in Ended

\* No request breaks its transaction: an integrity error is not followed by
\* queries in the atomic block that it has broken.
NoBrokenTransaction == \A r \in Requests : pc[r] # "error"
=============================================================================

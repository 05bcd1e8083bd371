--------------------------- MODULE RateLimitProofs ---------------------------
(***************************************************************************)
(* Proofs about RateLimit for every limit, every number of requests,       *)
(* infinitely many included, and every number of windows.                  *)
(*                                                                         *)
(* The counter is exact because of what an open transaction knows: under   *)
(* the row lock, what it has read is still the counter, and while its      *)
(* insert is uncommitted there is no counter.                              *)
(***************************************************************************)
EXTENDS RateLimit, TLAPS, FiniteSetTheorems

RateTypeOK ==
  /\ minute \in Windows
  /\ count \in [Windows -> 0..Limit]
  /\ lock \in [Windows -> Requests \cup {Nobody}]
  /\ insert \in [Windows -> Requests \cup {Nobody}]
  /\ pc \in [Requests -> {"idle", "get", "create", "inserted", "locked"} \cup Ended]
  /\ window \in [Requests -> Windows]
  /\ read \in [Requests -> 0..Limit]

\* What the open transaction of a request knows of the counter of its window.
Knows(r) ==
  /\ pc[r] = "locked" =>
       /\ lock[window[r]] = r
       /\ read[r] = count[window[r]] /\ count[window[r]] > 0
  /\ pc[r] = "inserted" => insert[window[r]] = r /\ count[window[r]] = 0

Counts(m) ==
  /\ IsFiniteSet(Of("admitted", m))
  /\ count[m] = Cardinality(Of("admitted", m))
  /\ Of("refused", m) # {} => count[m] = Limit

RateInv ==
  /\ RateTypeOK
  /\ \A r \in Requests : Knows(r)
  /\ \A m \in Windows : Counts(m)

-----------------------------------------------------------------------------
(* RateInv is inductive. *)

LEMMA InitRate == Init => RateInv
<1> SUFFICES ASSUME Init PROVE RateInv
  OBVIOUS
<1>1. RateTypeOK
  BY LimitAssumption DEF Init, RateTypeOK, Windows
<1>2. \A m \in Windows : Of("admitted", m) = {} /\ Of("refused", m) = {}
  BY DEF Init, Of
<1>3. \A m \in Windows : Counts(m)
  BY <1>2, FS_EmptySet DEF Init, Counts
<1> QED
  BY <1>1, <1>3 DEF Init, RateInv, Knows

\* A step that admits and refuses nobody and leaves the counters alone.
LEMMA CountsStay ==
  ASSUME RateInv, UNCHANGED count,
         \A r \in Requests :
           \/ pc'[r] = pc[r] /\ window'[r] = window[r]
           \/ pc[r] \notin {"admitted", "refused"} /\ pc'[r] \notin {"admitted", "refused"}
  PROVE  \A m \in Windows : Counts(m)'
<1>1. \A m \in Windows : Of("admitted", m)' = Of("admitted", m)
                         /\ Of("refused", m)' = Of("refused", m)
  BY DEF Of
<1> QED
  BY <1>1 DEF RateInv, Counts

\* Before its transaction locks or writes anything.
LEMMA OpeningSteps ==
  ASSUME RateInv, NEW r \in Requests,
         Enter(r) \/ MissCounter(r) \/ FailInsert(r)
  PROVE  RateInv'
<1>1. /\ UNCHANGED <<count, lock, insert, read>>
      /\ pc[r] \in {"idle", "get", "create"} /\ pc'[r] \in {"get", "create", "error"}
      /\ \A q \in Requests \ {r} : pc'[q] = pc[q] /\ window'[q] = window[q]
  BY DEF Enter, MissCounter, FailInsert, RateInv, RateTypeOK
<1>2. RateTypeOK'
  BY DEF Enter, MissCounter, FailInsert, RateInv, RateTypeOK, Ended
<1>3. \A m \in Windows : Counts(m)'
  BY <1>1, CountsStay
<1> QED
  BY <1>1, <1>2, <1>3 DEF RateInv, Knows

\* Taking the row lock or the unique key of the counter.
LEMMA HoldSteps ==
  ASSUME RateInv, NEW r \in Requests, LockCounter(r) \/ InsertCounter(r)
  PROVE  RateInv'
<1> DEFINE m == window[r]
<1>1. /\ UNCHANGED <<count, window>> /\ m \in Windows
      /\ pc[r] \in {"get", "create"} /\ pc'[r] \in {"locked", "inserted"}
      /\ \A q \in Requests \ {r} : pc'[q] = pc[q] /\ read'[q] = read[q]
  BY DEF LockCounter, InsertCounter, RateInv, RateTypeOK
<1>2. RateTypeOK'
  BY DEF LockCounter, InsertCounter, RateInv, RateTypeOK
<1>3. \A x \in Windows : Counts(x)'
  BY <1>1, CountsStay
<1>4. ASSUME NEW q \in Requests PROVE Knows(q)'
  <2>1. CASE q = r
    BY <1>1, <2>1 DEF LockCounter, InsertCounter, Knows, RateInv, RateTypeOK
  <2>2. CASE q # r
    BY <1>1, <2>2, LimitAssumption
       DEF LockCounter, InsertCounter, Unlocked, Knows, RateInv, RateTypeOK
  <2> QED
    BY <2>1, <2>2
<1> QED
  BY <1>2, <1>3, <1>4 DEF RateInv

\* A request is admitted: its window counts one more.
LEMMA AdmitSteps ==
  ASSUME RateInv, NEW r \in Requests, CommitInsert(r) \/ CommitIncrement(r)
  PROVE  RateInv'
<1> DEFINE m == window[r]
<1>1. /\ UNCHANGED <<minute, window, read>> /\ m \in Windows /\ Limit \in Nat \ {0}
      /\ pc[r] \in {"inserted", "locked"} /\ pc'[r] = "admitted"
      /\ \A q \in Requests \ {r} : pc'[q] = pc[q]
  BY LimitAssumption DEF CommitInsert, CommitIncrement, RateInv, RateTypeOK
<1>2. /\ count[m] \in Nat /\ count[m] < Limit
      /\ count' = [count EXCEPT ![m] = count[m] + 1]
  BY <1>1 DEF CommitInsert, CommitIncrement, Exhausted, RateInv, RateTypeOK, Knows
<1>3. RateTypeOK'
  <2>1. count' \in [Windows -> 0..Limit]
    BY <1>1, <1>2 DEF RateInv, RateTypeOK
  <2> QED
    BY <1>1, <2>1 DEF CommitInsert, CommitIncrement, RateInv, RateTypeOK, Ended
<1>4. ASSUME NEW q \in Requests PROVE Knows(q)'
  <2>1. CASE q = r
    BY <1>1, <2>1 DEF Knows
  <2>2. CASE q # r
    <3>1. pc[q] \in {"locked", "inserted"} => window[q] # m
      BY <2>2 DEF CommitInsert, CommitIncrement, RateInv, Knows
    <3> QED
      BY <1>1, <1>2, <2>2, <3>1 DEF CommitInsert, CommitIncrement, RateInv, RateTypeOK, Knows
  <2> QED
    BY <2>1, <2>2
<1>5. ASSUME NEW x \in Windows PROVE Counts(x)'
  <2>1. /\ Of("refused", x)' = Of("refused", x)
        /\ Of("admitted", x)' = IF x = m THEN Of("admitted", x) \cup {r} ELSE Of("admitted", x)
        /\ r \notin Of("admitted", x)
    BY <1>1 DEF Of
  <2>2. Counts(x)
    BY DEF RateInv
  <2>3. CASE x # m
    BY <1>1, <1>2, <2>1, <2>2, <2>3 DEF Counts, RateInv, RateTypeOK
  <2>4. CASE x = m
    <3>1. /\ IsFiniteSet(Of("admitted", m) \cup {r})
          /\ Cardinality(Of("admitted", m) \cup {r}) = Cardinality(Of("admitted", m)) + 1
      BY <2>1, <2>2, <2>4, FS_AddElement DEF Counts
    <3>2. Of("refused", m) = {}
      BY <1>2, <2>2, <2>4 DEF Counts
    <3> QED
      BY <1>1, <1>2, <2>1, <2>2, <2>4, <3>1, <3>2 DEF Counts, RateInv, RateTypeOK
  <2> QED
    BY <2>3, <2>4
<1> QED
  BY <1>3, <1>4, <1>5 DEF RateInv

\* A request is refused: the counter under its lock is at the limit.
LEMMA RefuseStep ==
  ASSUME RateInv, NEW r \in Requests, Refuse(r)
  PROVE  RateInv'
<1> DEFINE m == window[r]
<1>1. /\ UNCHANGED <<minute, count, insert, window, read>> /\ m \in Windows
      /\ pc[r] = "locked" /\ pc'[r] = "refused"
      /\ \A q \in Requests \ {r} : pc'[q] = pc[q]
      /\ lock[m] = r /\ lock' = [lock EXCEPT ![m] = Nobody]
  BY DEF Refuse, RateInv, RateTypeOK, Knows
<1>2. count[m] = Limit
  BY <1>1, LimitAssumption DEF Refuse, Exhausted, RateInv, RateTypeOK, Knows
<1>3. RateTypeOK'
  BY DEF Refuse, RateInv, RateTypeOK, Ended
<1>4. \A q \in Requests : Knows(q)'
  BY <1>1 DEF RateInv, RateTypeOK, Knows
<1>5. ASSUME NEW x \in Windows PROVE Counts(x)'
  <2>1. /\ Of("admitted", x)' = Of("admitted", x)
        /\ x # m => Of("refused", x)' = Of("refused", x)
    BY <1>1 DEF Of
  <2> QED
    BY <1>1, <1>2, <2>1 DEF RateInv, Counts
<1> QED
  BY <1>3, <1>4, <1>5 DEF RateInv

\* The transaction of a dead request leaves no lock and no insert.
LEMMA CrashStep ==
  ASSUME RateInv, NEW r \in Requests, Crash(r)
  PROVE  RateInv'
<1>1. /\ UNCHANGED <<minute, count, window, read>>
      /\ pc[r] \notin Ended /\ pc'[r] = "lost"
      /\ \A q \in Requests \ {r} : pc'[q] = pc[q]
      /\ \A m \in Windows : lock[m] # r => lock'[m] = lock[m]
      /\ \A m \in Windows : insert[m] # r => insert'[m] = insert[m]
  BY DEF Crash, RateInv, RateTypeOK, Ended
<1>2. RateTypeOK'
  BY DEF Crash, RateInv, RateTypeOK, Ended
<1>3. \A m \in Windows : Counts(m)'
  BY <1>1, CountsStay DEF Ended
<1>4. ASSUME NEW q \in Requests PROVE Knows(q)'
  <2>1. CASE q = r
    BY <1>1, <2>1 DEF Knows
  <2>2. CASE q # r
    <3>1. window[q] \in Windows
      BY DEF RateInv, RateTypeOK
    <3> QED
      BY <1>1, <2>2, <3>1 DEF RateInv, Knows
  <2> QED
    BY <2>1, <2>2
<1> QED
  BY <1>2, <1>3, <1>4 DEF RateInv

LEMMA NextRate == RateInv /\ [Next]_vars => RateInv'
<1> SUFFICES ASSUME RateInv, [Next]_vars PROVE RateInv'
  OBVIOUS
<1>1. CASE NextMinute
  <2>1. UNCHANGED <<count, lock, insert, pc, window, read>>
    BY <1>1 DEF NextMinute
  <2>2. RateTypeOK'
    BY <1>1, LimitAssumption DEF NextMinute, RateInv, RateTypeOK, Windows
  <2>3. \A m \in Windows : Counts(m)'
    BY <2>1, CountsStay
  <2> QED
    BY <2>1, <2>2, <2>3 DEF RateInv, Knows
<1>2. CASE AllEnded \/ UNCHANGED vars
  <2>1. UNCHANGED vars
    BY <1>2 DEF AllEnded
  <2>2. \A m \in Windows : Counts(m)'
    BY <2>1, CountsStay DEF vars
  <2> QED
    BY <2>1, <2>2 DEF vars, RateInv, RateTypeOK, Knows
<1> QED
  BY <1>1, <1>2, OpeningSteps, HoldSteps, AdmitSteps, RefuseStep, CrashStep DEF Next, Run

LEMMA RateInvHolds == Spec => []RateInv
BY InitRate, NextRate, PTL DEF Spec

-----------------------------------------------------------------------------
(* The theorems. *)

\* No window admits more than the limit and no admission is lost or counted
\* twice, whatever requests race for the first insert, time out or die.
THEOREM LimitIsExact == Spec => []CounterIsExact
<1>1. RateInv => CounterIsExact
  BY LimitAssumption DEF RateInv, RateTypeOK, Counts, CounterIsExact
<1> QED
  BY <1>1, RateInvHolds, PTL

\* Nobody is refused before the limit is really used up.
THEOREM NobodyRefusedEarly == Spec => []RefusedOnlyWhenUsedUp
<1>1. RateInv => RefusedOnlyWhenUsedUp
  BY DEF RateInv, Counts, RefusedOnlyWhenUsedUp
<1> QED
  BY <1>1, RateInvHolds, PTL
=============================================================================

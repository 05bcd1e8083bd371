SPECIFICATION Spec
CONSTANTS
  anna = anna
  boris = boris
  b1 = b1
  b2 = b2
  b3 = b3
  t1 = t1
  t2 = t2
  t3 = t3
  Transactions = {t1, t2}
  Jobs <- MCJobs
  BarberOrder <- MCBarberOrder
  Bookings = {b1, b2, b3}
  Existing <- MCExisting
  FirstShift <- MCFirstShift
  FirstLength = 1
  Branch = Branch
  MaxAttempts = 2
  MaxTime = 2
  Nobody = Nobody
  NoJob = NoJob
  NoRow = NoRow
INVARIANTS
  NoWaitCycle

SPECIFICATION LockedSpec
CONSTANTS
  anna = anna
  boris = boris
  cut = cut
  b1 = b1
  b2 = b2
  b3 = b3
  k1 = k1
  k2 = k2
  k3 = k3
  r1 = r1
  r2 = r2
  r3 = r3
  Barbers = {anna, boris}
  Services = {cut}
  Bookings = {b1, b2, b3}
  Keys = {k1, k2, k3}
  Requests = {r1, r2, r3}
  Commands <- BusyCommands
  Existing <- BusyExisting
  Duration <- MCDuration
  Offered <- MCOffered
  Shifts <- OneShift
  MinLead = 1
  HorizonDays = 0
  DayLength = 12
  Grid = 1
  CancelWindow = 2
  MaxAttempts = 1
  MaxTime = 4
  NoRow = NoRow
  NoBooking = NoBooking
  Earlier = Earlier
  Nobody = Nobody
  NoReceipt = NoReceipt
  NoCommand = NoCommand
  Nothing = Nothing
  NoAnswer = NoAnswer
SYMMETRY RequestSymmetry
INVARIANTS
  TypeOK
  NoDoubleBooking
  JournalFollowsVersions
  DecidesOnCurrentData
  OutcomesFollowVisits
  DecidesAfterItsLocks
PROPERTIES
  ChangesAreVersioned

SPECIFICATION FairSpec
CONSTANTS
  w1 = w1
  w2 = w2
  Events = {1, 2}
  BookingOf <- OneBooking
  Workers = {w1, w2}
  Tokens = {1, 2, 3, 4, 5}
  NoToken = NoToken
  NoEvent = NoEvent
  Lease = 2
  SendTime = 2
  MaxAttempts = 2
  MaxBackoff = 1
  MaxExponent = 1
  MaxCrashes = 1
  MaxLate = 1
INVARIANTS
  TypeOK
  DeliveredHasArrived
  FastWorkersKeepTheirLease
PROPERTIES
  LiveLeaseIsExclusive
  SettledIsFinal
  EveryEventSettles

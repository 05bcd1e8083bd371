SPECIFICATION Spec
CONSTANTS
  w1 = w1
  w2 = w2
  Events = {1, 2}
  BookingOf <- OneBooking
  Workers = {w1, w2}
  Tokens = {1, 2, 3, 4, 5}
  NoToken = NoToken
  NoEvent = NoEvent
  Lease = 2
  SendTime = 1
  MaxAttempts = 2
  MaxBackoff = 2
  MaxExponent = 1
  MaxCrashes = 0
  MaxLate = 2
INVARIANTS
  SerializedByBooking

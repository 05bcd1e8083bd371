SPECIFICATION MCSpec
CONSTANTS
  g1 = g1
  g2 = g2
  boss = boss
  k1 = k1
  anna = anna
  boris = boris
  here = here
  there = there
  Guests = {g1, g2}
  Users = {boss}
  Requests = {r1, r2, r3}
  Calls <- MCCalls
  BranchOf <- MCBranchOf
  Scopes <- MCScopes
  AnyBranch = AnyBranch
  ResponseTicks = 1
  TokenTicks = 3
  NoSession = NoSession
  NoToken = NoToken
  NoGrant = NoGrant
  NoCall = NoCall
  NoAnswer = NoAnswer
  MaxTime = 4
  MaxScopeChanges = 1
  Barbers = {anna, boris}
  Services = {1}
  Bookings = {1, 2}
  Keys = {k1}
  Commands <- MCCommands
  Duration <- MCDuration
  Offered <- MCOffered
  Shifts <- MCShifts
  MinLead = 1
  HorizonDays = 3
  DayLength = 1
  Grid = 1
  CancelWindow = 1
  NoRow = NoRow
  NoBooking = NoBooking
SYMMETRY Symmetry
CHECK_DEADLOCK FALSE
INVARIANTS
  TypeOK
  AnswersShowTheStoredToken
  OneBookingPerKey
  RepetitionsLastTheirRetention
  OnlyItsSessionManages
  UpcomingBookingsKeepTheirToken
  OutcomesArePermitted

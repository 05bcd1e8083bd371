SPECIFICATION MCSpec
CONSTANTS
  Readers = {"slots", "feed"}
  DayLength = 6
  NoFold = NoFold
  Barbers = {1, 2}
  Services = {1, 2, 3}
  Duration <- MCDuration
  Bookings = {1, 2}
  Assigned <- MCAssigned
  NoVisit = NoVisit
  Zones <- MCZones
  Schedules <- MCSchedules
  Queries <- MCQueries
  NoQuery = NoQuery
  MinLead = 1
  HorizonDays = 1
  Grid = 2
  MaxRangeDays = 2
  MaxResults = 4
  FirstTime = 1
  MaxTime = 2
  MaxChanges = 2
  MappedServices = {1, 2}
  MappedBarbers = {1}
  AnyBarber = AnyBarber
  Dates = {1}
  CompanyCount = 3
  Counts = {1, 2, 0}
INVARIANTS
  TypeOK
  LocalTimesResolve
  OfferedSlotsAreAccepted
  NothingBookableIsWithheld
  PartnerSeesItsServices
  NoSteadyCompanyIsLost
PROPERTIES
  NoCompanyTwice
  OfferedSlotsWereFree

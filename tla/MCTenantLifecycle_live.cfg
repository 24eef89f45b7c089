SPECIFICATION FairSpec
CONSTANTS
  Plan = {starter}
  NoPlan = NoPlan
  Seats <- MCSeats
  SignupPlan = starter
  TrialDays <- MCTrialDays
  Worker = {w1}
  Signup = {bff}
  Backstop = {}
  Sweep = sweep
  NoEvent = NoEvent
  Nobody = Nobody
  Types <- PaidTypes
  RealmWrites = {}
  MaxEvents = 2
  MaxReceives = 2
  Skew = 1
  Faults = {"lostDelete"}
PROPERTIES MessagesSettle ParkedReplayed

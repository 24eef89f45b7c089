SPECIFICATION Spec
CONSTANTS
  Plan = {starter}
  NoPlan = NoPlan
  Seats <- MCSeats
  SignupPlan = starter
  TrialDays <- MCTrialDays
  Worker = {w1, w2}
  Signup = {bff}
  Backstop = {}
  Sweep = sweep
  NoEvent = NoEvent
  Nobody = Nobody
  Types <- PaidTypes
  RealmWrites = {}
  MaxEvents = 2
  MaxReceives = 2
  Skew = 1
  Faults = {"lostDelete", "dlqReplay", "prune"}
SYMMETRY Workers
INVARIANTS AppliedInOrder ProvisioningExclusive
PROPERTIES NoParkWhileLive ParkedSettled AckSettlesUnlessProbing

SPECIFICATION Spec
CONSTANTS
  Plan = {starter, pro}
  NoPlan = NoPlan
  Seats <- MCSeats
  SignupPlan = starter
  TrialDays <- MCTrialDays
  Worker = {w1}
  Signup = {rp}
  Backstop = {rp}
  Sweep = sweep
  NoEvent = NoEvent
  Nobody = Nobody
  Types <- PlanTypes
  RealmWrites = {}
  MaxEvents = 3
  MaxReceives = 1
  Skew = 1
  Faults = {"corruptTime"}
INVARIANTS TypeOK HighWaterBounded RelayChain
CHECK_DEADLOCK FALSE

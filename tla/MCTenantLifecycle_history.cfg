SPECIFICATION Spec
CONSTANTS
  Plan = {starter}
  NoPlan = NoPlan
  Seats <- MCSeats
  SignupPlan = starter
  TrialDays <- MCTrialDays
  Worker = {w1}
  Signup = {bff}
  Backstop = {}
  Sweep = sweep
  NoEvent = NoEvent
  Nobody = Nobody
  Types <- HistoryTypes
  RealmWrites = {"shared", "dedicated"}
  MaxEvents = 4
  MaxReceives = 1
  Skew = 1
  Faults = {}
INVARIANTS RelayChain PurgeSignalled
PROPERTIES OffboardedTerminal

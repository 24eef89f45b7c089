SPECIFICATION Spec
CONSTANTS
  Person = {ann, ben}
  Inv = {i1, i2}
  Req = {r1, r2}
  NoInv = NoInv
  Erased = Erased
  BaseMembers = 1
  InitSeats = 2
  MaxSeats = 2
  MaxPerHour = 2
  ActorCeiling = FALSE
  LiveTenants = 501
  BatchLimit = 500
  MaxUngated = 0
SYMMETRY Symmetric
INVARIANTS TypeOK SeatCap ShellTracked
PROPERTY AcceptanceFinal

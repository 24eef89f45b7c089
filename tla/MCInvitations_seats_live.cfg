SPECIFICATION FairSpec
CONSTANTS
  Person = {ann}
  Inv = {i1}
  Req = {r1}
  NoInv = NoInv
  Erased = Erased
  BaseMembers = 1
  InitSeats = 2
  MaxSeats = 2
  MaxPerHour = 0
  ActorCeiling = FALSE
  LiveTenants = 500
  BatchLimit = 500
  MaxUngated = 1
PROPERTIES InvitationsEnd OverageNoticed

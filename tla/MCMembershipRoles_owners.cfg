SPECIFICATION Spec
CONSTANTS
  User = {alice, bob}
  Founder = alice
  Role = {owner}
  Owner = owner
  Proc = {p1, p2}
  Nobody = Nobody
  Ops <- AllOps
  MaxVersion = 3
SYMMETRY Procs
INVARIANTS
  OwnerlessOnlyByWebhook GuardHolds UnmarkedOnlyByOverlap GrantsAnnounced

SPECIFICATION Spec
CONSTANTS
  Dept = {d1}
  Req = {r1, r2}
  NoDept = NoDept
  MaxJoins = 2
SYMMETRY Symmetric
INVARIANTS TypeOK LevelsAnnounced OrphanOnlyByRace
PROPERTY DelegatesKept

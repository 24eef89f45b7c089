SPECIFICATION LiveSpec
CONSTANTS
  Reader = {r1}
  Writer = {w1}
  MaxChanges = 2
INVARIANTS StaleOnlyByRaceOrTTL GenerationGuards
PROPERTY PlanReachesEntry

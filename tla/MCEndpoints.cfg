CONSTANTS
  Revisions = {r1, r2}
  NoRevision = NoRevision
  CARevisions = {r1, r2}
  Plans <- MCPlans
  RefusedPlans <- MCRefusedPlans
  MaxEdits = 1
  Composed = TRUE
  Reachable = TRUE
  Clients = {c1, c2}
  PreviewIds = {1}
  MaxApplies = 3
SPECIFICATION Spec
INVARIANTS
  MaterialBehindRows
  BrokerRunsRecorded
  EditKept
SYMMETRY MCSymmetry

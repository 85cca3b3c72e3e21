SPECIFICATION Spec
CONSTANTS
  Principals <- MCPrincipals
  ListenerIds <- MCListenerIds
  Clients = {c1, c2}
  Names <- MCNames
  Service = "svc"
  Start <- MCStart
  Pool <- MCPool
  Rows <- MCRows
  Declared <- MCDeclared
  MaxOps = 4
  MaxPreviews = 1
  MaxRestarts = 1
CONSTRAINT Bounded
SYMMETRY MCSymmetry
INVARIANTS RememberedIsCurrent RulesFollowAccount ListenersWired
CHECK_DEADLOCK FALSE

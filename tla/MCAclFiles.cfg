SPECIFICATION AclSpec
CONSTANTS
  Principals <- MCPrincipals
  ListenerIds <- MCListenerIds
  MaxRules = 2
  Pool <- MCPool
  Bodies <- MCBodies
  Level <- MCLevel
  Depth = 3
  Service = "svc"
  MaxOps = 5
INVARIANTS ComposedFaithful DeniedMeansRefused
CHECK_DEADLOCK FALSE

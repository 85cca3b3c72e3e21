SPECIFICATION Spec
CONSTANTS
  Clients = {c1, c2}
  SourceOf <- MCSourceOf
  Names = {"ann", "bob"}
  Bootstrap = "ann"
  Start <- MCStart
  MaxAttempts = 2
  Window = 1
  TokenTTL = 3
  ActionMFATTL = 1
  ChallengeTTL = 1
  RecoveryCodes = {1}
  MaxIds = 3
  MaxSecrets = 2
  Loads <- MCLoads
INVARIANTS CodesUsedOnce GuessesLimited ActiveAdminRemains
PROPERTY ProofsAreFresh
CHECK_DEADLOCK FALSE

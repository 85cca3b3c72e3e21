CONSTANTS
  mcm = mcm  alice = alice  team = team  manage = manage  reader = reader  guest = guest
  data = data  control = control  p1 = p1  p2 = p2  p3 = p3
  Client = {mcm, alice}
  Group = {team}
  Role = {manage, reader, guest}
  Topic = {data, control}
  ControlTopic = control
  Priority = {0, 1}
  Management = mcm
  Password = {p1, p2, p3}
  NoPassword = NoPassword
  Masked = Masked
  NoGroup = NoGroup
  Request = {r1, r2}
  Document <- MCDocument
  Start <- MCStart
  Resent <- MCResent
  Foreign <- MCForeign
  ManagementRole = manage
  AnonymousGroup = team
  UserRole = reader
  AnonymousRole = guest
  User = alice
  ManagementPassword = p3
  Generated <- MCGenerated
  NoDocument = NoDocument
  NoPlan = NoPlan
  MaxPlans = 1
  MaxAdoptions = 2
  MaxApplies = 2
  MaxForeign = 1
SYMMETRY Requests
SPECIFICATION DynSecSpec
INVARIANTS PlanConverges LatestCredentials
PROPERTIES ReviewedEffect ChannelStaysLimited
CHECK_DEADLOCK FALSE

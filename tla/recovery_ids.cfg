SPECIFICATION Spec
CONSTANTS
  u1 = u1
  u2 = u2
  u3 = u3
  s1 = s1
  a1 = a1
  c1 = c1
  c2 = c2
  c3 = c3
  m1 = m1
  m2 = m2
  None = None
  Users <- ThreeUsers
  Systems <- NoOne
  Aborts <- NoOne
  Selects <- NoOne
  Patches <- NoOne
  Perms <- Permissions
  AskPerms <- AskPermissions
  Models <- OneModel
  FirstMode <- AskFirst
  Admission = "queue-user"
  BargeIn = FALSE
  Steps = 1
  HostResults = {"end"}
  FaultKinds = {}
  MaxFaults = 0
  MaxRestores = 2
  MaxForeign = 0
  CanClose = FALSE
CHECK_DEADLOCK FALSE
INVARIANT AppendIdsAreStable

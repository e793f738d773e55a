SPECIFICATION Spec
CONSTANTS
  u1 = u1
  u2 = u2
  u3 = u3
  s1 = s1
  a1 = a1
  c1 = c1
  c2 = c2
  c3 = c3
  m1 = m1
  m2 = m2
  None = None
  Users <- NoOne
  Systems <- NoOne
  Aborts <- NoOne
  Selects <- TwoSelects
  Patches <- OffOrModel
  Perms <- Permissions
  AskPerms <- AskPermissions
  Models <- TwoModels
  FirstMode <- AskFirst
  Admission = "queue-user"
  BargeIn = FALSE
  Steps = 1
  HostResults = {"end"}
  FaultKinds = {"putFails"}
  MaxFaults = 1
  MaxRestores = 0
  MaxForeign = 0
  CanClose = FALSE
CHECK_DEADLOCK FALSE
INVARIANT RefusedPatchIsNotApplied

SPECIFICATION Spec
CONSTANTS
  u1 = u1
  u2 = u2
  u3 = u3
  s1 = s1
  a1 = a1
  c1 = c1
  c2 = c2
  c3 = c3
  m1 = m1
  m2 = m2
  None = None
  Users <- TwoUsers
  Systems <- NoOne
  Aborts <- OneAbort
  Selects <- NoOne
  Patches <- NoOne
  Perms <- Permissions
  AskPerms <- AskPermissions
  Models <- OneModel
  FirstMode <- AskFirst
  Admission = "abort-tools-on-user"
  BargeIn = TRUE
  Steps = 2
  HostResults = {"end", "more", "tools", "always", "unpermitted"}
  FaultKinds = {"lostAck"}
  MaxFaults = 1
  MaxRestores = 0
  MaxForeign = 0
  CanClose = FALSE
CHECK_DEADLOCK FALSE
INVARIANT WaitsFollowJournal

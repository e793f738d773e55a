SPECIFICATION ScenesSpec
CONSTANTS
  u1 = u1
  u2 = u2
  u3 = u3
  s1 = s1
  a1 = a1
  c1 = c1
  c2 = c2
  c3 = c3
  m1 = m1
  m2 = m2
  None = None
  Users <- ThreeUsers
  Systems <- OneSystem
  Aborts <- OneAbort
  Selects <- ThreeSelects
  Patches <- PermPatches
  Perms <- Permissions
  AskPerms <- AskPermissions
  Models <- OneModel
  FirstMode <- AskFirst
  Admission = "queue-user"
  BargeIn = FALSE
  Steps = 1
  HostResults = {"end", "tools", "always"}
  FaultKinds = {"lostAck", "noAck", "reject", "badReceipt", "loadFails", "putFails"}
  MaxFaults = 2
  MaxRestores = 1
  MaxForeign = 1
  CanClose = TRUE
CHECK_DEADLOCK FALSE
INVARIANTS TypeOK JournalFolds DurableIsStored AnswersAreTrue BoundaryRecords QueueIsFair
PROPERTIES ImplementsLedger RestoreOpensAtRest TurnStartsUnderSelection SwitchingBackRevokes

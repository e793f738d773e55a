SPECIFICATION PartsSpec
CONSTANTS
  Runs <- OneTwo
  Transports <- OneTwo
  Ids <- OneTwo
  HostAsks = {"ask"}
  ClientCalls = {"call"}
  Servers = 2
  MaxPages = 1
  Uses <- OneTwo
  Forms <- OneForm
  Urls <- OneTwoThree
  ServerName <- UrlNames
  Slots = 2
  Logins <- TwoLogins
  Logouts = {"logout"}
  Seats <- OneTwo
  WriteCalls <- OneTwo
  TextLength <- Lengths
  MaxOthers = 1
  Branch <- FirstSecond
  MaxInputs = 2
  MaxRestores = 1
  Completions <- One
  ToolCalls <- One
  MaxSelections = 1
  Stored <- OneTwoThree
  Writers <- OneTwo
  Listings <- OneTwo
  WritesTo <- SecondSecond
  AppendIds <- OneTwo
  Tables = {"info", "scope", "config"}
  PageSize = 1
  MaxCursors = 1
  MaxBatches = 2
  Questions <- OneTwoThree
  Prompted = 2
  Shells <- OneTwo
  FileWrites <- OneTwo
  MaxTyped = 1
  Agents <- OneTwo
  AgentProcesses <- OneTwo
  EditorIds <- OneTwoThree
  OldIds <- One
  AgentOf <- SecondFirstFirst
  Commands <- OneTwo
  MaxOptionChanges = 1
INVARIANTS DisplayFollowsJournal StoreKeepsItsWord EditorMapsAgree HandlersKeepTheirWord PagesAreTrue BranchesAreWhole CompletionsAreWhole ToolsKeepTheirWord AccessFollowsCredentials
CHECK_DEADLOCK FALSE

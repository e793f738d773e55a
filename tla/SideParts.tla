------------------------------ MODULE SideParts ------------------------------
(***************************************************************************)
(* Parts beside a session that share no state with it nor with each other:  *)
(* its branches, what an ACP client is shown of it, the store it is kept    *)
(* in, and the sessions, permissions, terminals and files of the extension. *)
(* A behaviour picks its part once and is one of that part's own behaviours.*)
(***************************************************************************)
EXTENDS AdapterTools

CONSTANTS
  Branch, MaxInputs, MaxRestores,            \* Branches
  Completions, ToolCalls, MaxSelections,     \* AcpDisplay
  Stored, Writers, Listings, WritesTo, AppendIds, Tables, PageSize, MaxCursors,
  MaxBatches,                                \* AcpStorage
  Questions, Prompted,                       \* EditorPermissions
  Shells,                                    \* EditorTerminals
  FileWrites, MaxTyped,                      \* EditorFiles
  Agents, AgentProcesses, EditorIds, OldIds, AgentOf, Commands,
  MaxOptionChanges                           \* EditorSessions

ASSUME SideAssumption ==
  /\ Branch \cap {"adopt", "user", "end"} = {} /\ MaxInputs \in Nat /\ MaxRestores \in Nat
  /\ Completions \subseteq Nat /\ MaxSelections \in Nat
  /\ Stored \subseteq Nat \ {0} /\ IsFiniteSet(Stored) /\ WritesTo \in [Writers -> Stored]
  /\ AppendIds \subseteq Nat /\ "info" \in Tables
  /\ PageSize \in Nat \ {0} /\ MaxCursors \in Nat /\ MaxBatches \in Nat \ {0}
  /\ Questions \subseteq Nat \ {0} /\ Prompted \in Nat
  /\ FileWrites \subseteq Nat \ {0} /\ MaxTyped \in Nat
  /\ 0 \notin Agents /\ 0 \notin AgentProcesses /\ 0 \notin EditorIds /\ 0 \notin Commands
  /\ OldIds \subseteq EditorIds /\ AgentOf \in [EditorIds -> Agents] /\ MaxOptionChanges \in Nat

VARIABLES
  standing, line, journaled, turnRuns, adoption, restored, branching, taken, child,
  answered, inputs,
  stage, emitted, plain, records, observing, streamed, revision, shown, call, asking,
  sent, written, turnEnds, selected, projected, accounts, reading, readAt, used,
  batches, deleted, rows, writer, removal, cursors, listing,
  asked, waiting, visible, revoked, closed, editorTurn,
  program, kept, create, release, wait, disposed,
  file, document, write, saved, edits,
  process, sessions, owner, current, pending, loading, command, history, options, serving

Branching == INSTANCE Branches
Display == INSTANCE AcpDisplay WITH Calls <- ToolCalls, MaxChanges <- MaxSelections
Store == INSTANCE AcpStorage
Permissions == INSTANCE EditorPermissions WITH
  Requests <- Questions, Turns <- Prompted, turn <- editorTurn
Terminals == INSTANCE EditorTerminals WITH Terminals <- Shells
Files == INSTANCE EditorFiles WITH Writes <- FileWrites, MaxEdits <- MaxTyped
Editor == INSTANCE EditorSessions WITH
  Names <- Agents, Processes <- AgentProcesses, Ids <- EditorIds, Old <- OldIds,
  MaxChanges <- MaxOptionChanges

SideNames == {"branches", "display", "store", "permissions", "terminals", "files", "editor"}

\* The parts not picked stay in one of their initial states.
SideInit ==
  /\ Branching!BranchInit
  /\ Display!DisplayInit /\ (part # "display" => plain = {})
  /\ Store!StorageInit /\ (part # "store" => rows = {})
  /\ Permissions!PermissionInit /\ Terminals!TerminalInit
  /\ Files!FileInit /\ (part # "files" => file = 0)
  /\ Editor!EditorInit /\ (part # "editor" => current = 0)

bV == <<standing, line, journaled, turnRuns, adoption, restored, branching, taken, child,
        answered, inputs>>
dV == <<stage, emitted, plain, records, observing, streamed, revision, shown, call, asking,
        sent, written, turnEnds, selected, projected, accounts, reading, readAt, used>>
sV == <<batches, deleted, rows, writer, removal, cursors, listing>>
mV == <<asked, waiting, visible, revoked, closed, editorTurn>>
tV == <<program, kept, create, release, wait, disposed>>
fV == <<file, document, write, saved, edits>>
eV == <<process, sessions, owner, current, pending, loading, command, history, options,
        serving>>
sideVars == <<bV, dV, sV, mV, tV, fV, eV>>

SideNext ==
  \/ part = "branches" /\ Branching!BranchNext /\ UNCHANGED <<dV, sV, mV, tV, fV, eV>>
  \/ part = "display" /\ Display!DisplayNext /\ UNCHANGED <<bV, sV, mV, tV, fV, eV>>
  \/ part = "store" /\ Store!StorageNext /\ UNCHANGED <<bV, dV, mV, tV, fV, eV>>
  \/ part = "permissions" /\ Permissions!PermissionNext /\ UNCHANGED <<bV, dV, sV, tV, fV, eV>>
  \/ part = "terminals" /\ Terminals!TerminalNext /\ UNCHANGED <<bV, dV, sV, mV, fV, eV>>
  \/ part = "files" /\ Files!FileNext /\ UNCHANGED <<bV, dV, sV, mV, tV, eV>>
  \/ part = "editor" /\ Editor!EditorNext /\ UNCHANGED <<bV, dV, sV, mV, tV, fV>>

SideSpec == SideInit /\ [][UNCHANGED part /\ SideNext]_<<part, sideVars>>

-----------------------------------------------------------------------------
\* Forks, compactions and adoption (core/session/runtime): no stray child and no
\* forgotten caller, branches of whole turns, the registry journaled before work under it.
BranchesAreWhole ==
  part = "branches" =>
    /\ Branching!BranchTypeOK /\ Branching!NoStrayBranches
    /\ Branching!BranchesAtBoundary /\ Branching!AdoptedFirst

\* The adapter's updates (packages/acp/rpc/updates.ts, permission.ts, config.ts): every
\* text is shown once and whole, a permission is asked after the call it is about was
\* shown, and the configuration and usage shown settle at the current ones.
DisplayFollowsJournal ==
  part = "display" =>
    /\ Display!DisplayTypeOK
    /\ Display!TextIsShownOnce /\ Display!AskedAfterShown /\ Display!DisplayIsCurrent

\* The adapter's store (packages/acp/workspace-persistence.ts, workspace-directory.ts): a
\* deleted session stays deleted whatever was writing it, an append is stored once
\* however often it is repeated, a listing shows every session once.
StoreKeepsItsWord ==
  part = "store" =>
    /\ Store!StorageTypeOK
    /\ Store!DeletedStays /\ Store!AppendsOnce /\ Store!ListedOnce

\* The extension's handlers (PermissionHandler, FileSystemHandler, TerminalHandler): a
\* request is only put to the user for the turn that made it, a confirmed write is on
\* disk, a process that runs can be named, and none outlives its release or the connection
\* but one that the system refused to kill.
HandlersKeepTheirWord ==
  /\ part = "permissions" => Permissions!PermissionTypeOK /\ Permissions!AskedForTheTurn
  /\ part = "files" => Files!FileTypeOK /\ Files!ConfirmedIsSaved
  /\ part = "terminals" =>
       Terminals!TerminalTypeOK /\ Terminals!LiveIsKept /\ Terminals!NoneRunsOn

\* The extension's sessions (vscode/src/core/SessionManager.ts): its maps agree across
\* overlapping commands and dying processes, and no session is shown stale.
EditorMapsAgree ==
  part = "editor" =>
    /\ Editor!EditorTypeOK /\ Editor!MapsAgree /\ Editor!CreatedIsCurrent
    /\ Editor!LoadingIsLoaded /\ Editor!OnePromptEach
=============================================================================

---------------------------- MODULE AdapterTools ----------------------------
(***************************************************************************)
(* The tools and the credentials of the ACP adapter, which share no state:  *)
(* terminals of the client, MCP over the connection, the MCP servers of a   *)
(* session, elicitations, file writes and access.  A behaviour picks its    *)
(* part once and is one of that part's own behaviours.                      *)
(***************************************************************************)
EXTENDS Integers, Sequences, FiniteSets

CONSTANTS
  Runs,                                      \* ClientTerminals
  Transports, Ids, HostAsks, ClientCalls,    \* McpProxy
  Servers, MaxPages, Uses,                   \* McpServers
  Forms, Urls, ServerName, Slots,            \* Elicitations
  Logins, Logouts, Seats,                    \* Credentials
  WriteCalls, TextLength, MaxOthers          \* WorkspaceFiles

ASSUME ToolsAssumption ==
  /\ 0 \notin Transports /\ 0 \notin Ids
  /\ Servers \in Nat /\ MaxPages \in Nat
  /\ Slots \in Nat /\ 0 \notin Urls
  /\ "none" \notin Logins \cup Logouts
  /\ WriteCalls \subseteq Nat \ {0} /\ TextLength \in [WriteCalls -> Nat] /\ MaxOthers \in Nat

VARIABLES
  part,
  online, standsAt, terminal, cancelled, exited, cleaning, releases, outcome,
  connected, linked, shut, name, endpoints, open, asks, calls, heard,
  opening, at, link, pages, serversEnded, openingAborted, uses,
  elicit, slots, lifetime, completes, completions,
  handshake, access, credential, locked, change, gone, reply, latest, seat,
  port, path, files, toolCall, made

Commandline == INSTANCE ClientTerminals
Proxy == INSTANCE McpProxy WITH Asks <- HostAsks, Calls <- ClientCalls
Mcp == INSTANCE McpServers WITH ended <- serversEnded, aborted <- openingAborted
Asking == INSTANCE Elicitations
Auth == INSTANCE Credentials
WriteTool == INSTANCE WorkspaceFiles WITH
  Calls <- WriteCalls, MaxEdits <- MaxOthers, call <- toolCall

ToolParts == {"commandline", "proxy", "mcp", "asking", "auth", "files written"}

\* The parts not picked stay in one of their initial states.
ToolsInit ==
  /\ Commandline!TerminalsInit /\ Proxy!ProxyInit /\ Mcp!ServersInit
  /\ Asking!ElicitationsInit
  /\ Auth!CredentialsInit /\ (part # "auth" => credential)
  /\ WriteTool!WriteInit /\ (part # "files written" => port = "disk" /\ path = 1)

lV == <<online, standsAt, terminal, cancelled, exited, cleaning, releases, outcome>>
pV == <<connected, linked, shut, name, endpoints, open, asks, calls, heard>>
vV == <<opening, at, link, pages, serversEnded, openingAborted, uses>>
qV == <<elicit, slots, lifetime, completes, completions>>
aV == <<handshake, access, credential, locked, change, gone, reply, latest, seat>>
wV == <<port, path, files, toolCall, made>>
toolVars == <<lV, pV, vV, qV, aV, wV>>

ToolsNext ==
  \/ part = "commandline" /\ Commandline!TerminalsNext /\ UNCHANGED <<pV, vV, qV, aV, wV>>
  \/ part = "proxy" /\ Proxy!ProxyNext /\ UNCHANGED <<lV, vV, qV, aV, wV>>
  \/ part = "mcp" /\ Mcp!ServersNext /\ UNCHANGED <<lV, pV, qV, aV, wV>>
  \/ part = "asking" /\ Asking!ElicitationsNext /\ UNCHANGED <<lV, pV, vV, aV, wV>>
  \/ part = "auth" /\ Auth!CredentialsNext /\ UNCHANGED <<lV, pV, vV, qV, wV>>
  \/ part = "files written" /\ WriteTool!WriteNext /\ UNCHANGED <<lV, pV, vV, qV, aV>>

ToolsSpec == ToolsInit /\ [][UNCHANGED part /\ ToolsNext]_<<part, toolVars>>

-----------------------------------------------------------------------------
\* The adapter's tools (acp/client-terminal.ts, mcp-acp.ts, mcp.ts, client-elicitation.ts):
\* a terminal, a proxied connection, an MCP client and an elicitation's slot that was
\* obtained is let go again, also one that arrives after whoever asked for it is gone; and
\* nothing is answered over what was closed.  And what write_file says it wrote and replaced
\* (workspace-files.ts, client-files.ts) is what it did, unless others wrote meanwhile.
ToolsKeepTheirWord ==
  /\ part = "commandline" =>
       Commandline!TerminalsTypeOK /\ Commandline!TerminalsAreReleased
       /\ Commandline!ResultsFollowRelease
  /\ part = "proxy" => Proxy!ProxyTypeOK /\ Proxy!ConnectionsAreHeld /\ Proxy!ClosedIsQuiet
  /\ part = "mcp" => Mcp!ServersTypeOK /\ Mcp!ClosedLinksNothing /\ Mcp!OpenedAllOrNone
  /\ part = "asking" =>
       Asking!ElicitationsTypeOK /\ Asking!SlotsAreHeld /\ Asking!CompletesOnce
  /\ part = "files written" =>
       WriteTool!FilesTypeOK /\ WriteTool!WrittenIsThere /\ WriteTool!DiffIsTrue
       /\ WriteTool!CancelledOverwritesNothing

\* The connection's credentials (acp/auth.ts): a change ends what was opened before it, and
\* one that was cancelled grants nothing when it ends late.
AccessFollowsCredentials ==
  part = "auth" =>
    Auth!CredentialsTypeOK /\ Auth!NoLateGrant /\ Auth!RevokedBeforeChange
=============================================================================

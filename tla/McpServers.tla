----------------------------- MODULE McpServers -----------------------------
(***************************************************************************)
(* The MCP servers of one session (acp/mcp.ts, mcp-transport.ts): opened   *)
(* one after the other in the order of their names, each with its catalog  *)
(* of tools; closed together, once, by the session's end, by the failure   *)
(* of the opening or by its cancellation; and called by the session's      *)
(* tools in between.                                                       *)
(*                                                                         *)
(* A remote server is told to end its session before its link is closed,   *)
(* so that a link that is closing still answers.                           *)
(***************************************************************************)
EXTENDS Naturals

CONSTANTS
  Servers,      \* how many servers the session names
  MaxPages,     \* pages of a catalog before its last
  Uses          \* calls of the servers' tools

VARIABLES
  opening,      \* what open stands at
  at,           \* the server being opened
  link,         \* server -> its client
  pages,        \* pages read of the current catalog
  ended,        \* close was called
  aborted,      \* the opening's signal
  uses          \* call -> its server and how far it is

serverVars == <<opening, at, link, pages, ended, aborted, uses>>

Named == 1 .. Servers

ServersTypeOK ==
  /\ opening \in {"unasked", "connecting", "paging", "open", "failing", "failed"}
  /\ at \in 0 .. Servers /\ pages \in 0 .. MaxPages
  /\ link \in [Named -> {"none", "up", "closing", "closed"}]
  /\ ended \in BOOLEAN /\ aborted \in BOOLEAN
  /\ uses \in [Uses -> [of : 0 .. Servers, at : {"unmade", "runs", "answered", "failed"}]]

ServersInit ==
  /\ opening = "unasked" /\ at = 0 /\ pages = 0
  /\ link = [s \in Named |-> "none"]
  /\ ended = FALSE /\ aborted = FALSE
  /\ uses = [u \in Uses |-> [of |-> 0, at |-> "unmade"]]

-----------------------------------------------------------------------------
\* close: every client there is now; a second call waits for the first.
Closes ==
  /\ ended' = TRUE
  /\ link' = [s \in Named |-> IF link[s] = "up" THEN "closing" ELSE link[s]]

\* open fails: it closes everything and only then rejects.
Fails == opening' = "failing" /\ Closes /\ UNCHANGED <<at, pages>>

\* Asked before each server and after the last one.
MayGoOn == ~aborted /\ ~ended

\* The loop turns to a server, or is through: the client is made and registered for the
\* close before it connects.
Proceeds(s) ==
  IF ~MayGoOn THEN Fails
  ELSE /\ IF s > Servers
          THEN opening' = "open" /\ UNCHANGED <<at, link>>
          ELSE opening' = "connecting" /\ at' = s /\ link' = [link EXCEPT ![s] = "up"]
       /\ pages' = 0 /\ UNCHANGED ended

\* A signal that is already aborted refuses before anything is opened.
Open ==
  /\ opening = "unasked"
  /\ IF aborted THEN opening' = "failed" /\ UNCHANGED <<at, link, pages, ended>>
                ELSE Proceeds(1)
  /\ UNCHANGED <<aborted, uses>>

\* The client connects; a server without tools has no catalog.
Connects ==
  /\ opening = "connecting" /\ link[at] # "closed"
  /\ \/ opening' = "paging" /\ UNCHANGED <<at, link, pages, ended>>
     \/ Proceeds(at + 1)
  /\ UNCHANGED <<aborted, uses>>

\* A page of the catalog: another follows, or the tools are bound and the next server is due.
PageRead ==
  /\ opening = "paging" /\ link[at] # "closed"
  /\ \/ pages < MaxPages /\ pages' = pages + 1 /\ UNCHANGED <<opening, at, link, ended>>
     \/ Proceeds(at + 1)
  /\ UNCHANGED <<aborted, uses>>

\* The server cannot be reached in time, its catalog repeats a cursor or is too large, a
\* tool's name is taken; or its link was closed.
ServerFails ==
  /\ opening \in {"connecting", "paging"}
  /\ Fails
  /\ UNCHANGED <<aborted, uses>>

\* The opening is cancelled: its await is given up.
OpeningAborted ==
  /\ ~aborted
  /\ aborted' = TRUE
  /\ IF opening \in {"connecting", "paging"} THEN Fails
                                             ELSE UNCHANGED <<opening, at, link, pages, ended>>
  /\ UNCHANGED uses

\* The session's cleanup, at any time.
SessionCloses ==
  /\ ~ended /\ Closes
  /\ UNCHANGED <<opening, at, pages, aborted, uses>>

\* A client is closed, whether or not its server ended the session.
LinkCloses(s) ==
  /\ link[s] = "closing"
  /\ link' = [link EXCEPT ![s] = "closed"]
  /\ UNCHANGED <<opening, at, pages, ended, aborted, uses>>

\* All clients are closed.
Settled == \A s \in Named : link[s] \in {"none", "closed"}

OpenRejects ==
  /\ opening = "failing" /\ Settled
  /\ opening' = "failed"
  /\ UNCHANGED <<at, link, pages, ended, aborted, uses>>

-----------------------------------------------------------------------------
\* run of a tool: refused once the session was closed.
ToolCalled(u) ==
  /\ opening = "open" /\ uses[u].at = "unmade"
  /\ \E s \in Named : uses' = [uses EXCEPT ![u] = [of |-> s, at |-> IF ended THEN "failed"
                                                                   ELSE "runs"]]
  /\ UNCHANGED <<opening, at, link, pages, ended, aborted>>

\* The server answers, or the call is cancelled, late, an error or too large.
ToolReturns(u) ==
  /\ uses[u].at = "runs"
  /\ \/ link[uses[u].of] # "closed" /\ uses' = [uses EXCEPT ![u].at = "answered"]
     \/ uses' = [uses EXCEPT ![u].at = "failed"]
  /\ UNCHANGED <<opening, at, link, pages, ended, aborted>>

ServersNext ==
  \/ Open \/ Connects \/ PageRead \/ ServerFails \/ OpeningAborted \/ SessionCloses
  \/ OpenRejects
  \/ \E s \in Named : LinkCloses(s)
  \/ \E u \in Uses : ToolCalled(u) \/ ToolReturns(u)

-----------------------------------------------------------------------------
\* No client outlives the session that registered it: once closed, none is up, also of a
\* server that was being opened then (mcp.ts:116-131, 157-158, 240).
ClosedLinksNothing == ended => \A s \in Named : link[s] # "up"

\* open rejects only after every client it made is closed, and resolves with all of them
\* (mcp.ts:492-512).
OpenedAllOrNone ==
  /\ opening = "failed" => \A s \in Named : link[s] \in {"none", "closed"}
  /\ opening = "open" => \A s \in Named : link[s] # "none"
=============================================================================

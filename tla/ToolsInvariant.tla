---------------------------- MODULE ToolsInvariant ----------------------------
(***************************************************************************)
(* Why the adapter's credentials and tools keep their promises: what is     *)
(* under way in each of them, in every state.                               *)
(***************************************************************************)
EXTENDS AdapterTools

-----------------------------------------------------------------------------
\* Credentials: the change that is under way has the lock, and while one has it there
\* is no access, and no session but those it closes.
AuthInv ==
  /\ Auth!CredentialsTypeOK
  /\ \A c \in Auth!Changes :
       /\ change[c] \in {"revoking", "calling"} <=> locked = c
       /\ change[c] \in {"revoking", "calling"} /\ ~gone[c] => reply[c] = "none"
       /\ change[c] = "unasked" => reply[c] = "none"
  /\ locked # "none" => ~access /\ \A s \in Seats : seat[s] \in {"none", "closing"}
  /\ \A c \in Auth!Changes : change[c] = "calling" => \A s \in Seats : seat[s] = "none"
  /\ latest # "none" => change[latest] = "settled"
  /\ Auth!NoLateGrant

-----------------------------------------------------------------------------
\* Terminals: where a run stands, what became of its request and how far its cleanup
\* is go together.
RunShape(r) ==
  /\ standsAt[r] = "unasked" <=> terminal[r] = "none"
  /\ standsAt[r] = "unasked" => ~cancelled[r]
  /\ standsAt[r] = "creating" => terminal[r] = "asked" /\ ~cancelled[r]
  /\ standsAt[r] \in {"exiting", "reading"} => terminal[r] = "known" /\ cleaning[r] = "none"
  /\ standsAt[r] = "surfacing" => cleaning[r] = "releasing"
  /\ standsAt[r] = "leaving" => cleaning[r] \in {"killing", "releasing"}
  /\ terminal[r] = "asked" /\ standsAt[r] # "creating" => standsAt[r] = "done" /\ cancelled[r]
  /\ cleaning[r] # "none" => terminal[r] = "known" /\ standsAt[r] \in {"surfacing", "leaving", "done"}
  /\ cleaning[r] \in {"none", "killing"} => releases[r] = 0
  /\ cleaning[r] \in {"releasing", "released"} => releases[r] = 1
  /\ releases[r] <= 1
  /\ online /\ cleaning[r] = "failed" => releases[r] = 1
  /\ online /\ terminal[r] = "known" /\ standsAt[r] = "done" => cleaning[r] # "none"
  /\ outcome[r] # "none" => standsAt[r] = "done"
  /\ outcome[r] = "result" => cleaning[r] = "released"

CommandInv == Commandline!TerminalsTypeOK /\ \A r \in Runs : RunShape(r)

-----------------------------------------------------------------------------
\* MCP over the connection: a transport has no connection before its answer, and what was
\* sent belongs to one.
ProxyInv ==
  /\ Proxy!ProxyTypeOK
  /\ \A q \in HostAsks : asks[q].at # "unsent" => asks[q].of \in Transports
  /\ \A q \in ClientCalls : calls[q].at # "unsent" => calls[q].of \in Transports
  /\ \A t \in Transports : linked[t] # "settled" => name[t] = 0
  /\ Proxy!ConnectionsAreHeld
  /\ Proxy!ClosedIsQuiet

-----------------------------------------------------------------------------
\* MCP servers: they have clients up to the one being opened, all of them once it is open;
\* none is up after a close.
McpInv ==
  /\ Mcp!ServersTypeOK
  /\ Mcp!ClosedLinksNothing
  /\ opening = "unasked" => at = 0
  /\ opening \in {"connecting", "paging"} => at # 0
  /\ opening \in {"connecting", "paging", "open"} => \A s \in 1 .. at : link[s] # "none"
  /\ opening = "open" => at = Servers
  /\ opening \in {"unasked", "connecting", "paging"} => \A s \in Mcp!Named : s > at => link[s] = "none"
  /\ opening = "failed" => \A s \in Mcp!Named : link[s] \in {"none", "closed"}

-----------------------------------------------------------------------------
\* Elicitations: what is kept under a server's ID is a request of that ID.
AskingInv ==
  /\ Asking!ElicitationsTypeOK
  /\ completes \in [Asking!ServerIds -> {Asking!Absent, Asking!Unanswered} \cup {<<e>> : e \in Urls}]
  /\ IsFiniteSet(slots)
  /\ Asking!SlotsAreHeld
  /\ Asking!CompletesOnce
  /\ \A i \in Asking!ServerIds : \A e \in Urls : completes[i] = <<e>> => ServerName[e] = i

-----------------------------------------------------------------------------
\* Writes: what each place of a call says of the file it opened, of what it has seen and of
\* what it has done.
WritePlaces == {"run", "absent", "open", "checked", "baseline", "same", "truncated", "reading",
                "answered", "asked", "left", "written", "done", "failed"}

\* What a call knows of the file's contents, and a call where there are n files.
Known == [kind : {"unavailable", "absent", "text"}, text : Seq(Nat)]

CallType(n) == [at : WritePlaces, file : 0 .. n, before : Known, lost : Known,
                stale : BOOLEAN, crossed : BOOLEAN, aborted : BOOLEAN, early : BOOLEAN]

\* Nothing of this call is in any file.
Unwritten(c) == \A f \in DOMAIN files : \A k \in DOMAIN files[f] : files[f][k] # c

\* Of a call that opened its file, or asks the editor for the path's.
OwnFile(c) == IF port = "disk" THEN toolCall[c].file ELSE path

WriteShape(c) ==
  /\ toolCall[c].at \in {"absent", "open", "checked", "baseline", "same", "truncated"} => port = "disk"
  /\ toolCall[c].at \in {"reading", "answered", "asked", "left", "written"} => port # "disk"
  /\ toolCall[c].at \in {"open", "checked", "baseline", "same", "truncated"} => toolCall[c].file # 0
  /\ toolCall[c].at \in {"run", "absent", "open", "checked", "reading"} => toolCall[c].before = WriteTool!Unknown
  /\ toolCall[c].at \in {"run", "absent", "open", "checked", "baseline", "same", "reading", "answered",
                         "asked", "left"} => toolCall[c].lost = WriteTool!Unknown /\ Unwritten(c)
  /\ toolCall[c].at \in {"same", "truncated"} /\ ~toolCall[c].crossed => path = toolCall[c].file
  /\ toolCall[c].at = "truncated" /\ ~toolCall[c].crossed => files[path] = << >>
  /\ toolCall[c].at \in {"written", "done"} /\ ~toolCall[c].crossed =>
       path # 0 /\ files[path] = WriteTool!Full(c)
  /\ ~toolCall[c].stale /\ toolCall[c].before # WriteTool!Unknown =>
       /\ toolCall[c].at \in {"baseline", "same", "answered", "asked", "left"} =>
            files[OwnFile(c)] = toolCall[c].before.text
       /\ toolCall[c].at \in {"truncated", "written", "done"} =>
            toolCall[c].lost.text = toolCall[c].before.text
  /\ toolCall[c].early =>
       /\ toolCall[c].aborted /\ toolCall[c].lost = WriteTool!Unknown /\ Unwritten(c)
       /\ toolCall[c].at \in {"run", "absent", "open", "checked", "baseline", "same", "reading", "answered",
                              "failed"}

WriteInv ==
  /\ files \in Seq(Seq(Nat)) /\ path \in 0 .. Len(files)
  /\ port # "disk" => path # 0
  /\ toolCall \in [WriteCalls -> CallType(Len(files))]
  /\ \A c \in WriteCalls : WriteShape(c)
=============================================================================

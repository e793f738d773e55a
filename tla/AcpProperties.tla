---------------------------- MODULE AcpProperties ----------------------------
(***************************************************************************)
(* What the lease and the registries of an ACP process owe its clients.     *)
(***************************************************************************)
EXTENDS AcpSessions

AcpTypeOK ==
  /\ holder \in Conns \cup {None} /\ eviction.from \in Conns \cup {None}
  /\ \A i \in DOMAIN claims : request[claims[i]].phase = "claiming"
  /\ \A r \in Requests :
       /\ request[r].phase \in Phases /\ request[r].open \in Opens
       /\ request[r].phase = "claiming" <=> \E i \in DOMAIN claims : claims[i] = r
       /\ request[r].open = "restoring" => r \in live
  /\ \A c \in Conns : entry[c] # None => entry[c].by \in live
  /\ opening \cup deleting \cup borrowed \cup permitted \subseteq Conns

\* The private opening of a fork's parent, given up before it ended.
Abandoned(r) ==
  /\ request[r].method = "fork" /\ request[r].phase \in {"closing", "over"}
  /\ request[r].open \notin {"none", "open", "failed"}

\* A connection's runtime: on its way, or published.
RunsAt(r, c) ==
  r \in live /\ \/ Mine(r) = c /\ request[r].open \in {"restoring", "readying", "unwinding"}
                \/ entry[c] # None /\ entry[c].by = r

\* A connection has one runtime of the session at most, whatever its client asks without
\* waiting for answers (the guards of open.ts and sessions.ts).  And so has the process,
\* and its connection has the lease, whatever takes over whatever else; but for a runtime
\* that a fork gave up, which is on its way out, and for one whose load met a fork of the
\* same session on the same connection: the fork lets go of the lease that the load relies
\* on (lease.ts, open.ts; sessions.ts session/fork).  With the types.
OneServes ==
  /\ AcpTypeOK
  /\ \A c \in Conns : \A r, q \in Requests : RunsAt(r, c) /\ RunsAt(q, c) => r = q
  /\ \A r, q \in live : {r, q} \cap crossed = {} /\ ~Abandoned(r) /\ ~Abandoned(q) => r = q
  /\ \A c \in Conns :
       entry[c] # None /\ entry[c].by \notin crossed => holder = c

\* A journal is removed under no runtime of the connection that removes it, not one a fork
\* gave up either, and no client may open the session there meanwhile.  No other has the
\* session then, but for the runtimes that OneServes does not speak of, unless the
\* connection was letting go of the session when the delete began, or let go of it for a
\* change of credentials while the delete closed it: then the end of that close gives the
\* delete's lease away (sessions.ts session/delete, session/close, revokeAll).
DeletesAlone ==
  \A d \in Requests : request[d].phase = "removing" =>
    /\ \A r \in Requests : ~RunsAt(r, Mine(d))
    /\ Mine(d) \in deleting
    /\ d \notin crossed =>
         holder = Mine(d) /\ \A r \in live : Abandoned(r) \/ r \in crossed

\* "Process-wide record of which connection holds each session, so one process
\* runs at most one live runtime per session" (lease.ts), even if no client asks for a
\* session before what it asked of it is answered.
OneRuntime == \A r, q \in live : {r, q} \cap crossed = {} => r = q

\* "Another connection holding the session closes it first: never delete under a runtime"
\* (sessions.ts): while a journal is removed no client has the session open.
NeverUnderRuntime ==
  (\E d \in Requests : request[d].phase = "removing") => \A c \in Conns : entry[c] = None

-----------------------------------------------------------------------------
\* Promises settle: the lease goes on; what was cancelled unwinds; a restore, a
\* removal and the close of a runtime end.  A client, an MCP server, the host and
\* the prompt a fork waits for may take for ever.  Requests are bounded, so that it
\* is enough that something goes on when something can.
AcpProgress ==
  \/ LeaseStep
  \/ \E r \in Requests :
       \/ OpenStep(r) /\ (request[r].open \in {"options", "readying"} => Cancelled(r))
       \/ RequestStep(r) /\ (request[r].phase = "forking" => request[r].aborted)
  \/ \E c \in Conns : CloseStep(c)

AcpFairness == WF_acpVars(AcpProgress)

\* Claims are decided, though the holder's prompt, its MCP servers or its client never
\* answer: again and again none waits (lease.ts evict).
ClaimsEnd == []<>(\A r \in Requests : request[r].phase # "claiming")
=============================================================================

----------------------------- MODULE WebConsole -----------------------------
(***************************************************************************)
(* The web console: one session of the server (server/session-host.ts) and  *)
(* the browsers that show it (console/Console.tsx).  A browser has the      *)
(* events of the session pushed to it in order, over a connection that may  *)
(* break and is opened again; several browsers may have the same session.   *)
(* Forms, notices and attachments are left out.                             *)
(***************************************************************************)
EXTENDS Integers, Sequences, SequencesExt

CONSTANTS Browsers,
          Requests, \* permission requests, in the order the turns ask
          MaxTurns, \* bound: turns
          MaxDeltas, \* bound: pieces of text streamed
          MaxDrops  \* bound: connections that break

VARIABLES
  session, \* the runtime as the host sees it: its turn, and the text streamed so far
  pending, \* pendingPermissions; a turn asks for one at a time
  decided, \* the requests that were answered, and what the turn was told
  feed,    \* subscribers: the events on their way to each browser that is connected
  page,    \* what each browser shows
  drops    \* connections broken, counted

consoleVars == <<session, pending, decided, feed, page, drops>>

NoRequest == 0
Blank == [phase |-> "none", draft |-> << >>, permission |-> NoRequest, answering |-> NoRequest,
          lost |-> FALSE]

ConsoleInit ==
  /\ session = [phase |-> "idle", turn |-> 0, asked |-> 0, deltas |-> 0, known |-> TRUE]
  /\ pending = NoRequest /\ decided = [r \in Requests |-> "none"]
  /\ feed = [b \in Browsers |-> [open |-> FALSE, events |-> << >>]]
  /\ page = [b \in Browsers |-> Blank] /\ drops = 0

Snapshot(phase) == [kind |-> "snapshot", phase |-> phase, request |-> NoRequest, turn |-> 0]
Asked(r)        == [kind |-> "permission", phase |-> "none", request |-> r, turn |-> 0]
Cleared(r)      == [kind |-> "permission_clear", phase |-> "none", request |-> r, turn |-> 0]
Delta(t)        == [kind |-> "delta", phase |-> "none", request |-> NoRequest, turn |-> t]

Publish(events) ==
  feed' = [b \in Browsers |-> IF feed[b].open THEN [feed[b] EXCEPT !.events = @ \o events]
                              ELSE feed[b]]

-----------------------------------------------------------------------------
\* The runtime: every record it commits is observed, text is streamed, and a tool
\* that needs permission asks and waits.
TurnStarts ==
  /\ session.known /\ session.phase = "idle" /\ session.turn < MaxTurns
  /\ session' = [session EXCEPT !.phase = "running", !.turn = @ + 1]
  /\ Publish(<<Snapshot("running")>>) /\ UNCHANGED <<pending, decided, page, drops>>

Streams ==
  /\ session.known /\ session.phase = "running" /\ session.deltas < MaxDeltas /\ pending = NoRequest
  /\ session' = [session EXCEPT !.deltas = @ + 1]
  /\ Publish(<<Delta(session.turn)>>) /\ UNCHANGED <<pending, decided, page, drops>>

RequestsPermission(r) ==
  /\ session.known /\ session.phase = "running" /\ pending = NoRequest /\ r = session.asked + 1
  /\ session' = [session EXCEPT !.asked = r] /\ pending' = r
  /\ Publish(<<Snapshot("running"), Asked(r)>>) /\ UNCHANGED <<decided, page, drops>>

\* The request is aborted, with its turn or by a deadline.
AbortsRequest ==
  /\ session.known /\ pending # NoRequest
  /\ Publish(<<Cleared(pending)>>) /\ pending' = NoRequest
  /\ decided' = [decided EXCEPT ![pending] = "aborted"] /\ UNCHANGED <<session, page, drops>>

\* observe: whatever is still asked when the turn is over is taken back.
DropsPending == IF pending = NoRequest THEN << >> ELSE <<Cleared(pending)>>

TurnEnds ==
  /\ session.known /\ session.phase = "running"
  /\ session' = [session EXCEPT !.phase = "idle"]
  /\ pending' = NoRequest
  /\ decided' = IF pending = NoRequest THEN decided ELSE [decided EXCEPT ![pending] = "dropped"]
  /\ Publish(DropsPending \o <<Snapshot("idle")>>) /\ UNCHANGED <<page, drops>>

\* The server restarts: its sessions were in memory.
Restarts ==
  /\ session.known /\ drops < MaxDrops /\ drops' = drops + 1
  /\ session' = [session EXCEPT !.known = FALSE] /\ pending' = NoRequest
  /\ feed' = [b \in Browsers |-> [open |-> FALSE, events |-> << >>]]
  /\ UNCHANGED <<decided, page>>

-----------------------------------------------------------------------------
\* Mutant: a browser that connects is told what happens from then on.
Greeting_Snapshot == <<Snapshot(session.phase)>>

\* eventResponse: a browser that connects gets a snapshot and what is pending.
Greeting == <<Snapshot(session.phase)>>
              \o (IF pending = NoRequest THEN << >> ELSE <<Asked(pending)>>)

Connects(b) ==
  /\ ~feed[b].open /\ session.known
  /\ feed' = [feed EXCEPT ![b] = [open |-> TRUE, events |-> Greeting]]
  /\ page' = [page EXCEPT ![b].lost = @ \/ page[b].phase # "none"]
  /\ UNCHANGED <<session, pending, decided, drops>>

\* The session is unknown: the console starts over.
ConnectFails(b) ==
  /\ ~feed[b].open /\ ~session.known /\ page[b].phase # "none"
  /\ page' = [page EXCEPT ![b] = Blank]
  /\ UNCHANGED <<session, pending, decided, feed, drops>>

\* The connection breaks, and what was on its way is lost.
Breaks(b) ==
  /\ feed[b].open /\ drops < MaxDrops /\ drops' = drops + 1
  /\ feed' = [feed EXCEPT ![b] = [open |-> FALSE, events |-> << >>]]
  /\ UNCHANGED <<session, pending, decided, page>>

\* An idle snapshot puts the draft aside and takes the prompt away.
Idled(p) == [p EXCEPT !.phase = "idle", !.permission = NoRequest, !.draft = << >>]

Displays(p, e) ==
  CASE e.kind = "snapshot" /\ e.phase = "idle" -> Idled(p)
    [] e.kind = "snapshot" /\ e.phase # "idle" -> [p EXCEPT !.phase = e.phase]
    [] e.kind = "permission" -> [p EXCEPT !.permission = e.request]
    [] e.kind = "permission_clear" ->
         IF p.permission = e.request THEN [p EXCEPT !.permission = NoRequest] ELSE p
    [] e.kind = "delta" -> [p EXCEPT !.draft = Append(@, e.turn)]

Receives(b) ==
  /\ feed[b].open /\ feed[b].events # << >>
  /\ page' = [page EXCEPT ![b] = Displays(@, Head(feed[b].events))]
  /\ feed' = [feed EXCEPT ![b].events = Tail(@)]
  /\ UNCHANGED <<session, pending, decided, drops>>

-----------------------------------------------------------------------------
\* answerPermission: the user answers the prompt that is shown, once at a time.
Answers(b) ==
  /\ page[b].permission # NoRequest /\ page[b].answering = NoRequest
  /\ page' = [page EXCEPT ![b].answering = page[b].permission]
  /\ UNCHANGED <<session, pending, decided, feed, drops>>

\* The server gets it: the first answer counts, and one that comes late is refused.
AnswerArrives(b) ==
  LET r == page[b].answering
  IN  /\ r # NoRequest
      /\ page' = [page EXCEPT ![b].answering = NoRequest]
      /\ IF session.known /\ pending = r
           THEN /\ pending' = NoRequest /\ decided' = [decided EXCEPT ![r] = "answered"]
                /\ Publish(<<Cleared(r)>>)
           ELSE UNCHANGED <<pending, decided, feed>>
      /\ UNCHANGED <<session, drops>>

\* The answer's request is lost, with a notice.
AnswerLost(b) ==
  /\ page[b].answering # NoRequest /\ drops < MaxDrops /\ drops' = drops + 1
  /\ page' = [page EXCEPT ![b].answering = NoRequest]
  /\ UNCHANGED <<session, pending, decided, feed>>

ConsoleNext ==
  \/ TurnStarts \/ Streams \/ (\E r \in Requests : RequestsPermission(r)) \/ AbortsRequest
  \/ TurnEnds \/ Restarts
  \/ \E b \in Browsers : \/ Connects(b) \/ ConnectFails(b) \/ Breaks(b) \/ Receives(b)
                         \/ Answers(b) \/ AnswerArrives(b) \/ AnswerLost(b)

ConsoleSpec == ConsoleInit /\ [][ConsoleNext]_consoleVars

-----------------------------------------------------------------------------
ConsoleTypeOK ==
  /\ session.phase \in {"idle", "running"} /\ session.turn \in 0..MaxTurns
  /\ pending \in Requests \cup {NoRequest}
  /\ decided \in [Requests -> {"none", "answered", "aborted", "dropped"}]
  /\ \A b \in Browsers : /\ page[b].phase \in {"none", "idle", "running"}
                         /\ page[b].permission \in Requests \cup {NoRequest}
                         /\ page[b].answering \in Requests \cup {NoRequest}

Caught(b) == feed[b].open /\ feed[b].events = << >>

\* A browser that has caught up shows the request that waits for an answer, whenever
\* it connected and whoever else has the session; and when the turn is over, it shows
\* neither a prompt nor a draft.  One that never lost its connection shows no prompt
\* that somebody else has answered.
PageIsCurrent ==
  \A b \in Browsers : Caught(b) =>
    /\ page[b].phase = session.phase
    /\ pending # NoRequest => page[b].permission = pending
    /\ session.phase = "idle" => page[b].permission = NoRequest /\ page[b].draft = << >>
    /\ ~page[b].lost => page[b].permission = pending
=============================================================================

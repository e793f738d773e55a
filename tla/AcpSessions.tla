----------------------------- MODULE AcpSessions -----------------------------
(***************************************************************************)
(* One session among the connections of an ACP process: the lease that says *)
(* which connection has it (rpc/lease.ts), each connection's registry of    *)
(* open sessions and of operations in flight (rpc/sessions.ts), and the     *)
(* opening of a runtime (rpc/open.ts).  The lease and the registries work   *)
(* by session ID: sessions share no more than their connection's end and    *)
(* its credentials, and one is enough.                                      *)
(*                                                                         *)
(* A connection runs its handlers one at a time between their awaits; a     *)
(* step here is what runs from one await to the next.  What follows the end *)
(* of a close without another task in between belongs to that step.         *)
(***************************************************************************)
EXTENDS Integers, Sequences, FiniteSets

CONSTANTS
  Conns,        \* connections of the process
  None,         \* no connection, no request, no session
  MaxRequests,  \* bound: lifecycle requests of all connections
  MaxEnds       \* bound: connections that end, and changes of credentials

ASSUME AcpAssumption ==
  /\ MaxRequests \in Nat /\ MaxEnds \in Nat
  /\ None \notin Conns /\ None \notin 1..MaxRequests
  /\ None \notin [by : 1..MaxRequests, accepting : BOOLEAN, closing : BOOLEAN, releases : BOOLEAN]

Requests == 1..MaxRequests
Methods  == {"load", "fork", "delete", "close"}

VARIABLES
  holder,    \* lease: the connection that has the session
  claims,    \* lease: requests whose claims have not been decided, in order
  eviction,  \* lease: how far the eviction for the first claim has come
  request,   \* lifecycle requests
  entry,     \* sessions: what a connection has open
  operation, \* operations: the open, fork or delete in flight on a connection
  opening, deleting, borrowed, \* connections at which the session is being opened, ...
  conn,      \* connections
  permitted, \* connections whose credentials give access
  live,      \* requests whose runtime exists
  ends,      \* connections that ended and credentials that changed, counted
  crossed    \* requests that met another one of their connection that lets go of the lease
             \* they rely on; nothing but the properties reads it

acpVars == <<holder, claims, eviction, request, entry, operation, opening, deleting, borrowed,
             conn, permitted, live, ends, crossed>>

NoRequest  == [conn |-> None, method |-> "none", phase |-> "none", open |-> "none",
               aborted |-> FALSE, stopped |-> FALSE, claimed |-> FALSE, borrowed |-> FALSE]
Ended      == [NoRequest EXCEPT !.phase = "over"]
NoEviction == [stage |-> "none", from |-> None, operation |-> None, closes |-> None]

\* A request is claiming the lease, opening a runtime, forking, closing what is
\* open, removing the journal, or over.  Opening a runtime resolves its options,
\* restores the session, waits for the host to be ready, publishes and flushes; it
\* unwinds the runtime, and fails, when it is cancelled on the way.
Phases == {"none", "claiming", "opening", "forking", "closing", "removing", "settling",
           "over"}
Opens  == {"none", "options", "restoring", "readying", "flushing", "open", "unwinding",
           "failing", "failed"}

Access(c) == conn[c] = "open" /\ c \in permitted
Over(r)   == request[r].phase = "over"
Mine(r)   == request[r].conn

\* Clears the operation of a settled request, unless another has replaced it.
SettledAt(c, r) == IF operation[c] = r THEN [operation EXCEPT ![c] = None] ELSE operation

\* Mutant: a connection gives up a lease that is no longer its own.
ReleasedBy_Any(c) == None

ReleasedBy(c) == IF holder = c THEN None ELSE holder

\* close: it starts once, and whoever wants it to give up the lease adds that.
Closing(e, releases) ==
  [e EXCEPT !.closing = TRUE, !.accepting = FALSE, !.releases = @ \/ releases]
ClosingAt(c) == entry[c] # None /\ entry[c].closing

-----------------------------------------------------------------------------
\* Requests of clients.  The next one unused is taken.
Next1(r) == request[r].phase = "none" /\ \A q \in 1..(r - 1) : request[q].phase # "none"

Asks(r, c, method, phase, borrows) ==
  request' = [request EXCEPT ![r] = [NoRequest EXCEPT !.conn = c, !.method = method,
                                                      !.phase = phase, !.borrowed = borrows]]

\* A load of a session that is borrowed for a fork, which will let go of the lease, and the
\* other way round.
InFlight(c, q) == request[q].conn = c /\ request[q].phase \notin {"none", "over"}
Borrowers(c)   == {q \in Requests : InFlight(c, q) /\ request[q].borrowed}
Loaders(c)     == {q \in Requests : InFlight(c, q) /\ request[q].method = "load"}
Crosses(r, qs) == crossed' = IF qs = {} THEN crossed ELSE crossed \cup qs \cup {r}

\* session/load and session/resume.
LoadStarts(r, c) ==
  /\ Next1(r) /\ Access(c)
  /\ entry[c] = None /\ c \notin opening \cup deleting
  /\ Asks(r, c, "load", "claiming", FALSE)
  /\ opening' = opening \cup {c} /\ operation' = [operation EXCEPT ![c] = r]
  /\ claims' = Append(claims, r) /\ Crosses(r, Borrowers(c))
  /\ UNCHANGED <<holder, eviction, entry, deleting, borrowed, conn, permitted, live, ends>>

\* session/fork of a session that is open, or that is borrowed for it.
ForkStarts(r, c) ==
  /\ Next1(r) /\ Access(c) /\ c \notin deleting \cup borrowed
  /\ IF entry[c] # None
       THEN /\ Asks(r, c, "fork", "forking", FALSE)
            /\ UNCHANGED <<borrowed, operation, claims, crossed>>
       ELSE /\ Asks(r, c, "fork", "claiming", TRUE)
            /\ borrowed' = borrowed \cup {c} /\ operation' = [operation EXCEPT ![c] = r]
            /\ claims' = Append(claims, r) /\ Crosses(r, Loaders(c))
  /\ UNCHANGED <<holder, eviction, entry, opening, deleting, conn, permitted, live, ends>>

\* session/delete.  It may find what is open here closing, to let go of the lease.
DeleteStarts(r, c) ==
  /\ Next1(r) /\ Access(c) /\ c \notin opening \cup borrowed \cup deleting
  /\ Asks(r, c, "delete", "claiming", FALSE)
  /\ deleting' = deleting \cup {c} /\ operation' = [operation EXCEPT ![c] = r]
  /\ claims' = Append(claims, r)
  /\ crossed' = IF entry[c] # None /\ entry[c].releases THEN crossed \cup {r} ELSE crossed
  /\ UNCHANGED <<holder, eviction, entry, opening, borrowed, conn, permitted, live, ends>>

\* session/close needs no access.
CloseStarts(r, c) ==
  /\ Next1(r) /\ conn[c] = "open"
  /\ c \notin deleting \cup borrowed /\ entry[c] # None
  /\ Asks(r, c, "close", "closing", FALSE)
  /\ entry' = [entry EXCEPT ![c] = Closing(@, TRUE)]
  /\ UNCHANGED <<holder, claims, eviction, operation, opening, deleting, borrowed, conn,
                 permitted, live, ends, crossed>>

\* The client cancels a request: the SDK aborts its signal.
Cancels(r) ==
  /\ request[r].phase \notin {"none", "over"} /\ ~request[r].aborted
  /\ request[r].method # "close"
  /\ request' = [request EXCEPT ![r].aborted = TRUE]
  /\ UNCHANGED <<holder, claims, eviction, entry, operation, opening, deleting, borrowed, conn,
                 permitted, live, ends, crossed>>

-----------------------------------------------------------------------------
\* The lease.  Claims of one session run one at a time.
First(r) == claims # << >> /\ Head(claims) = r

\* Mutant: a delete removes the journal before it closes the session.
AfterClaim_Removes(q) ==
  [q EXCEPT !.phase = IF q.method = "delete" THEN "removing" ELSE "opening",
            !.open = IF q.method = "load" THEN "options" ELSE @]

\* What a claim that landed goes on with.  A load that was cancelled meanwhile
\* fails; a fork then gives its borrowed parent back; a delete closes first.
AfterClaim(q) ==
  CASE q.method = "load" /\ q.aborted  -> [q EXCEPT !.phase = "opening", !.open = "failing"]
    [] q.method = "load" /\ ~q.aborted -> [q EXCEPT !.phase = "opening", !.open = "options"]
    [] q.method = "fork"               -> [q EXCEPT !.phase = "opening"]
    [] q.method = "delete"             -> [q EXCEPT !.phase = "closing"]

\* The holder is told at once, and marks whatever operation it has in flight.
Lands(r) ==
  LET c == Mine(r) IN
  /\ holder' = c /\ claims' = Tail(claims) /\ eviction' = NoEviction
  /\ request' = [q \in Requests |->
       LET told == IF operation[c] = q THEN [request[q] EXCEPT !.claimed = TRUE] ELSE request[q]
       IN IF q = r THEN AfterClaim(told) ELSE told]

\* A claim that is refused fails its request.
Refused(q) ==
  CASE q.method = "load"   -> [q EXCEPT !.phase = "opening", !.open = "failing"]
    [] q.method = "fork"   -> [q EXCEPT !.phase = "opening", !.open = "failed"]
    [] q.method = "delete" -> [q EXCEPT !.phase = "settling"]

\* A claim cancelled while it waited for earlier ones takes nothing over.
ClaimCancelled(r) ==
  /\ First(r) /\ eviction = NoEviction /\ request[r].aborted
  /\ claims' = Tail(claims) /\ request' = [request EXCEPT ![r] = Refused(@)]
  /\ UNCHANGED <<holder, eviction, entry, operation, opening, deleting, borrowed, conn,
                 permitted, live, ends, crossed>>

ClaimLands(r) ==
  /\ First(r) /\ eviction = NoEviction /\ ~request[r].aborted /\ holder \in {None, Mine(r)}
  /\ Lands(r)
  /\ UNCHANGED <<entry, operation, opening, deleting, borrowed, conn, permitted, live, ends,
                 crossed>>

EvictBegins(r) ==
  /\ First(r) /\ eviction = NoEviction /\ ~request[r].aborted /\ holder \notin {None, Mine(r)}
  /\ eviction' = [NoEviction EXCEPT !.stage = "stopping", !.from = holder]
  /\ UNCHANGED <<holder, claims, request, entry, operation, opening, deleting, borrowed, conn,
                 permitted, live, ends, crossed>>

\* Mutant: an operation that has not claimed yet is waited for as well.
Displaced_Any(c) == operation[c]

\* The operation that an eviction aborts: one still queued for its own claim is newer.
Displaced(c) ==
  IF operation[c] # None /\ request[operation[c]].claimed THEN operation[c] ELSE None

\* A connection that is ending is let end; then its operation is aborted.
EvictAborts ==
  /\ eviction.stage = "stopping" /\ conn[eviction.from] # "stopping"
  /\ LET o == Displaced(eviction.from) IN
       /\ eviction' = [eviction EXCEPT !.stage = "operation", !.operation = o]
       /\ request' = IF o = None THEN request ELSE [request EXCEPT ![o].aborted = TRUE]
  /\ UNCHANGED <<holder, claims, entry, operation, opening, deleting, borrowed, conn, permitted,
                 live, ends, crossed>>

\* When the operation has settled, what the connection has open is closed.
EvictCloses ==
  /\ eviction.stage = "operation" /\ (eviction.operation # None => Over(eviction.operation))
  /\ eviction' = [eviction EXCEPT !.stage = "closing",
       !.closes = IF entry[eviction.from] = None THEN None ELSE entry[eviction.from].by]
  /\ entry' = IF entry[eviction.from] = None THEN entry
              ELSE [entry EXCEPT ![eviction.from] = Closing(@, FALSE)]
  /\ UNCHANGED <<holder, claims, request, operation, opening, deleting, borrowed, conn, permitted,
                 live, ends, crossed>>

\* What it closed, if anything, is no longer open; something else may be.
Evicted ==
  /\ eviction.stage = "closing"
  /\ entry[eviction.from] # None => entry[eviction.from].by # eviction.closes

EvictEnds(r) ==
  /\ First(r) /\ Evicted
  /\ Lands(r)
  /\ UNCHANGED <<entry, operation, opening, deleting, borrowed, conn, permitted, live, ends,
                 crossed>>

\* The holder did not close cleanly: the claim is refused, and the holder let go.
EvictFails(r) ==
  /\ First(r) /\ Evicted /\ eviction.closes # None
  /\ holder' = ReleasedBy(eviction.from)
  /\ claims' = Tail(claims) /\ eviction' = NoEviction
  /\ request' = [request EXCEPT ![r] = Refused(@)]
  /\ UNCHANGED <<entry, operation, opening, deleting, borrowed, conn, permitted, live, ends,
                 crossed>>

-----------------------------------------------------------------------------
\* Opening a runtime.
Cancelled(r) == request[r].aborted \/ request[r].stopped
Visible(r)   == request[r].method = "load"
Opening(r, open) == request' = [request EXCEPT ![r].open = open]

\* A fork opens its parent for itself, unless that is being opened or deleted here
\* already: then it gives up, and returns what it borrowed.
BorrowStarts(r) ==
  LET c == Mine(r) IN
  /\ request[r].method = "fork" /\ request[r].phase = "opening" /\ request[r].open = "none"
  /\ ~request[r].aborted /\ Access(c) /\ entry[c] = None /\ c \notin opening \cup deleting
  /\ opening' = opening \cup {c} /\ Opening(r, "options")
  /\ UNCHANGED <<holder, claims, eviction, entry, operation, deleting, borrowed, conn, permitted,
                 live, ends, crossed>>

OptionsResolve(r) ==
  /\ request[r].open = "options"
  /\ IF Cancelled(r) \/ ~Access(Mine(r))
       THEN Opening(r, "failing") /\ UNCHANGED live
       ELSE Opening(r, "restoring") /\ live' = live \cup {r}
  /\ UNCHANGED <<holder, claims, eviction, entry, operation, opening, deleting, borrowed, conn,
                 permitted, ends, crossed>>

\* An MCP server, or the host's options, fail.
OptionsFail(r) ==
  /\ request[r].open = "options" /\ Opening(r, "failing")
  /\ UNCHANGED <<holder, claims, eviction, entry, operation, opening, deleting, borrowed, conn,
                 permitted, live, ends, crossed>>

RestoreFails(r) ==
  /\ request[r].open = "restoring" /\ Opening(r, "failing") /\ live' = live \ {r}
  /\ UNCHANGED <<holder, claims, eviction, entry, operation, opening, deleting, borrowed, conn,
                 permitted, ends, crossed>>

Unwanted(r) ==
  \/ conn[Mine(r)] # "open" \/ Cancelled(r)
  \/ entry[Mine(r)] # None \/ Mine(r) \in deleting

Restores(r) ==
  /\ request[r].open = "restoring"
  /\ Opening(r, IF Unwanted(r) THEN "unwinding" ELSE "readying")
  /\ UNCHANGED <<holder, claims, eviction, entry, operation, opening, deleting, borrowed, conn,
                 permitted, live, ends, crossed>>

\* The session is published, unless it was cancelled while the host got ready.
Publishes(r) ==
  /\ request[r].open = "readying"
  /\ IF Cancelled(r) \/ ~Access(Mine(r))
       THEN Opening(r, "unwinding") /\ UNCHANGED entry
       ELSE /\ Opening(r, "flushing")
            /\ entry' = [entry EXCEPT ![Mine(r)] =
                 [by |-> r, accepting |-> Visible(r), closing |-> FALSE, releases |-> FALSE]]
  /\ UNCHANGED <<holder, claims, eviction, operation, opening, deleting, borrowed, conn, permitted,
                 live, ends, crossed>>

Unwinds(r) ==
  /\ request[r].open = "unwinding" /\ Opening(r, "failing") /\ live' = live \ {r}
  /\ UNCHANGED <<holder, claims, eviction, entry, operation, opening, deleting, borrowed, conn,
                 permitted, ends, crossed>>

Flushes(r) ==
  /\ request[r].open = "flushing"
  /\ opening' = opening \ {Mine(r)}
  /\ request' = [request EXCEPT ![r] = IF Visible(r) THEN Ended ELSE [@ EXCEPT !.open = "open"]]
  /\ operation' = IF Visible(r) THEN SettledAt(Mine(r), r) ELSE operation
  /\ UNCHANGED <<holder, claims, eviction, entry, deleting, borrowed, conn, permitted, live, ends,
                 crossed>>

\* Only a visible open claimed, and lets go of, the lease.
OpenFails(r) ==
  /\ request[r].open = "failing"
  /\ opening' = opening \ {Mine(r)}
  /\ request' = [request EXCEPT ![r] =
       IF Visible(r) \/ Over(r) THEN Ended ELSE [@ EXCEPT !.open = "failed"]]
  /\ IF Visible(r)
       THEN holder' = ReleasedBy(Mine(r)) /\ operation' = SettledAt(Mine(r), r)
       ELSE UNCHANGED <<holder, operation>>
  /\ UNCHANGED <<claims, eviction, entry, deleting, borrowed, conn, permitted, live, ends, crossed>>

-----------------------------------------------------------------------------
\* A fork goes on when its parent is open, and ends when the child is, or when it
\* fails or is cancelled.
ForkGoesOn(r) ==
  /\ request[r].method = "fork" /\ request[r].phase = "opening" /\ request[r].open = "open"
  /\ request' = [request EXCEPT ![r].phase = "forking"]
  /\ UNCHANGED <<holder, claims, eviction, entry, operation, opening, deleting, borrowed, conn,
                 permitted, live, ends, crossed>>

\* Its parent's opening was refused, failed, or is still under way when it is cancelled.
Abandons(r) ==
  LET c == Mine(r) IN
  /\ request[r].phase = "opening"
  /\ \/ request[r].open = "failed" \/ request[r].aborted
     \/ request[r].open = "none" /\ (~Access(c) \/ entry[c] # None \/ c \in opening \cup deleting)

\* What it borrowed is to close; if it never got that far, what another request has
\* opened here is.
Gives(r) ==
  request[r].method = "fork" /\ (request[r].phase = "forking" \/ Abandons(r))
Returns(r) ==
  /\ request[r].borrowed /\ entry[Mine(r)] # None
  /\ request[r].open = "open" => entry[Mine(r)].by = r

ForkReturns(r) ==
  /\ Gives(r) /\ Returns(r)
  /\ request' = [request EXCEPT ![r].phase = "closing"]
  /\ entry' = [entry EXCEPT ![Mine(r)] = Closing(@, TRUE)]
  /\ UNCHANGED <<holder, claims, eviction, operation, opening, deleting, borrowed, conn, permitted,
                 live, ends, crossed>>

\* A private opening that is still under way goes on by itself.
ForkEnds(r) ==
  LET c == Mine(r) IN
  /\ \/ request[r].method = "fork" /\ request[r].phase = "closing" /\ ~ClosingAt(c)
     \/ Gives(r) /\ ~Returns(r)
  /\ request' = [request EXCEPT ![r] =
       IF request[r].open \in {"none", "open", "failed"} THEN Ended
       ELSE [@ EXCEPT !.phase = "over"]]
  /\ IF request[r].borrowed
       THEN borrowed' = borrowed \ {c} /\ holder' = ReleasedBy(c) /\ operation' = SettledAt(c, r)
       ELSE UNCHANGED <<borrowed, holder, operation>>
  /\ UNCHANGED <<claims, eviction, entry, opening, deleting, conn, permitted, live, ends, crossed>>

\* A delete closes what its own connection has open; it goes no further when that fails.
DeleteCloses(r) ==
  LET c == Mine(r) IN
  /\ request[r].method = "delete" /\ request[r].phase = "closing"
  /\ IF entry[c] = None
       THEN /\ \E phase \in {"removing", "settling"} :
                 /\ request[r].aborted => phase = "settling"
                 /\ request' = [request EXCEPT ![r].phase = phase]
            /\ UNCHANGED entry
       ELSE /\ ~entry[c].closing /\ UNCHANGED request
            /\ entry' = [entry EXCEPT ![c] = Closing(@, FALSE)]
  /\ UNCHANGED <<holder, claims, eviction, operation, opening, deleting, borrowed, conn, permitted,
                 live, ends, crossed>>

\* The journal is removed, or not if the delete was cancelled or refused before.
DeleteEnds(r) ==
  LET c == Mine(r) IN
  /\ request[r].method = "delete" /\ request[r].phase \in {"removing", "settling"}
  /\ request' = [request EXCEPT ![r] = Ended]
  /\ deleting' = deleting \ {c} /\ holder' = ReleasedBy(c) /\ operation' = SettledAt(c, r)
  /\ UNCHANGED <<claims, eviction, entry, opening, borrowed, conn, permitted, live, ends, crossed>>

CloseAnswers(r) ==
  /\ request[r].method = "close" /\ request[r].phase = "closing" /\ ~ClosingAt(Mine(r))
  /\ request' = [request EXCEPT ![r] = Ended]
  /\ UNCHANGED <<holder, claims, eviction, entry, operation, opening, deleting, borrowed, conn,
                 permitted, live, ends, crossed>>

\* The runtime has closed: the session leaves the registry and, where that was
\* wanted, the lease.
CloseEnds(c) ==
  /\ ClosingAt(c) /\ conn[c] # "stopping"
  /\ live' = live \ {entry[c].by}
  /\ entry' = [entry EXCEPT ![c] = None]
  /\ holder' = IF entry[c].releases THEN ReleasedBy(c) ELSE holder
  /\ UNCHANGED <<claims, eviction, request, operation, opening, deleting, borrowed, conn, permitted,
                 ends, crossed>>

-----------------------------------------------------------------------------
\* Ends of connections and of credentials.
OfConn(c, q) == request[q].conn = c /\ ~Over(q)

\* The transport closes: every operation is aborted and every session closed.
Disconnects(c) ==
  /\ conn[c] = "open" /\ ends < MaxEnds /\ ends' = ends + 1
  /\ conn' = [conn EXCEPT ![c] = "stopping"]
  /\ request' = [q \in Requests |->
       IF OfConn(c, q) THEN [request[q] EXCEPT !.aborted = TRUE]
       ELSE IF request[q].conn = c THEN [request[q] EXCEPT !.stopped = TRUE] ELSE request[q]]
  /\ entry' = IF entry[c] = None THEN entry ELSE [entry EXCEPT ![c] = Closing(@, TRUE)]
  /\ UNCHANGED <<holder, claims, eviction, operation, opening, deleting, borrowed, permitted, live,
                 crossed>>

ShutdownEnds(c) ==
  /\ conn[c] = "stopping"
  /\ conn' = [conn EXCEPT ![c] = "closed"]
  /\ IF entry[c] = None THEN UNCHANGED <<entry, live, holder>>
     ELSE /\ entry' = [entry EXCEPT ![c] = None] /\ live' = live \ {entry[c].by}
          /\ holder' = ReleasedBy(c)
  /\ UNCHANGED <<claims, eviction, request, operation, opening, deleting, borrowed, permitted, ends,
                 crossed>>

\* authenticate and logout first end all that was opened with the old credentials:
\* the opening of a session, also one for a fork, and the sessions that are open, though
\* one may be open only until a delete has closed it.
Revokes(c) ==
  /\ Access(c) /\ ends < MaxEnds /\ ends' = ends + 1
  /\ permitted' = permitted \ {c}
  /\ request' = [q \in Requests |->
       IF request[q].conn = c /\ (\/ request[q].open \notin {"none", "open", "failed"}
                                  \/ ~Over(q) /\ request[q].method = "load")
         THEN [request[q] EXCEPT !.stopped = TRUE, !.aborted = @ \/ request[q].method = "load"]
         ELSE request[q]]
  /\ entry' = IF entry[c] = None THEN entry ELSE [entry EXCEPT ![c] = Closing(@, TRUE)]
  /\ crossed' = crossed \cup
       {q \in Requests : InFlight(c, q) /\ request[q].method = "delete" /\ entry[c] # None}
  /\ UNCHANGED <<holder, claims, eviction, operation, opening, deleting, borrowed, conn, live>>

Permits(c) ==
  /\ conn[c] = "open" /\ c \notin permitted /\ entry[c] = None
  /\ permitted' = permitted \cup {c}
  /\ UNCHANGED <<holder, claims, eviction, request, entry, operation, opening, deleting, borrowed,
                 conn, live, ends, crossed>>

-----------------------------------------------------------------------------
AcpInit ==
  /\ holder = None /\ claims = << >> /\ eviction = NoEviction
  /\ request = [r \in Requests |-> NoRequest]
  /\ entry = [c \in Conns |-> None] /\ operation = [c \in Conns |-> None]
  /\ opening = {} /\ deleting = {} /\ borrowed = {}
  /\ conn = [c \in Conns |-> "open"] /\ permitted = Conns
  /\ live = {} /\ ends = 0 /\ crossed = {}

Asked(r) ==
  \E c \in Conns : LoadStarts(r, c) \/ ForkStarts(r, c) \/ DeleteStarts(r, c) \/ CloseStarts(r, c)

LeaseStep ==
  \/ \E r \in Requests : ClaimCancelled(r) \/ ClaimLands(r) \/ EvictBegins(r) \/ EvictEnds(r)
  \/ EvictAborts \/ EvictCloses

OpenStep(r) ==
  \/ BorrowStarts(r) \/ OptionsResolve(r) \/ Restores(r) \/ Publishes(r) \/ Unwinds(r)
  \/ Flushes(r) \/ OpenFails(r)

RequestStep(r) ==
  \/ ForkGoesOn(r) \/ ForkReturns(r) \/ ForkEnds(r) \/ DeleteCloses(r) \/ DeleteEnds(r)
  \/ CloseAnswers(r)

CloseStep(c) == CloseEnds(c) \/ ShutdownEnds(c)

\* A claim whose turn has come is decided before a message is taken from a client.
Quiet == claims # << >> => eviction # NoEviction

Client ==
  \/ \E r \in Requests : Asked(r) \/ Cancels(r)
  \/ \E c \in Conns : Disconnects(c) \/ Revokes(c)

AcpNext ==
  \/ LeaseStep
  \/ Quiet /\ Client
  \/ \E r \in Requests : \/ OpenStep(r) \/ RequestStep(r)
                         \/ OptionsFail(r) \/ RestoreFails(r) \/ EvictFails(r)
  \/ \E c \in Conns : CloseStep(c) \/ Permits(c)

AcpSpec == AcpInit /\ [][AcpNext]_acpVars
==============================================================================

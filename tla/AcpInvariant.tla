----------------------------- MODULE AcpInvariant -----------------------------
(***************************************************************************)
(* Why one connection serves a session: who may hold the lease, what it has *)
(* in flight, and what an eviction still waits for, in every state; and why *)
(* the prompts and forks of an open session take turns.                     *)
(***************************************************************************)
EXTENDS AcpServing

-----------------------------------------------------------------------------
\* Types.
RequestType == [conn : Conns \cup {None}, method : Methods \cup {"none"}, phase : Phases,
                open : Opens, aborted : BOOLEAN, stopped : BOOLEAN, claimed : BOOLEAN,
                borrowed : BOOLEAN]
EntryType   == [by : Requests, accepting : BOOLEAN, closing : BOOLEAN, releases : BOOLEAN]
Stages      == {"none", "stopping", "operation", "closing"}

LeaseType ==
  /\ holder \in Conns \cup {None}
  /\ claims \in Seq(Requests)
  /\ eviction \in [stage : Stages, from : Conns \cup {None},
                   operation : Requests \cup {None}, closes : Requests \cup {None}]
  /\ request \in [Requests -> RequestType]
  /\ entry \in [Conns -> EntryType \cup {None}]
  /\ operation \in [Conns -> Requests \cup {None}]
  /\ opening \in SUBSET Conns /\ deleting \in SUBSET Conns
  /\ borrowed \in SUBSET Conns /\ permitted \in SUBSET Conns
  /\ conn \in [Conns -> {"open", "stopping", "closed"}]
  /\ live \in SUBSET Requests

-----------------------------------------------------------------------------
\* A request that has begun and is not over.
Busy(r)     == request[r].phase \notin {"none", "over"}
\* One that opens or removes a session, or borrows one: it claims the lease.
Claimant(r) == request[r].method \in {"load", "delete"} \/ request[r].borrowed
Lends(r)    == Busy(r) /\ request[r].borrowed
Deletes(r)  == Busy(r) /\ request[r].method = "delete"
\* A runtime on its way that is not published, and one that may still be.
Underway(r) == request[r].open \in {"options", "restoring", "readying", "unwinding"}
Opener(r)   == \/ request[r].open \in {"options", "restoring", "readying", "flushing", "unwinding",
                                        "failing"}
               \/ request[r].method = "load" /\ request[r].phase = "claiming"
\* What a request does only with the lease.
Relies(r)   == \/ request[r].phase = "opening" /\ (Underway(r) \/ request[r].open = "none")
               \/ request[r].phase = "removing"
               \/ request[r].phase = "closing" /\ request[r].method = "delete" /\ ~request[r].aborted

\* What a request may be at.
Shape(r) ==
  /\ request[r].phase = "none" => request[r] = NoRequest
  /\ Busy(r) => request[r].conn \in Conns /\ request[r].method \in Methods
  /\ request[r].phase \in {"claiming", "none"} => request[r].open = "none"
  /\ request[r].phase = "claiming" => Claimant(r) /\ (r \notin crossed => ~request[r].claimed)
  /\ request[r].phase = "opening" => request[r].method \in {"load", "fork"}
  /\ request[r].phase \in {"removing", "settling"} => request[r].method = "delete"
  /\ request[r].method = "load" /\ request[r].phase # "claiming" =>
       request[r].phase = "opening" /\ Opener(r)
  /\ request[r].method \in {"delete", "close"} => request[r].open = "none"
  /\ request[r].open # "none" => request[r].conn \in Conns /\ Claimant(r)
  /\ request[r].method = "fork" /\ request[r].phase = "opening" => request[r].borrowed
  /\ request[r].method = "fork" /\ request[r].phase = "forking" =>
       request[r].open \in {"none", "open"}
  /\ request[r].method = "fork" /\ request[r].phase \in {"closing", "over"} /\ Underway(r) =>
       Cancelled(r)
  /\ request[r].borrowed => request[r].method = "fork"
  /\ request[r].claimed => Claimant(r)
  /\ Relies(r) /\ r \notin crossed => request[r].claimed

\* An ended connection has aborted all it had in flight.
Cut == \A r \in Requests : Busy(r) /\ conn[Mine(r)] # "open" => request[r].aborted

\* The operation of a connection claims the lease, and is the last one that does.
Operating ==
  /\ \A c \in Conns : operation[c] # None =>
       Busy(operation[c]) /\ Mine(operation[c]) = c /\ Claimant(operation[c])
  /\ \A r \in Requests : Busy(r) /\ Claimant(r) /\ r \notin crossed => operation[Mine(r)] = r

\* On a connection one request at a time opens the session, one borrows it and one
\* deletes it; only a load and a fork that borrows may meet.
OneOfEach ==
  /\ \A q, r \in Requests : Opener(q) /\ Opener(r) /\ Mine(q) = Mine(r) => q = r
  /\ \A q, r \in Requests : Lends(q) /\ Lends(r) /\ Mine(q) = Mine(r) => q = r
  /\ \A q, r \in Requests : Deletes(q) /\ Deletes(r) /\ Mine(q) = Mine(r) => q = r
  /\ \A r \in Requests :
       /\ Opener(r)  => Mine(r) \in opening \ deleting
       /\ Lends(r)   => Mine(r) \in borrowed \ deleting
       /\ Deletes(r) => Mine(r) \in deleting
  /\ \A q, r \in Requests :
       Busy(q) /\ request[q].method = "load" /\ Lends(r) /\ Mine(q) = Mine(r) =>
         {q, r} \subseteq crossed

-----------------------------------------------------------------------------
\* Claims wait once each; a cancelled one takes nothing from its own connection.
ClaimsInOrder ==
  /\ \A i, j \in DOMAIN claims : claims[i] = claims[j] => i = j
  /\ \A i \in DOMAIN claims : request[claims[i]].phase = "claiming"
  /\ \A r \in Requests : request[r].phase = "claiming" => \E i \in DOMAIN claims : claims[i] = r
  /\ \A r \in Requests :
       /\ request[r].phase = "claiming" /\ request[r].aborted /\ eviction = NoEviction
       /\ r \notin crossed \/ request[r].method = "delete"
       => holder # Mine(r)

\* An eviction is of the holder, for another connection's claim, and waits for the
\* operation it found there and for what it closed.
Evicting ==
  eviction # NoEviction =>
    /\ claims # << >> /\ eviction.stage # "none" /\ eviction.from \in Conns
    /\ holder \in {None, eviction.from} /\ Mine(Head(claims)) # eviction.from
    /\ \A r \in Requests :
         Busy(r) /\ request[r].claimed /\ r \notin crossed /\ Mine(r) = eviction.from =>
           \/ eviction.stage = "stopping"
           \/ eviction.stage = "operation" /\ eviction.operation = r /\ request[r].aborted
    /\ eviction.stage = "closing" /\ entry[eviction.from] # None =>
         entry[eviction.from].by \in {eviction.closes} \cup crossed

\* What needs the lease has it.
Held ==
  /\ \A c \in Conns : entry[c] # None /\ entry[c].by \notin crossed => holder = c
  /\ \A r \in Requests : Relies(r) /\ r \notin crossed => holder = Mine(r)

\* A session is not published where another is opened, or one removed; what is, where
\* one is borrowed, is the borrowed one; and its close lets go of no delete's lease.
Unpublished ==
  /\ \A r \in Requests : Opener(r) /\ request[r].open # "flushing" => entry[Mine(r)] = None
  /\ \A r \in Requests : request[r].phase = "removing" => entry[Mine(r)] = None
  /\ \A r \in Requests : Busy(r) /\ entry[Mine(r)] # None =>
       /\ request[r].phase = "settling" => entry[Mine(r)].by \in crossed
       /\ Lends(r) => \/ {r, entry[Mine(r)].by} \subseteq crossed
                      \/ /\ entry[Mine(r)].by = r
                         /\ request[r].phase = "closing" => entry[Mine(r)].closing
       /\ Deletes(r) /\ r \notin crossed /\ entry[Mine(r)].releases => request[r].aborted

\* What is published is a runtime of its connection.
Published ==
  /\ \A c \in Conns : entry[c] # None =>
       LET r == entry[c].by IN
         /\ r \in live /\ (request[r].open \in {"flushing", "open"} \/ request[r] = Ended)
         /\ request[r].conn \in {c, None}
  /\ \A c, d \in Conns : entry[c] # None /\ entry[d] # None /\ entry[c].by = entry[d].by => c = d

\* A runtime is on its way or published.
Runtimes ==
  /\ \A r \in live : request[r].open \in {"restoring", "readying", "unwinding"}
                      \/ \E c \in Conns : entry[c] # None /\ entry[c].by = r
  /\ \A r \in Requests : request[r].open \in {"restoring", "readying", "unwinding"} => r \in live

AcpInv ==
  /\ LeaseType /\ (\A r \in Requests : Shape(r)) /\ Cut /\ Operating /\ OneOfEach
  /\ ClaimsInOrder /\ Evicting /\ Held /\ Unpublished /\ Published /\ Runtimes

-----------------------------------------------------------------------------
\* Why prompts and forks take turns.

\* The prompt that has the session is the one that works on it, and the one that a
\* fork would wait for.
OneHolds ==
  /\ \A p \in Prompts : prompt[p].phase \in Prompt!Holding <=> active = p
  /\ active # Nobody => promptDone = active

\* A turn is handed over and over within its prompt, and an abort reaches a prompt
\* that has the session.
TurnsWithin ==
  \A p \in Prompts :
    /\ prompt[p].phase \in {"none", "quiet", "exporting", "reading"} => turn[p] = "none"
    /\ prompt[p].phase \in {"flushing", "over"} => turn[p] \notin {"posted", "running"}
    /\ prompt[p].aborted => \/ prompt[p].phase \in Prompt!Holding
                            \/ prompt[p].phase = "over" /\ prompt[p].answer = "cancelled"

\* Forks come in order, the last one is the tail, and a fork that has had its turn to
\* wait comes behind forks that are over.
ForksInLine ==
  /\ forkTail # Nobody => fork[forkTail].phase # "none"
  /\ \A f \in Forks : fork[f].phase # "none" => forkTail # Nobody /\ f <= forkTail
  /\ \A f, g \in Forks : g < f /\ fork[f].phase # "none" =>
       /\ fork[g].phase # "none"
       /\ fork[f].phase # "queued" => fork[g].phase = "over"
       /\ fork[f].phase = "queued" => fork[f].after # Nobody /\ g <= fork[f].after
  /\ \A f \in Forks : fork[f].phase = "queued" /\ fork[f].after # Nobody => fork[f].after < f

\* A fork waits for the prompt that has the session, and works while none has.
ForksWait ==
  \A f \in Forks :
    /\ fork[f].phase = "waiting" => active \in {fork[f].until, Nobody}
    /\ fork[f].phase = "working" => active = Nobody

PromptInv == Prompt!PromptTypeOK /\ OneHolds /\ TurnsWithin /\ ForksInLine /\ ForksWait
=============================================================================

------------------------------- MODULE Session -------------------------------
(***************************************************************************)
(* One session over its lifetime: the journal writer of SessionWriter, the *)
(* persistence port it writes through, the host that runs its child        *)
(* operations, the clients of the runtime facade, other processes that     *)
(* have the same session open, and the end and restore of the runtime      *)
(* (createSession and restoreSession of session/runtime/open.ts).          *)
(***************************************************************************)
EXTENDS SessionWriter

CONSTANTS
  HostResults,  \* what child operations may report, a subset of ChildResults
  FaultKinds,   \* ways in which storage may misbehave
  MaxFaults,    \* bound: storage faults of a behaviour
  MaxRestores,  \* bound: times the session is restored
  MaxForeign,   \* bound: batches other processes write
  CanClose      \* whether clients close the session

Faults == {"lostAck", "noAck", "reject", "badReceipt", "loadFails", "putFails"}

ASSUME BoundsAssumption ==
  /\ MaxFaults \in Nat /\ MaxRestores \in Nat /\ MaxForeign \in Nat
  /\ CanClose \in BOOLEAN
  /\ FaultKinds \subseteq Faults
  /\ HostResults \subseteq ChildResults

VARIABLES
  journal,    \* the stored batches: append ID, expected revision, input, folded state
  config,     \* the stored selected configuration, None before the first
  phase,      \* what the opening sequence of the runtime waits for
  sent,       \* requests clients have made
  orphans,    \* appends of processes that are gone, which may still land
  orphanPuts, \* configuration writes of such processes, in order
  restores, faults, foreign,  \* used of MaxRestores, MaxFaults and MaxForeign
  seen,       \* history: the selected configuration as this runtime read or wrote it
  departed    \* history: since a turn last started, a selection of another
              \* permission mode was stored

storeVars   == <<journal, config>>
lostVars    == <<orphans, orphanPuts>>
budgetVars  == <<restores, faults, foreign>>
historyVars == <<seen, departed>>
sessionVars == <<storeVars, phase, sent, lostVars, budgetVars, historyVars>>
vars        == <<writerVars, sessionVars>>

OpenPhases == {"creating", "restoring", "recovering", "recovered", "reselecting", "open"}
AllPhases  == OpenPhases \cup {"down"}

Tip == IF journal = << >> THEN EmptyJournal ELSE journal[Len(journal)].next

-----------------------------------------------------------------------------
\* createSession submits the creation record of an absent journal.
Init ==
  /\ status = "ready"
  /\ durable = EmptyJournal
  /\ queue = << >>
  /\ pending = None
  /\ selection = None
  /\ mailbox = <<Submit(CreateId, Created)>>
  /\ io = None
  /\ storing = << >>
  /\ running = {}
  /\ remembered = FALSE
  /\ answers = [c \in Callers |-> "none"]
  /\ waits = [u \in Users |-> Waiting("none", 0)]
  /\ released = << >>
  /\ journal = << >>
  /\ config = None
  /\ phase = "creating"
  /\ sent = {}
  /\ orphans = {}
  /\ orphanPuts = << >>
  /\ restores = 0 /\ faults = 0 /\ foreign = 0
  /\ seen = None
  /\ departed = FALSE

-----------------------------------------------------------------------------
\* The session actor takes its next event.

StartsTurn == /\ pending = None /\ pending' # None
              /\ ~Active(durable) /\ Active(pending'.next)

WriterDecides ==
  /\ Decide
  /\ departed' = (departed /\ ~StartsTurn)
  /\ UNCHANGED <<storeVars, phase, sent, lostVars, budgetVars, seen>>

Post(event) == mailbox' = Append(mailbox, event)

unposted == <<status, durable, queue, pending, selection, running, remembered, answers,
              waits, released>>

-----------------------------------------------------------------------------
\* Clients (dispatchEvent, selectConfiguration, close).

SendRequest(id, event) ==
  /\ phase = "open"
  /\ id \notin sent
  /\ sent' = sent \cup {id}
  /\ Post(event)
  /\ UNCHANGED <<status, durable, queue, pending, selection, io, storing, running, remembered,
                 answers, released, storeVars, phase, lostVars, budgetVars, historyVars>>

SendUser(u) ==
  /\ SendRequest(UserId(u), Submit(UserId(u), UserInput(u)))
  /\ waits' = [waits EXCEPT ![u] = Waiting("admission", 0)]

SendSystem(s) == SendRequest(<<"system", s>>, Submit(<<"system", s>>, SystemInput)) /\ UNCHANGED waits

SendAbort(a) == SendRequest(<<"abort", a>>, Submit(<<"abort", a>>, AbortInput)) /\ UNCHANGED waits

SendSelect(c, patch) ==
  /\ SendRequest(<<"select", c>>, [type |-> "select", id |-> <<"select", c>>, patch |-> patch])
  /\ UNCHANGED waits

\* Closing a closed runtime again changes nothing, so it is left out.
SendClose ==
  /\ CanClose
  /\ phase = "open"
  /\ status # "closed"
  /\ \A i \in DOMAIN mailbox : mailbox[i].type # "close"
  /\ Post([type |-> "close"])
  /\ UNCHANGED <<unposted, io, storing, sessionVars>>

-----------------------------------------------------------------------------
\* The host reports how a child operation ended.

ChildSettles(op, result) ==
  /\ running' = running \ {op}
  /\ Post(Submit(ChildId(op.turn, op.generation), ChildInput(op.turn, op.generation, result)))
  /\ UNCHANGED <<status, durable, queue, pending, selection, io, storing, remembered, answers,
                 waits, released, sessionVars>>

-----------------------------------------------------------------------------
\* The persistence port.

Fault(kind) == kind \in FaultKinds /\ faults < MaxFaults /\ faults' = faults + 1

Batch(request) ==
  [id |-> request.id, expected |-> request.expected, input |-> request.input,
   next |-> request.next]

Stored(batches, request) ==
  {i \in Found(batches, request.id) : batches[i] = Batch(request)}

\* Mutant: the expected revision is not checked.
Writable_AnyRevision(request) == Found(journal, request.id) = {}

\* The port would write this request: its ID is new and its revision current.
Writable(request) ==
  Found(journal, request.id) = {} /\ request.expected = Len(journal)

Write(request) ==
  journal' = IF Writable(request) THEN Append(journal, Batch(request)) ELSE journal

\* What the port answers a request it handles without a fault.
AppendResult(request) ==
  CASE Stored(journal, request) # {} -> "committed"
    [] Found(journal, request.id) # {} /\ Stored(journal, request) = {} -> "rejected"
    [] Found(journal, request.id) = {} /\ request.expected # Len(journal) -> "conflict"
    [] OTHER -> "committed"

\* The receipt of a batch reports the revision it reached.
ReceiptRevision(request) ==
  IF Found(journal, request.id) = {} THEN Len(journal) + 1
                                     ELSE CHOOSE i \in Found(journal, request.id) : TRUE

Appended(request, result, revision) ==
  /\ io' = None
  /\ Post([type |-> "appended", id |-> request.id, result |-> result, revision |-> revision])
  /\ UNCHANGED <<unposted, storing, config, phase, sent, lostVars, restores, foreign,
                 historyVars>>

Appending == io # None /\ io.op = "append"

PortAppends ==
  /\ Appending
  /\ Write(io.request)
  /\ Appended(io.request, AppendResult(io.request), ReceiptRevision(io.request))
  /\ UNCHANGED faults

\* The acknowledgement of the request is lost, written or not.
PortLosesAck ==
  /\ Appending
  /\ \/ Fault("lostAck") /\ Write(io.request)
     \/ Fault("noAck") /\ UNCHANGED journal
  /\ Appended(io.request, "indeterminate", 0)

\* It is refused without being written.
PortRejects ==
  /\ Appending
  /\ Fault("reject")
  /\ UNCHANGED journal
  /\ Appended(io.request, "rejected", 0)

\* Its receipt is not that of the request.
PortMisreports ==
  /\ Appending
  /\ Writable(io.request)
  /\ Fault("badReceipt")
  /\ Write(io.request)
  /\ Appended(io.request, "committed", Len(journal) + 2)

\* A stopped writer has told the port to cancel, which then may not write.
PortCancels ==
  /\ Appending
  /\ Dead
  /\ UNCHANGED <<journal, faults>>
  /\ Appended(io.request, "rejected", 0)

PortLoads ==
  /\ io # None /\ io.op = "load"
  /\ io' = None
  /\ \/ /\ Post([type |-> "loaded", id |-> io.id, ok |-> TRUE, batches |-> journal])
        /\ UNCHANGED faults
     \/ /\ Fault("loadFails")
        /\ Post([type |-> "loaded", id |-> io.id, ok |-> FALSE, batches |-> << >>])
  /\ UNCHANGED <<unposted, storing, storeVars, phase, sent, lostVars, restores, foreign,
                 historyVars>>

\* A failed write of the configuration store is taken to have written nothing.
PortStores ==
  /\ storing # << >>
  /\ storing' = Tail(storing)
  /\ LET put == Head(storing)
     IN \/ /\ config' = put.mode
           /\ seen' = put.mode
           /\ departed' = (departed \/ put.mode.perm # durable.mode.perm)
           /\ Post([type |-> "stored", id |-> put.id, mode |-> put.mode, ok |-> TRUE])
           /\ UNCHANGED faults
        \/ /\ Fault("putFails")
           /\ Post([type |-> "stored", id |-> put.id, mode |-> put.mode, ok |-> FALSE])
           /\ UNCHANGED <<config, historyVars>>
  /\ UNCHANGED <<unposted, io, journal, phase, sent, lostVars, restores, foreign>>

-----------------------------------------------------------------------------
\* Other processes.

NotWriter == UNCHANGED <<writerVars, phase, sent, historyVars>>

\* Another process has the session open: on restore it recovers interrupted
\* work, otherwise it does work of its own.
ForeignAppends ==
  /\ phase # "creating"
  /\ foreign < MaxForeign
  /\ foreign' = foreign + 1
  /\ LET interrupted == Active(Tip) \/ Tip.pendingInputs # << >>
         input == IF interrupted THEN RecoveryInput(Tip.turn) ELSE SystemInput
         id    == IF interrupted THEN RecoveryId(Tip.turn) ELSE <<"foreign", foreign>>
     IN Write([id |-> id, expected |-> Len(journal), input |-> input, next |-> Stage(Tip, input)])
  /\ NotWriter
  /\ UNCHANGED <<config, lostVars, restores, faults>>

OrphanLands ==
  \/ \E request \in orphans :
       /\ orphans' = orphans \ {request}
       /\ Write(request)
       /\ NotWriter
       /\ UNCHANGED <<config, orphanPuts, budgetVars>>
  \/ \E i \in DOMAIN orphanPuts :
       /\ config' = orphanPuts[i]
       /\ orphanPuts' = SubSeq(orphanPuts, i + 1, Len(orphanPuts))
       /\ NotWriter
       /\ UNCHANGED <<journal, orphans, budgetVars>>

-----------------------------------------------------------------------------
\* The end of a runtime, and its opening sequence.

\* The runtime is gone: its process exited, or its owner dropped it after it
\* stopped.  Nothing of it survives but what was already sent to storage; the
\* store writes of a stopped runtime go on, one after the other.
Vanish ==
  /\ phase' = "down"
  /\ status' = "closed"
  /\ queue' = << >>
  /\ pending' = None
  /\ selection' = None
  /\ mailbox' = << >>
  /\ io' = None
  /\ storing' = << >>
  /\ running' = {}
  /\ remembered' = FALSE
  /\ waits' = [u \in Users |-> IF waits[u].at \in Unsettled THEN Waiting("lost", 0) ELSE waits[u]]
  /\ orphans' = orphans \cup (IF Appending THEN {io.request} ELSE {})
  /\ orphanPuts' = orphanPuts \o
       [i \in 1..(IF Dead \/ storing = << >> THEN Len(storing) ELSE 1) |-> storing[i].mode]
  /\ seen' = None
  /\ departed' = FALSE
  /\ UNCHANGED <<durable, answers, released, storeVars, sent, budgetVars>>

Crash ==
  /\ phase # "down"
  /\ restores < MaxRestores
  /\ Vanish

Opens(next) ==
  /\ phase' = next
  /\ UNCHANGED <<status, durable, queue, pending, selection, io, storing, running, remembered,
                 answers, waits, released, storeVars, sent, lostVars, budgetVars, historyVars>>

Answered(caller) == answers[caller] # "none"

CreateDone ==
  /\ phase = "creating"
  /\ answers[CreateId] = "accepted"
  /\ Opens("open")
  /\ UNCHANGED mailbox

CreateFailed ==
  /\ phase = "creating"
  /\ Answered(CreateId)
  /\ answers[CreateId] # "accepted"
  /\ Vanish

\* Mutant: the state the last runtime had reached.
Replayed_Last == durable

\* replay of the stored batches.
Replayed == Tip

\* restoreSession folds the journal it loads, then reads the configuration store.
RestoreJournal ==
  /\ phase = "down"
  /\ journal # << >>
  /\ restores < MaxRestores
  /\ restores' = restores + 1
  /\ phase' = "restoring"
  /\ status' = "ready"
  /\ durable' = Replayed
  /\ answers' = [answers EXCEPT ![<<"recovery">>] = "none", ![<<"reselect">>] = "none"]
  /\ UNCHANGED <<queue, pending, selection, mailbox, io, storing, running, remembered, waits,
                 released, storeVars, sent, lostVars, faults, foreign, historyVars>>

\* Mutant: queued inputs alone need no recovery.
Interrupted_TurnOnly == Active(durable)

Interrupted == Active(durable) \/ durable.pendingInputs # << >>

RestoreConfig ==
  /\ phase = "restoring"
  /\ seen' = config
  /\ IF Interrupted
       THEN /\ phase' = "recovering"
            /\ Post(Submit(RecoveryId(durable.turn), RecoveryInput(durable.turn)))
       ELSE /\ phase' = "recovered"
            /\ UNCHANGED mailbox
  /\ UNCHANGED <<unposted, io, storing, storeVars, sent, lostVars, budgetVars, departed>>

RestoreRecovered ==
  /\ phase = "recovering"
  /\ answers[<<"recovery">>] = "accepted"
  /\ Opens("recovered")
  /\ UNCHANGED mailbox

RestoreFailed ==
  /\ phase = "recovering"
  /\ Answered(<<"recovery">>)
  /\ answers[<<"recovery">>] # "accepted"
  /\ Vanish

\* Mutant: the fields that govern grants are forgotten in the comparison.
Unapplied_ModelOnly == seen # None /\ seen.model # durable.mode.model

Unapplied == seen # None /\ seen # durable.mode

\* A selection stored and never applied is applied before restore resolves.
RestoreReselects ==
  /\ phase = "recovered"
  /\ IF Unapplied
       THEN /\ Opens("reselecting")
            /\ Post([type |-> "reselect", id |-> <<"reselect", restores>>, mode |-> seen])
       ELSE /\ Opens("open")
            /\ UNCHANGED mailbox

RestoreDone ==
  /\ phase = "reselecting"
  /\ Answered(<<"reselect">>)
  /\ Opens("open")
  /\ UNCHANGED mailbox

-----------------------------------------------------------------------------
Client ==
  \/ \E u \in Users : SendUser(u)
  \/ \E s \in Systems : SendSystem(s)
  \/ \E a \in Aborts : SendAbort(a)
  \/ \E c \in Selects, patch \in Patches : SendSelect(c, patch)
  \/ SendClose

Host == \E op \in running : \E r \in HostResults \cap ResultsOf(op.kind) : ChildSettles(op, r)

Port ==
  \/ PortAppends \/ PortLosesAck \/ PortRejects \/ PortMisreports \/ PortCancels
  \/ PortLoads \/ PortStores

World == ForeignAppends \/ OrphanLands \/ Crash

Opening ==
  \/ CreateDone \/ CreateFailed
  \/ RestoreJournal \/ RestoreConfig \/ RestoreRecovered \/ RestoreFailed
  \/ RestoreReselects \/ RestoreDone

Next == WriterDecides \/ Client \/ Host \/ Port \/ World \/ Opening

Spec == Init /\ [][Next]_vars
==============================================================================

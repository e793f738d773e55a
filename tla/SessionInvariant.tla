--------------------------- MODULE SessionInvariant ---------------------------
(***************************************************************************)
(* The inductive invariant behind the safety of a session's storage: what  *)
(* has to hold of the append in flight, of the storage call the writer     *)
(* waits for and of results still in its mailbox, for JournalFolds,        *)
(* DurableIsStored and ReleasedOnceInOrder to be preserved by every step.  *)
(***************************************************************************)
EXTENDS SessionProperties

\* Nothing of a runtime that is gone goes on by itself: there is no event left to
\* decide, no call it waits for, no operation that will report.
GoneIsQuiet ==
  phase = "down" => /\ pending = None /\ mailbox = << >> /\ io = None
                    /\ storing = << >> /\ running = {} /\ Dead

\* No two stored batches have the same append ID, and a batch reaches the
\* revision that is its position.
JournalIsIndexed ==
  /\ \A i, j \in DOMAIN journal : journal[i].id = journal[j].id => i = j
  /\ \A i \in DOMAIN journal : journal[i].next.revision = i

\* A request was staged against a stored prefix of the journal.
StagedOn(request) ==
  /\ request.expected \in 0..Len(journal)
  /\ request.next.revision = request.expected + 1
  /\ request.next = Stage(StateAt(request.expected), request.input)

\* Every append that may still be written was, whichever runtime sent it; the
\* one in flight was staged against the state the writer is in.
RequestsAreStaged ==
  /\ pending # None => StagedOn(Batch(pending)) /\ pending.expected = durable.revision
  /\ Appending => StagedOn(io.request)
  /\ \A request \in orphans : StagedOn(request)

StorageResults == {i \in DOMAIN mailbox : mailbox[i].type \in {"appended", "loaded"}}

\* A working writer waits for one storage call of the append in flight, or for
\* its result, and for none when there is no append: so a result never reaches
\* it that belongs to an earlier append, or to an earlier attempt of this one.
OneStorageCall ==
  ~Dead =>
    /\ pending = None => io = None /\ StorageResults = {}
    /\ io # None => StorageResults = {}
    /\ \A i, j \in StorageResults : i = j
    /\ Appending => io.request = Batch(pending)

\* What storage reported of the journal stays true of it until it is decided.
ResultsStayTrue ==
  \A i \in StorageResults :
    LET e == mailbox[i]
    IN /\ ~Dead /\ e.type = "appended" /\ e.result = "committed" /\ InFlight(e.id)
            /\ e.revision = pending.next.revision =>
              /\ e.revision \in DOMAIN journal
              /\ journal[e.revision] = Batch(pending)
       /\ e.type = "loaded" =>
            /\ Len(e.batches) <= Len(journal)
            /\ \A k \in DOMAIN e.batches : e.batches[k] = journal[k]

\* Dispatched batches are stored, below the revision the writer has reached, in
\* the order they were dispatched in.
ReleasedIsStored ==
  /\ \A k \in DOMAIN released :
       \E p \in DOMAIN journal : p <= durable.revision /\ journal[p].id = released[k]
  /\ \A k, l \in DOMAIN released : \A p, q \in DOMAIN journal :
       k < l /\ journal[p].id = released[k] /\ journal[q].id = released[l] => p < q

\* The storage of a session is consistent with what its writer works from, does
\* and still has under way, over all failures and restarts.
StorageInv ==
  /\ TypeOK
  /\ GoneIsQuiet
  /\ JournalFolds
  /\ JournalIsIndexed
  /\ DurableIsStored
  /\ RequestsAreStaged
  /\ OneStorageCall
  /\ ResultsStayTrue
  /\ ReleasedIsStored

-----------------------------------------------------------------------------
\* What is submitted, and what is staged of it

SelectionIds    == {"select"} \X Selects
AnySelectionIds == SelectionIds \cup ({"reselect"} \X Nat)

\* The append IDs that an input may be submitted under.
IdsOf(input) ==
  CASE input.kind = "created"  -> {CreateId}
    [] input.kind = "user"     -> {UserId(input.user)}
    [] input.kind = "dequeued" -> {DequeueId(input.user)}
    [] input.kind = "child"    -> {ChildId(input.turn, input.generation)}
    [] input.kind = "recovery" -> {RecoveryId(input.turn)}
    [] input.kind = "abort"    -> {"abort"} \X Aborts
    [] input.kind = "policy"   -> AnySelectionIds
    [] OTHER                   -> ({"system"} \X Systems) \cup ({"foreign"} \X Nat)

\* The commit-time rules of an input, with the one that keeps a system change
\* behind the inputs that wait for their turn.
Admissible(j, input) ==
  /\ Accepts(j, input)
  /\ Stageable(j, input)
  /\ input.kind = "system" => j.pendingInputs = << >>

\* A request that may be written carries an ID of its input, which the state it
\* was staged against admits.
Fit(request) ==
  /\ request.id \in IdsOf(request.input)
  /\ Admissible(StateAt(request.expected), request.input)

\* The requests that may still be written: the append in flight, the one storage was
\* asked for, and those of runtimes that are gone.
Underway ==
  (IF pending # None THEN {Batch(pending)} ELSE {})
    \cup (IF Appending THEN {io.request} ELSE {})
    \cup orphans

\* Everything stored or under way was admitted by the state that it follows, or
\* will follow if it is written.
RequestsAreFit ==
  /\ \A i \in DOMAIN journal : Fit(journal[i])
  /\ \A request \in Underway : Fit(request)

\* Configuration records are never submitted: selections stage them.
SubmissionIsOwn(s) == s.id \in IdsOf(s.input) /\ s.input.kind # "policy"

EventIsOwn(e) ==
  /\ e.type = "submit" => SubmissionIsOwn(e)
  /\ e.type \in {"select", "stored"} => e.id \in SelectionIds
  /\ e.type = "reselect" => e.id \in {"reselect"} \X Nat

SelectionIsOwn(sel) ==
  /\ sel.id \in AnySelectionIds
  /\ ~sel.stored => sel.id \in SelectionIds
  /\ sel.fallback # None => sel.fallback.id \in AnySelectionIds

\* Every submission and selection on its way has an ID of its own kind, so that no
\* two of different kinds can have the same.
IdsAreOwn ==
  /\ \A i \in DOMAIN queue : SubmissionIsOwn(queue[i])
  /\ \A i \in DOMAIN mailbox : EventIsOwn(mailbox[i])
  /\ \A i \in DOMAIN storing : storing[i].id \in SelectionIds
  /\ selection # None => SelectionIsOwn(selection)

AdmissionInv == RequestsAreFit /\ IdsAreOwn

-----------------------------------------------------------------------------
\* Queued inputs

Dequeued == BatchesOf({"dequeued"})

\* Whoever waits in the queue at the end of the journal was queued, in the order
\* of the queue, and after everyone who has left it for a turn of their own.
QueueIsOrdered ==
  \A k \in DOMAIN Tip.pendingInputs : \E q \in Enqueued :
    /\ journal[q].input.user = Tip.pendingInputs[k]
    /\ \A d \in Dequeued, p \in Enqueued : SameUser(p, d) => p < q
    /\ \A l \in DOMAIN Tip.pendingInputs, p \in Enqueued :
         k < l /\ journal[p].input.user = Tip.pendingInputs[l] => q < p

QueueInv == QueueIsOrdered /\ QueueIsFair

-----------------------------------------------------------------------------
\* Receipts

\* Those whose submission is made at most once: clients, and whoever creates the session.
Tracked == Requests \cup {CreateId}

FinalAnswers == {"ignored", "busy", "refused"}

\* The places where a submission or selection waits for what becomes of it.
Carries(e)    == e.type \in {"submit", "select", "stored"}
InMailbox(c)  == \E i \in DOMAIN mailbox : Carries(mailbox[i]) /\ mailbox[i].id = c
InQueue(c)    == \E i \in DOMAIN queue : queue[i].id = c
InStoring(c)  == \E i \in DOMAIN storing : storing[i].id = c
IsSelected(c) == selection # None /\ selection.stored /\ selection.id = c
IsFallback(c) == selection # None /\ selection.fallback # None /\ selection.fallback.id = c
IsAppended(c) == Committed(c) \/ \E request \in Underway : request.id = c

Where(c) ==
  (IF InMailbox(c) THEN {"mailbox"} ELSE {})
    \cup (IF InQueue(c) THEN {"queue"} ELSE {})
    \cup (IF InStoring(c) THEN {"storing"} ELSE {})
    \cup (IF IsSelected(c) THEN {"selection"} ELSE {})
    \cup (IF IsFallback(c) THEN {"fallback"} ELSE {})
    \cup (IF IsAppended(c) THEN {"append"} ELSE {})

\* No submission or selection is in two places, nor in one of them twice.
PlacesAreOwn ==
  /\ \A i, j \in DOMAIN mailbox :
       Carries(mailbox[i]) /\ Carries(mailbox[j]) /\ mailbox[i].id = mailbox[j].id
         /\ mailbox[i].id \in Tracked => i = j
  /\ \A i, j \in DOMAIN queue : queue[i].id = queue[j].id /\ queue[i].id \in Tracked => i = j
  /\ \A i, j \in DOMAIN storing :
       storing[i].id = storing[j].id /\ storing[i].id \in Tracked => i = j
  /\ \A c \in Tracked : \A p, q \in Where(c) : p = q

\* Nothing is known of a request before it is made, and nothing is left to happen to
\* one that was refused for good.
FateFollowsAnswer ==
  \A c \in Tracked :
    /\ Where(c) # {} => c \in sent \cup {CreateId}
    /\ c \in Requests \ sent => answers[c] = "none"
    /\ answers[c] \in FinalAnswers => Where(c) = {}

AcceptedIsStored ==
  \A c \in Callers : answers[c] = "accepted" => \E i \in DOMAIN journal : Caller(journal[i].id) = c

ReceiptInv == PlacesAreOwn /\ FateFollowsAnswer /\ AcceptedIsStored

-----------------------------------------------------------------------------
\* The opening of a session

RestorePhases == {"restoring", "recovering", "recovered", "reselecting"}

HasEvent(types) == \E i \in DOMAIN mailbox : mailbox[i].type \in types

\* Recovery waits in the mailbox, is being stored, or has ended what was interrupted.
RecoveryUnderway ==
  \/ /\ answers[<<"recovery">>] = "none" /\ pending = None
     /\ mailbox = <<Submit(RecoveryId(durable.turn), RecoveryInput(durable.turn))>>
  \/ /\ answers[<<"recovery">>] = "none" /\ pending # None
     /\ pending.input.kind = "recovery" /\ ~HasEvent({"submit", "reselect"})
  \/ ~Interrupted /\ pending = None /\ ~HasEvent({"submit", "reselect"})

\* The stored selection, which is not the one in force, waits in the mailbox, is being
\* stored in the journal, or has come into force.
ReselectUnderway ==
  /\ ~Interrupted /\ ~HasEvent({"submit"})
  /\ \/ /\ answers[<<"reselect">>] = "none" /\ pending = None /\ Unapplied
        /\ \A i, j \in DOMAIN mailbox :
             mailbox[i].type = "reselect" =>
               mailbox[i].mode = seen /\ (mailbox[j].type = "reselect" => i = j)
     \/ /\ answers[<<"reselect">>] = "none" /\ pending # None
        /\ pending.input = PolicyInput(seen) /\ ~HasEvent({"reselect"})
     \/ pending = None /\ durable.mode = seen /\ ~HasEvent({"reselect"})

\* A runtime that restores the session does nothing else, until it fails.
RestoresOnly ==
  ~Dead /\ phase \in RestorePhases =>
    /\ queue = << >> /\ storing = << >> /\ selection = None /\ running = {}
    /\ ~HasEvent({"select", "stored", "close"})
    /\ phase # "reselecting" => answers[<<"reselect">>] = "none"
    /\ CASE phase = "restoring"   -> /\ pending = None /\ mailbox = << >>
                                     /\ answers[<<"recovery">>] = "none"
         [] phase = "recovering"  -> RecoveryUnderway
         [] phase = "recovered"   -> /\ ~Interrupted /\ pending = None
                                     /\ ~HasEvent({"submit", "reselect"})
         [] phase = "reselecting" -> ReselectUnderway

\* The selection of a restore is staged at once: it is never superseded, nor refused.
ReselectsAtOnce ==
  /\ ~Dead /\ HasEvent({"reselect"}) => phase = "reselecting"
  /\ selection # None => /\ selection.id \in SelectionIds
                         /\ selection.fallback # None => selection.fallback.id \in SelectionIds

\* A runtime that has stopped keeps nothing that waits.
DeadIsEmpty == Dead => queue = << >> /\ selection = None

OpeningInv == DeadIsEmpty /\ RestoresOnly /\ ReselectsAtOnce

-----------------------------------------------------------------------------
\* Configuration selections

\* The results of writes to the configuration store that are not decided yet, and those
\* of them that report a selection stored.
WriteResults == {i \in DOMAIN mailbox : mailbox[i].type = "stored"}
Written      == {i \in WriteResults : mailbox[i].ok}

IsItsWrite(write) == write.id = selection.id /\ write.mode = selection.mode

\* No write of the store is under way but for the selection and those it superseded,
\* and its own is the last of them.
SelectionIsLast ==
  /\ selection = None \/ selection.stored => storing = << >> /\ WriteResults = {}
  /\ selection # None /\ ~selection.stored =>
       \/ storing # << >> /\ IsItsWrite(storing[Len(storing)])
       \/ /\ storing = << >>
          /\ \E i \in WriteResults : /\ IsItsWrite(mailbox[i])
                                     /\ \A j \in WriteResults : j <= i

\* What stands if no result reports another selection stored: the selection, the one it
\* falls back to, or without either the configuration in force, if any was ever stored.
Standing ==
  CASE selection # None /\ selection.stored -> {selection.mode}
    [] selection # None /\ ~selection.stored /\ selection.fallback # None ->
         {selection.fallback.mode}
    [] OTHER -> {None, NextMode}

\* The selection stored last is the one that stands once every result is decided.
SeenStands ==
  /\ Written = {} => seen \in Standing
  /\ \A i \in Written : (\A j \in Written : j <= i) => seen = mailbox[i].mode

Departs(mode) == mode.perm # NextMode.perm
Drops(sel)    == sel.revokes \/ Departs(sel.mode)

\* A selection revokes whatever one that it replaced would have.
RevocationIsKept ==
  selection # None =>
    /\ \A i \in WriteResults :
         mailbox[i].id # selection.id /\ Departs(mailbox[i].mode) => selection.revokes
    /\ \A i \in DOMAIN storing :
         storing[i].id # selection.id /\ Departs(storing[i].mode) => selection.revokes
    /\ selection.fallback # None /\ Drops(selection.fallback) => selection.revokes

\* Remembered approvals are dropped before the next turn, by the batch in flight or by
\* what will become of the selection.
WillDrop ==
  \/ /\ pending # None /\ pending.input.kind = "policy"
     /\ pending.input.mode.perm # durable.mode.perm
  \/ /\ selection # None
     /\ \/ /\ selection.stored \/ \E i \in Written : mailbox[i].id = selection.id
           /\ Drops(selection)
        \/ /\ ~selection.stored /\ selection.revokes
           /\ Written # {} \/ (selection.fallback # None /\ Drops(selection.fallback))

\* No selection of another permission mode is forgotten while there are approvals to
\* drop, or a turn runs that may still obtain some.
DepartureIsKept == departed /\ (remembered \/ TurnRunning) => WillDrop

\* A runtime that works, other than on a restore, has its selections in order, and one
\* that restores has stored none.
SelectionInv ==
  /\ ~Dead /\ phase \in {"creating", "open"} =>
       SelectionIsLast /\ SeenStands /\ RevocationIsKept /\ DepartureIsKept
  /\ phase = "down" \/ (phase \in RestorePhases /\ ~Dead) => ~departed

-----------------------------------------------------------------------------
\* Settlement of user inputs

\* No input waits in a session that is not open, nor for a turn in one that has stopped.
WaitsAreServed ==
  /\ phase # "open" => \A u \in Users : waits[u].at \notin Unsettled
  /\ Dead => \A u \in Users : waits[u].at \notin {"queued", "turn"}

\* A runtime that serves clients recovers nothing, so that it cancels no queued input.
NeverRecovers ==
  ~Dead /\ phase \in {"creating", "open"} =>
    /\ pending # None => pending.input.kind # "recovery"
    /\ \A i \in DOMAIN queue : queue[i].input.kind # "recovery"
    /\ \A i \in DOMAIN mailbox :
         mailbox[i].type = "submit" => mailbox[i].input.kind # "recovery"

\* No stored batch is of a later turn than the last.
TurnsGrow == \A n \in 0..Len(journal) : StateAt(n).turn <= Tip.turn

\* The batch of u that was stored in this turn and not queued.
Joined(u, turn) == \E i \in Consumed : journal[i].input.user = u /\ Before(i).turn = turn

\* A promise that has gone to a turn is of an input which joined that turn.
TurnsAreJoined ==
  \A u \in Users : waits[u].at \in {"turn", "terminal"} => Joined(u, waits[u].turn)

WaitInv == WaitsAreServed /\ NeverRecovers /\ TurnsGrow /\ TurnsAreJoined /\ WaitsFollowJournal
-----------------------------------------------------------------------------
\* One lost acknowledgement

\* An operation that was reported on is over: the turn machine never returns to it.
Precedes(op, j) == op.turn < j.turn \/ (op.turn = j.turn /\ op.generation < j.generation)

ChildrenAreOver ==
  \A i \in DOMAIN journal : journal[i].input.kind = "child" => Precedes(journal[i].input, Tip)

\* Whatever is submitted is submitted once, and staging it does not fail: by a client, or
\* by an operation that reports nothing it may not.
SubmitsOnce(s) ==
  s.id \in Tracked \/ (s.input.kind = "child" /\ s.input.result # "unpermitted")

SubmittedOnce ==
  /\ \A i \in DOMAIN queue : SubmitsOnce(queue[i])
  /\ \A i \in DOMAIN mailbox : mailbox[i].type = "submit" => SubmitsOnce(mailbox[i])

\* The journal holds what the writer has released, and perhaps the append in flight.
WritesAlone ==
  /\ orphans = {}
  /\ pending = None => Len(journal) = durable.revision
  /\ pending # None =>
       \/ Len(journal) = pending.expected /\ Found(journal, pending.id) = {}
       \/ Len(journal) = pending.expected + 1 /\ journal[Len(journal)] = Batch(pending)

\* What storage tells a writer that waits, and the faults that it took.
FaultsAreCounted ==
  /\ pending # None => pending.attempts <= faults
  /\ status = "reconciling" => pending.attempts < faults
  /\ io # None => (io.op = "load" <=> status = "reconciling")
  /\ \A i \in StorageResults :
       LET e == mailbox[i]
       IN /\ e.type = "appended" =>
               /\ status = "committing"
               /\ \/ e.result = "committed" /\ e.revision = pending.next.revision
                  \/ e.result = "indeterminate" /\ pending.attempts < faults
          /\ e.type = "loaded" =>
               /\ status = "reconciling"
               /\ e.ok => e.batches = journal
               /\ ~e.ok => faults > 1

HarmlessInv ==
  /\ OneLostAckIsHarmless
  /\ ChildrenAreOver
  /\ phase \in {"creating", "open", "down"}
  /\ ~Dead => SubmittedOnce /\ WritesAlone /\ FaultsAreCounted
==============================================================================

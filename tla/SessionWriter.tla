---------------------------- MODULE SessionWriter ----------------------------
(***************************************************************************)
(* The journal writer of one open session: decideSession of                *)
(* session/session-fsm.ts, one disjunct per decision, together with what   *)
(* the command handlers of session/runtime/session-commands.ts do with the *)
(* commands of that decision.  The session actor decides one event of its  *)
(* mailbox at a time and runs the decision's commands before the next one, *)
(* so a decision with its commands is one step here.                       *)
(***************************************************************************)
EXTENDS Journal

CONSTANTS
  Systems, Aborts, Selects,  \* names of the other requests clients may make
  Patches,                   \* the configuration patches they may select
  None

ASSUME PatchAssumption ==
  Patches \subseteq [perm : Perms \cup {None}, model : Models \cup {None}]

VARIABLES
  status,     \* status of the session actor
  durable,    \* committed state, as of the last append receipt
  queue,      \* submissions waiting to be staged
  pending,    \* the append in flight
  selection,  \* the configuration selected and not yet applied
  mailbox,    \* events sent to the session actor and not yet decided
  io,         \* the storage call the writer waits for
  storing,    \* writes to the configuration store, in the order they were chained
  running,    \* child operations the host was told to start and has not reported on
  remembered, \* the host remembers an approval granted until the session closes
  answers,    \* the receipt each caller got
  waits,      \* where the settlement promise of each user input is kept
  released    \* history: append IDs in the order their commands were dispatched

effectVars == <<io, storing, running, remembered, answers, waits, released>>
writerVars == <<status, durable, queue, pending, selection, mailbox, effectVars>>

-----------------------------------------------------------------------------
\* Submission IDs.  Each has its own append ID, which therefore is not kept
\* apart: a caller's submission ID is fresh, and the session's own are fixed by
\* the record they carry.
UserId(u)        == <<"user", u>>
CreateId         == <<"created">>
RecoveryId(t)    == <<"recovery", t>>
DequeueId(u)     == <<"dequeue", u>>
ChildId(t, n)    == <<"child", t, n>>

Requests ==
  {UserId(u) : u \in Users} \cup ({"system"} \X Systems)
    \cup ({"abort"} \X Aborts) \cup ({"select"} \X Selects)

\* Who waits for a receipt: clients, and the session's own opening sequence.
Callers == Requests \cup {CreateId, <<"recovery">>, <<"reselect">>}

Caller(id) == IF id[1] \in {"recovery", "reselect"} THEN <<id[1]>> ELSE id

Answers == {"none", "accepted", "selected", "ignored", "busy", "refused", "failed", "closed"}

\* receipts: the first reply to an ID resolves its promise, later ones find none.
Told(ids, answer, known) ==
  [c \in Callers |-> IF known[c] = "none" /\ \E id \in ids : Caller(id) = c
                       THEN answer ELSE known[c]]

Drain == [type |-> "drain"]
Submit(id, input) == [type |-> "submit", id |-> id, input |-> input]

-----------------------------------------------------------------------------
\* Settlement promises: held at admission, then among the queued inputs, then
\* with the turn that took the input, until they settle.
Unsettled == {"admission", "queued", "turn"}

Waiting(at, turn) == [at |-> at, turn |-> turn]

\* stop: whatever still waits settles with the session's own end.
StopWaits(end) ==
  [u \in Users |-> IF waits[u].at \in Unsettled THEN Waiting(end, 0) ELSE waits[u]]

\* A reply other than accepted settles the input it refuses.
RefuseWaits(id) ==
  [u \in Users |-> IF id = UserId(u) /\ waits[u].at = "admission"
                     THEN Waiting("failed", 0) ELSE waits[u]]

\* Mutant: the turn that is current once the batch has ended one.
JoinedTurn_Current(before, next) == next.turn

\* The turn an input joined: the one its batch ended, if it ended one.
JoinedTurn(before, next) == IF Ends(before, next) THEN before.turn ELSE next.turn

\* Mutant: the promise of a queued input stays with the queue.
LeavesQueue_Never(input, u) == FALSE

LeavesQueue(input, u) == input = DequeuedInput(u) /\ waits[u].at = "queued"

\* releaseCommitted: the committed batch of input moves its own promise on, and
\* settles every promise of the turn it ended.
ReleaseWaits(input, before, next) ==
  [u \in Users |->
     LET turn   == Waiting("turn", JoinedTurn(before, next))
         joined ==
           CASE LeavesQueue(input, u) -> turn
             [] input = UserInput(u) /\ waits[u].at = "admission" ->
                  IF Queues(before, input) THEN Waiting("queued", 0) ELSE turn
             [] OTHER -> waits[u]
     IN IF Ends(before, next) /\ joined = Waiting("turn", before.turn)
          THEN Waiting("terminal", before.turn) ELSE joined]

-----------------------------------------------------------------------------
\* Decisions.  Every one consumes the event at the head of the mailbox and
\* posts the events its commands send.
Deciding(type) == mailbox # << >> /\ Head(mailbox).type = type
Event          == Head(mailbox)
Consume(sends) == mailbox' = Tail(mailbox) \o sends

Dead == status \in {"failed", "closed"}

\* A turn is running, or the append in flight starts one.
TurnRunning == Active(durable) \/ (pending # None /\ Active(pending.next))

\* Mutant: the submission in flight is forgotten.
Owed_WaitingOnly ==
  {queue[i].id : i \in DOMAIN queue}
    \cup (IF selection # None /\ selection.stored THEN {selection.id} ELSE {})

\* The callers a dying writer still owes an answer.
Owed ==
  (IF pending # None THEN {pending.id} ELSE {})
    \cup {queue[i].id : i \in DOMAIN queue}
    \cup (IF selection # None /\ selection.stored THEN {selection.id} ELSE {})

\* Mutant: they are told that nothing was written.
LastAnswers_Ignored(end, also) == Told(Owed \cup also, "ignored", answers)

LastAnswers(end, also) == Told(Owed \cup also, end, answers)

\* fail, and close: nothing is released any more, and everyone owed an answer
\* gets one, as do the submissions also that brought the failure about.
Stop(end, also) ==
  /\ status' = end
  /\ queue' = << >>
  /\ pending' = None
  /\ selection' = None
  /\ running' = {}
  /\ remembered' = FALSE
  /\ waits' = StopWaits(end)
  /\ answers' = LastAnswers(end, also)
  /\ Consume(<< >>)
  /\ UNCHANGED <<durable, io, storing, released>>

\* Stages submission s and starts its append.
StageAppend(s, rest) ==
  LET request == [id |-> s.id, expected |-> durable.revision, input |-> s.input,
                  next |-> Stage(durable, s.input)]
  IN /\ status' = "committing"
     /\ pending' = [id |-> s.id, input |-> s.input, next |-> request.next,
                    expected |-> request.expected, attempts |-> 0]
     /\ io' = [op |-> "append", request |-> request]
     /\ queue' = rest
     /\ Consume(<< >>)
     /\ UNCHANGED <<durable, storing, running, released>>

\* Mutant: inputs waiting for their turn do not count.
Busy_IgnoresQueued(s) == s.input.kind = "system" /\ TurnRunning

\* busy: a system change meets a turn, or inputs that wait for theirs.
Busy(s) == s.input.kind = "system" /\ (durable.pendingInputs # << >> \/ TurnRunning)

\* Why a ready writer does not stage s.
Refusal(s) ==
  CASE Busy(s) -> "busy"
    [] ~Busy(s) /\ ~Accepts(durable, s.input) -> "ignored"
    [] ~Busy(s) /\ Accepts(durable, s.input) /\ ~Stageable(durable, s.input) -> "refused"
    [] OTHER -> "none"

\* Inputs the session generates itself: staging one of them may not fail.
Internal(s) == s.input.kind \in {"child", "dequeued", "recovery"}

\* A submission reaches a ready writer: it is refused, it fails the session, or
\* it is staged.  rest stays queued and again is sent if nothing was staged.
Admit(s, rest, again) ==
  \/ /\ Refusal(s) = "none"
     /\ StageAppend(s, rest)
     /\ UNCHANGED <<selection, remembered, answers, waits>>
  \/ /\ Refusal(s) = "refused"
     /\ Internal(s)
     /\ Stop("failed", {s.id})
  \/ /\ Refusal(s) # "none"
     /\ Refusal(s) = "refused" => ~Internal(s)
     /\ answers' = Told({s.id}, Refusal(s), answers)
     /\ waits' = RefuseWaits(s.id)
     /\ queue' = rest
     /\ Consume(again)
     /\ UNCHANGED <<status, durable, pending, selection, io, storing, running, remembered,
                    released>>

-----------------------------------------------------------------------------
\* Submissions

\* Mutant: only a stored selection is waited for.
AwaitsSelection_Stored(s) ==
  /\ selection # None /\ selection.stored
  /\ ~Active(durable)
  /\ s.input.kind \notin {"created", "recovery", "policy"}

AwaitsSelection(s) ==
  /\ selection # None
  /\ ~Active(durable)
  /\ s.input.kind \notin {"created", "recovery", "policy"}

SubmitToDead ==
  /\ Deciding("submit")
  /\ Dead
  /\ answers' = Told({Event.id}, status, answers)
  /\ waits' = RefuseWaits(Event.id)
  /\ Consume(<< >>)
  /\ UNCHANGED <<status, durable, queue, pending, selection, io, storing, running, remembered,
                 released>>

SubmitBusy ==
  /\ Deciding("submit")
  /\ ~Dead
  /\ Busy(Event)
  /\ answers' = Told({Event.id}, "busy", answers)
  /\ Consume(<< >>)
  /\ UNCHANGED <<status, durable, queue, pending, selection, io, storing, running, remembered,
                 waits, released>>

MustQueue(s) == status # "ready" \/ queue # << >> \/ AwaitsSelection(s)

SubmitQueued ==
  /\ Deciding("submit")
  /\ ~Dead
  /\ ~Busy(Event)
  /\ MustQueue(Event)
  /\ queue' = Append(queue, [id |-> Event.id, input |-> Event.input])
  /\ Consume(IF status = "ready" THEN <<Drain>> ELSE << >>)
  /\ UNCHANGED <<status, durable, pending, selection, effectVars>>

SubmitAdmitted ==
  /\ Deciding("submit")
  /\ ~Dead
  /\ ~Busy(Event)
  /\ ~MustQueue(Event)
  /\ Admit([id |-> Event.id, input |-> Event.input], << >>, << >>)

-----------------------------------------------------------------------------
\* Configuration selections

\* applySelection acts on sel: the writer is between turns.
AtBoundary(sel) == status = "ready" /\ sel # None /\ ~Active(durable)

\* applySelection: waits for the store, drops a selection that changes nothing,
\* or stages it ahead of everything else.  known are the answers given so far.
ApplySelection(sel, known) ==
  \/ /\ ~sel.stored
     /\ selection' = sel
     /\ answers' = known
     /\ Consume(<< >>)
     /\ UNCHANGED <<status, durable, queue, pending, io, storing, running, remembered, waits,
                    released>>
  \/ /\ sel.stored
     /\ sel.mode = durable.mode
     /\ selection' = None
     /\ answers' = Told({sel.id}, "ignored", known)
     /\ remembered' = (remembered /\ ~sel.revokes)
     /\ Consume(<<Drain>>)
     /\ UNCHANGED <<status, durable, queue, pending, io, storing, running, waits, released>>
  \/ /\ sel.stored
     /\ sel.mode # durable.mode
     /\ selection' = None
     /\ answers' = known
     /\ remembered' = (remembered /\ ~(sel.revokes /\ sel.mode.perm = durable.mode.perm))
     /\ StageAppend([id |-> sel.id, input |-> PolicyInput(sel.mode)], queue)
     /\ UNCHANGED waits

\* settleStored
SettleStored(sel, known) ==
  \/ /\ AtBoundary(sel)
     /\ ApplySelection(sel, known)
  \/ /\ ~AtBoundary(sel)
     /\ selection' = sel
     /\ answers' = IF TurnRunning THEN Told({sel.id}, "selected", known) ELSE known
     /\ Consume(<< >>)
     /\ UNCHANGED <<status, durable, queue, pending, io, storing, running, remembered, waits,
                    released>>

\* nextConfiguration: what the next boundary applies, without the selection.
NextMode ==
  IF pending # None /\ pending.input.kind = "policy" THEN pending.input.mode ELSE durable.mode

PatchMode(mode, patch) ==
  [ perm  |-> IF patch.perm = None THEN mode.perm ELSE patch.perm,
    model |-> IF patch.model = None THEN mode.model ELSE patch.model ]

SelectToDead ==
  /\ Deciding("select") \/ Deciding("reselect") \/ Deciding("stored")
  /\ Dead
  /\ answers' = Told({Event.id}, status, answers)
  /\ Consume(<< >>)
  /\ UNCHANGED <<status, durable, queue, pending, selection, io, storing, running, remembered,
                 waits, released>>

\* Mutant: only the selection replaced last is looked at.
Revokes_LastOnly == selection # None /\ NextMode.perm # selection.mode.perm

\* Applying the next selection drops remembered approvals: one that it replaces,
\* or that one replaced, had changed the fields that govern them.
Revokes == selection # None /\ (selection.revokes \/ NextMode.perm # selection.mode.perm)

\* The selection that replaces the one pending, which becomes its fallback.
Selected(id, mode, stored) ==
  [ id |-> id, mode |-> mode, stored |-> stored,
    revokes |-> Revokes,
    fallback |-> CASE selection = None -> None
                   [] selection # None /\ selection.stored ->
                        [id |-> selection.id, mode |-> selection.mode,
                         revokes |-> selection.revokes]
                   [] OTHER -> selection.fallback ]

Superseded ==
  IF selection # None /\ selection.stored THEN Told({selection.id}, "selected", answers)
                                          ELSE answers

Select ==
  /\ Deciding("select")
  /\ ~Dead
  /\ LET base == IF selection # None THEN selection.mode ELSE NextMode
         mode == PatchMode(base, Event.patch)
     IN /\ selection' = Selected(Event.id, mode, FALSE)
        /\ storing' = Append(storing, [id |-> Event.id, mode |-> mode])
  /\ answers' = Superseded
  /\ Consume(<< >>)
  /\ UNCHANGED <<status, durable, queue, pending, io, running, remembered, waits, released>>

Reselect ==
  /\ Deciding("reselect")
  /\ ~Dead
  /\ SettleStored(Selected(Event.id, Event.mode, TRUE), Superseded)

\* The store settled a write of the selection that is still current ...
StoredCurrent ==
  /\ Deciding("stored")
  /\ ~Dead
  /\ selection # None
  /\ selection.id = Event.id
  /\ \/ /\ Event.ok
        /\ SettleStored([selection EXCEPT !.stored = TRUE], answers)
     \/ /\ ~Event.ok
        /\ selection.fallback # None
        /\ SettleStored([id |-> selection.fallback.id, mode |-> selection.fallback.mode,
                         stored |-> TRUE, revokes |-> selection.fallback.revokes,
                         fallback |-> None],
                        Told({Event.id}, "refused", answers))
     \/ /\ ~Event.ok
        /\ selection.fallback = None
        /\ selection' = None
        /\ answers' = Told({Event.id}, "refused", answers)
        /\ Consume(<<Drain>>)
        /\ UNCHANGED <<status, durable, queue, pending, io, storing, running, remembered, waits,
                       released>>

\* ... or of one that a later selection superseded, or that was dropped.
StoredSuperseded ==
  /\ Deciding("stored")
  /\ ~Dead
  /\ selection = None \/ selection.id # Event.id
  /\ selection' = IF Event.ok /\ selection # None
                    THEN [selection EXCEPT !.fallback =
                            [id |-> Event.id, mode |-> Event.mode, revokes |-> selection.revokes]]
                    ELSE selection
  /\ answers' = Told({Event.id}, IF Event.ok THEN "selected" ELSE "refused", answers)
  /\ Consume(<< >>)
  /\ UNCHANGED <<status, durable, queue, pending, io, storing, running, remembered, waits,
                 released>>

-----------------------------------------------------------------------------
\* Draining: the selection first, then queued inputs, then waiting submissions.

DrainSelection ==
  /\ Deciding("drain")
  /\ AtBoundary(selection)
  /\ ApplySelection(selection, answers)

DequeueDue == durable.pendingInputs # << >> /\ ~Active(durable)

DrainDequeue ==
  /\ Deciding("drain")
  /\ status = "ready"
  /\ ~AtBoundary(selection)
  /\ DequeueDue
  /\ LET u == Head(durable.pendingInputs)
     IN Admit([id |-> DequeueId(u), input |-> DequeuedInput(u)], queue, << >>)

DrainQueue ==
  /\ Deciding("drain")
  /\ status = "ready"
  /\ ~AtBoundary(selection)
  /\ ~DequeueDue
  /\ queue # << >>
  /\ Admit(Head(queue), Tail(queue), <<Drain>>)

DrainNothing ==
  /\ Deciding("drain")
  /\ \/ status # "ready"
     \/ ~AtBoundary(selection) /\ ~DequeueDue /\ queue = << >>
  /\ Consume(<< >>)
  /\ UNCHANGED <<status, durable, queue, pending, selection, effectVars>>

-----------------------------------------------------------------------------
\* Storage results

InFlight(id) == pending # None /\ pending.id = id

Operation(j) == [turn |-> j.turn, generation |-> j.generation, kind |-> j.phase]

\* An approval until the session closes is installed when the tools it allowed
\* start; a change of the fields that govern grants drops every one.
Remembers(j, next, input) ==
  /\ j.mode.perm = next.mode.perm
  /\ remembered \/ (input.kind = "child" /\ input.result = "always")

\* Mutant: the submission is not answered.
ReleaseAnswers_None == answers

ReleaseAnswers == Told({pending.id}, "accepted", answers)

\* Mutant: nothing drains what waited for the batch.
ReleaseSends_Nothing == << >>

ReleaseSends == <<Drain>>

\* committed: the batch is durable, its commands are dispatched, then its
\* submission is answered.
Release ==
  /\ status' = "ready"
  /\ durable' = pending.next
  /\ pending' = None
  /\ released' = Append(released, pending.id)
  /\ running' = IF Starts(durable, pending.next)
                  THEN running \cup {Operation(pending.next)} ELSE running
  /\ remembered' = Remembers(durable, pending.next, pending.input)
  /\ waits' = ReleaseWaits(pending.input, durable, pending.next)
  /\ answers' = ReleaseAnswers
  /\ Consume(ReleaseSends)
  /\ UNCHANGED <<queue, selection, io, storing>>

\* A receipt is good when it reports the revision the staged state reached.
AppendCommitted ==
  /\ Deciding("appended")
  /\ status = "committing"
  /\ InFlight(Event.id)
  /\ Event.result = "committed"
  /\ \/ Event.revision = pending.next.revision /\ Release
     \/ Event.revision # pending.next.revision /\ Stop("failed", {})

\* Mutant: an append of unknown outcome is taken to have committed.
AppendIndeterminate_Trusts ==
  /\ Deciding("appended")
  /\ status = "committing"
  /\ InFlight(Event.id)
  /\ Event.result = "indeterminate"
  /\ Release

AppendIndeterminate ==
  /\ Deciding("appended")
  /\ status = "committing"
  /\ InFlight(Event.id)
  /\ Event.result = "indeterminate"
  /\ status' = "reconciling"
  /\ io' = [op |-> "load", id |-> Event.id]
  /\ Consume(<< >>)
  /\ UNCHANGED <<durable, queue, pending, selection, storing, running, remembered, answers,
                 waits, released>>

AppendRefused ==
  /\ Deciding("appended")
  /\ status = "committing"
  /\ InFlight(Event.id)
  /\ Event.result \in {"conflict", "rejected"}
  /\ Stop("failed", {})

Found(batches, id) == {i \in DOMAIN batches : batches[i].id = id}

\* The load shows the append committed as the last batch, and nothing after it
\* (replay has checked that each batch follows the revision it expected).
LoadedCommitted ==
  /\ Deciding("loaded")
  /\ status = "reconciling"
  /\ InFlight(Event.id)
  /\ Event.ok
  /\ \E i \in Found(Event.batches, pending.id) :
       /\ Event.batches[i].expected = pending.expected
       /\ Event.batches[i].input = pending.input
       /\ Len(Event.batches) = i
  /\ Release

\* Mutant: it is appended again and again.
Retryable_Unlimited ==
  /\ Found(Event.batches, pending.id) = {}
  /\ Len(Event.batches) = pending.expected

\* Mutant: the revision it would reach is compared.
Retryable_OffByOne ==
  /\ Found(Event.batches, pending.id) = {}
  /\ Len(Event.batches) = pending.expected + 1
  /\ pending.attempts = 0

Retryable ==
  /\ Found(Event.batches, pending.id) = {}
  /\ Len(Event.batches) = pending.expected
  /\ pending.attempts = 0

\* It shows the journal still where the append expected it: append once more.
LoadedAbsent ==
  /\ Deciding("loaded")
  /\ status = "reconciling"
  /\ InFlight(Event.id)
  /\ Event.ok
  /\ Retryable
  /\ status' = "committing"
  /\ pending' = [pending EXCEPT !.attempts = @ + 1]
  /\ io' = [op |-> "append",
            request |-> [id |-> pending.id, expected |-> pending.expected,
                         input |-> pending.input, next |-> pending.next]]
  /\ Consume(<< >>)
  /\ UNCHANGED <<durable, queue, selection, storing, running, remembered, answers, waits,
                 released>>

\* It shows anything else, or failed.
LoadedUnusable ==
  /\ Deciding("loaded")
  /\ status = "reconciling"
  /\ InFlight(Event.id)
  /\ \/ ~Event.ok
     \/ /\ Event.ok
        /\ ~Retryable
        /\ \A i \in Found(Event.batches, pending.id) :
             \/ Event.batches[i].expected # pending.expected
             \/ Event.batches[i].input # pending.input
             \/ Len(Event.batches) # i
  /\ Stop("failed", {})

\* A result nothing waits for any more.
StorageIgnored ==
  /\ \/ Deciding("appended") /\ (status # "committing" \/ ~InFlight(Event.id))
     \/ Deciding("loaded") /\ (status # "reconciling" \/ ~InFlight(Event.id))
  /\ Consume(<< >>)
  /\ UNCHANGED <<status, durable, queue, pending, selection, effectVars>>

Close ==
  /\ Deciding("close")
  /\ Stop("closed", {})

Decide ==
  \/ SubmitToDead \/ SubmitBusy \/ SubmitQueued \/ SubmitAdmitted
  \/ SelectToDead \/ Select \/ Reselect \/ StoredCurrent \/ StoredSuperseded
  \/ DrainSelection \/ DrainDequeue \/ DrainQueue \/ DrainNothing
  \/ AppendCommitted \/ AppendIndeterminate \/ AppendRefused
  \/ LoadedCommitted \/ LoadedAbsent \/ LoadedUnusable \/ StorageIgnored
  \/ Close
==============================================================================

------------------------- MODULE SessionOpeningProofs -------------------------
(***************************************************************************)
(* The opening of a session and the ledger it implements, for every value  *)
(* of the constants: a restore resolves at rest, under the selection it    *)
(* found stored, and a session, over all of its failures and restores,     *)
(* does to its callers no more than a ledger of receipts does.  And the    *)
(* settlement promises of user inputs are where the journal says their     *)
(* inputs are: WaitsFollowJournal of SessionProperties, from the invariant *)
(* WaitInv of SessionInvariant.                                            *)
(* No turn overtakes a configuration selection: one starts only under the  *)
(* configuration stored last, and never with approvals remembered from     *)
(* before another permission mode was selected, though that selection was  *)
(* superseded, undone or dropped.  And one fault of the storage never      *)
(* fails a session: OneLostAckIsHarmless, from the invariant HarmlessInv.  *)
(***************************************************************************)
EXTENDS SessionQueueProofs

-----------------------------------------------------------------------------
\* Events

\* A decision adds no event but a drain, ...
LEMMA EventsConsumed ==
  ASSUME mailbox \in Seq(Events), mailbox # << >>,
         NEW sends \in {<< >>, <<Drain>>}, Consume(sends),
         NEW types, "drain" \notin types
  PROVE  HasEvent(types)' => HasEvent(types)
<1>1. \A i \in DOMAIN mailbox' :
        \/ i + 1 \in DOMAIN mailbox /\ mailbox'[i] = mailbox[i + 1]
        \/ mailbox'[i] = Drain
  BY MailboxLeft
<1>2. Drain.type = "drain"
  BY DEF Drain
<1> QED BY <1>1, <1>2 DEF HasEvent

\* ... and an event that is posted no other.
LEMMA EventsPosted ==
  ASSUME mailbox \in Seq(Events), NEW e, mailbox' = Append(mailbox, e), NEW types
  PROVE  HasEvent(types)' => HasEvent(types) \/ e.type \in types
<1>1. \A i \in DOMAIN mailbox' :
        \/ i \in DOMAIN mailbox /\ mailbox'[i] = mailbox[i]
        \/ i = Len(mailbox) + 1 /\ mailbox'[i] = e
  BY MailboxMore
<1> QED BY <1>1 DEF HasEvent

\* The event that is decided is one of the mailbox.
LEMMA EventIsHad ==
  ASSUME mailbox \in Seq(Events), mailbox # << >>, NEW types, Event.type \in types
  PROVE  HasEvent(types)
BY DEF HasEvent, Event

-----------------------------------------------------------------------------
\* What a restore stages

\* Recovery ends what was interrupted and starts nothing; a selection starts nothing
\* and is in force once it is staged.
LEMMA OpeningStages ==
  ASSUME NEW j \in JournalState, NEW input \in Inputs
  PROVE  /\ input.kind = "recovery" =>
              ~Active(Stage(j, input)) /\ Stage(j, input).pendingInputs = << >>
         /\ input.kind = "policy" =>
              /\ Stage(j, input).phase = j.phase
              /\ Stage(j, input).pendingInputs = j.pendingInputs
              /\ Stage(j, input).mode = input.mode
<1>1. CASE input.kind = "recovery"
  <2>1. Fold(j, input) = Recover(j)
    BY <1>1 DEF Fold
  <2>2. Recover(j).phase = "idle" /\ Recover(j).pendingInputs = << >>
    BY DEF Recover, EndTurn, Active, JournalState
  <2>3. Stage(j, input).phase = Recover(j).phase
        /\ Stage(j, input).pendingInputs = Recover(j).pendingInputs
    BY <2>1 DEF Stage, Recover, EndTurn, JournalState
  <2> QED BY <1>1, <2>2, <2>3 DEF Active
<1>2. CASE input.kind = "policy"
  <2>1. Fold(j, input) = [j EXCEPT !.mode = input.mode]
    BY <1>2 DEF Fold
  <2> QED BY <1>2, <2>1 DEF Stage, JournalState
<1> QED BY <1>1, <1>2

\* The state in flight follows from the one the writer is in.
LEMMA PendingIsStaged ==
  ASSUME StorageInv, pending # None
  PROVE  /\ pending \in Pending /\ pending.input \in Inputs
         /\ durable \in JournalState
         /\ pending.next = Stage(durable, pending.input)
         /\ pending.expected = durable.revision
         /\ pending.next.revision = durable.revision + 1
<1>1. pending \in Pending /\ durable \in JournalState
  BY DEF StorageInv, TypeOK, WriterTypeOK
<1>2. /\ StagedOn(Batch(pending)) /\ pending.expected = durable.revision
      /\ durable = StateAt(durable.revision)
  BY DEF StorageInv, RequestsAreStaged, DurableIsStored
<1> QED BY <1>1, <1>2 DEF StagedOn, Batch, Pending

-----------------------------------------------------------------------------
\* Decisions

SelectionOfClient(sel) ==
  /\ sel.id \in SelectionIds
  /\ sel.fallback # None => sel.fallback.id \in SelectionIds

\* A writer that has stopped decides nothing any more, and one that stops keeps nothing.
LEMMA DeadDecides ==
  ASSUME DeadIsEmpty, Decide
  PROVE  DeadIsEmpty' /\ (Dead => Dead')
<1>1. ASSUME NEW end, NEW also, Stop(end, also)
      PROVE  queue' = << >> /\ selection' = None
  BY <1>1 DEF Stop
<1>2. CASE Dead
  <2>1. UNCHANGED <<status, queue, selection>> \/ Stop("closed", {})
    BY <1>2 DEF Decide, SubmitToDead, SubmitBusy, SubmitQueued, SubmitAdmitted, MustQueue,
                SelectToDead, Select, Reselect, StoredCurrent, StoredSuperseded, DrainSelection,
                AtBoundary, DrainDequeue, DrainQueue, DrainNothing, AppendCommitted,
                AppendIndeterminate, AppendRefused, LoadedCommitted, LoadedAbsent, LoadedUnusable,
                StorageIgnored, Close, Dead
  <2> QED BY <1>1, <1>2, <2>1 DEF DeadIsEmpty, Dead, Stop
<1>3. CASE ~Dead
  <2>1. SUFFICES ASSUME Dead'
                 PROVE  queue' = << >> /\ selection' = None
    BY <1>3 DEF DeadIsEmpty
  <2>2. ASSUME NEW s, NEW rest, NEW again, Admit(s, rest, again)
        PROVE  queue' = << >> /\ selection' = None
    BY <1>1, <1>3, <2>1, <2>2 DEF Admit, StageAppend, Dead
  <2>3. ASSUME NEW sel, NEW known, ApplySelection(sel, known) \/ SettleStored(sel, known)
        PROVE  FALSE
    BY <1>3, <2>1, <2>3 DEF ApplySelection, SettleStored, StageAppend, Dead
  <2>4. \/ \E s, rest, again : Admit(s, rest, again)
        \/ \E sel, known : ApplySelection(sel, known) \/ SettleStored(sel, known)
        \/ \E end, also : Stop(end, also)
        \/ Release \/ status' \in {status, "reconciling", "committing"}
    BY DEF Decide, SubmitToDead, SubmitBusy, SubmitQueued, SubmitAdmitted,
           SelectToDead, Select, Reselect, StoredCurrent, StoredSuperseded, DrainSelection,
           DrainDequeue, DrainQueue, DrainNothing, AppendCommitted,
           AppendIndeterminate, AppendRefused, LoadedCommitted, LoadedAbsent, LoadedUnusable,
           StorageIgnored, Close
  <2>5. ~(Release \/ status' \in {status, "reconciling", "committing"})
    BY <1>3, <2>1 DEF Release, Dead
  <2> QED BY <1>1, <2>2, <2>3, <2>4, <2>5
<1> QED BY <1>2, <1>3

\* What is selected is a client's selection, but for the one a restore makes.
LEMMA ClientsSelect ==
  ASSUME WriterTypeOK, IdsAreOwn, Decide, ~Reselect,
         selection # None => SelectionOfClient(selection)
  PROVE  selection' # None => SelectionOfClient(selection')
<1>1. /\ mailbox # << >> /\ Event = mailbox[1] /\ selection \in Selection \cup {None}
      /\ EventIsOwn(Event)
  BY DecideConsumes DEF WriterTypeOK, IdsAreOwn
<1>2. CASE selection' \in {selection, None}
  BY <1>2
<1>3. CASE Select
  <2>1. PICK m : selection' = Selected(Event.id, m, FALSE)
    BY <1>3 DEF Select
  <2>2. Event.id \in SelectionIds
    BY <1>1, <1>3 DEF Select, Deciding, Event, EventIsOwn
  <2> QED BY <2>1, <2>2 DEF Selected, SelectionOfClient
<1>4. CASE StoredCurrent
  <2>1. selection # None /\ selection \in Selection /\ SelectionOfClient(selection)
    BY <1>1, <1>4 DEF StoredCurrent
  <2>2. ASSUME NEW known, SettleStored([selection EXCEPT !.stored = TRUE], known)
        PROVE  selection' = None \/ SelectionOfClient(selection')
    <3> DEFINE sel == [selection EXCEPT !.stored = TRUE]
    <3>1. SelectionOfClient(sel)
      BY <2>1 DEF SelectionOfClient, Selection
    <3>2. selection' \in {sel, None}
      BY <2>2, SelectionKept
    <3> QED BY <3>1, <3>2
  <2>3. ASSUME NEW known, NEW m, NEW r, selection.fallback # None,
               SettleStored([id |-> selection.fallback.id, mode |-> m, stored |-> TRUE,
                             revokes |-> r, fallback |-> None], known)
        PROVE  selection' = None \/ SelectionOfClient(selection')
    <3> DEFINE sel == [id |-> selection.fallback.id, mode |-> m, stored |-> TRUE,
                       revokes |-> r, fallback |-> None]
    <3>1. SelectionOfClient(sel)
      BY <2>1, <2>3 DEF SelectionOfClient
    <3>2. selection' \in {sel, None}
      BY <2>3, SelectionKept
    <3> QED BY <3>1, <3>2
  <2> QED BY <1>4, <2>2, <2>3 DEF StoredCurrent
<1>5. CASE StoredSuperseded
  <2>1. Event.id \in SelectionIds
    BY <1>1, <1>5 DEF StoredSuperseded, Deciding, Event, EventIsOwn
  <2>2. CASE Event.ok /\ selection # None
    <3> DEFINE f == [id |-> Event.id, mode |-> Event.mode, revokes |-> selection.revokes]
    <3>1. selection' = [selection EXCEPT !.fallback = f] /\ f.id \in SelectionIds
      BY <1>5, <2>1, <2>2 DEF StoredSuperseded
    <3> HIDE DEF f
    <3> QED BY <1>1, <2>2, <3>1 DEF SelectionOfClient, Selection
  <2> QED BY <1>2, <1>5, <2>2 DEF StoredSuperseded
<1>6. CASE SubmitAdmitted \/ DrainDequeue \/ DrainQueue \/ DrainSelection
  <2>1. selection' \in {selection, None}
    BY <1>6, AdmitKept, SelectionKept DEF SubmitAdmitted, DrainDequeue, DrainQueue, DrainSelection
  <2> QED BY <1>2, <2>1
<1> QED
  BY <1>2, <1>3, <1>4, <1>5, <1>6
     DEF Decide, SubmitToDead, SubmitBusy, SubmitQueued, SelectToDead, DrainNothing,
         AppendCommitted, AppendIndeterminate, AppendRefused, LoadedCommitted, LoadedAbsent,
         LoadedUnusable, StorageIgnored, Close, Stop, Release, effectVars

\* What a runtime that restores the session decides while it has not failed: nothing, ...
Passes ==
  /\ Event.type \in {"drain", "appended", "loaded"}
  /\ Consume(<< >>)
  /\ UNCHANGED <<durable, queue, selection, storing, running, answers>>
  /\ \/ pending' = pending
     \/ pending # None /\ pending' # None /\ pending'.input = pending.input

\* ... or to stage its recovery or its selection.
Restages ==
  /\ \/ phase = "recovering" /\ Event.input.kind = "recovery" /\ Event.type = "submit"
        /\ StageAppend([id |-> Event.id, input |-> Event.input], << >>)
     \/ phase = "reselecting" /\ seen # durable.mode /\ Event.type = "reselect"
        /\ StageAppend([id |-> Event.id, input |-> PolicyInput(seen)], queue)
  /\ pending = None /\ selection' = None /\ answers' = answers

\* It admits its recovery, ...
LEMMA RecoveryIsStaged ==
  ASSUME StorageInv, RestoresOnly, Decide, ~Dead, ~Dead', phase \in RestorePhases,
         Deciding("submit")
  PROVE  Restages
<1>1. /\ mailbox # << >> /\ mailbox \in Seq(Events) /\ Event.type = "submit"
      /\ HasEvent({"submit"}) /\ HasEvent({"submit", "reselect"})
  <2>1. mailbox # << >> /\ mailbox \in Seq(Events) /\ Event.type = "submit"
    BY DEF Deciding, Event, StorageInv, TypeOK, WriterTypeOK
  <2> QED BY <2>1, EventIsHad
<1>2. queue = << >> /\ selection = None /\ phase = "recovering" /\ RecoveryUnderway
  <2>1. queue = << >> /\ selection = None
    BY DEF RestoresOnly
  <2>2. phase \notin {"restoring", "recovered", "reselecting"}
    BY <1>1 DEF RestoresOnly, ReselectUnderway, RestorePhases
  <2>3. phase = "recovering"
    BY <2>2 DEF RestorePhases
  <2> QED BY <2>1, <2>3 DEF RestoresOnly
<1>3. /\ pending = None
      /\ mailbox = <<Submit(RecoveryId(durable.turn), RecoveryInput(durable.turn))>>
  BY <1>1, <1>2 DEF RecoveryUnderway
<1>4. Event.input.kind = "recovery"
  BY <1>3 DEF Event, Submit, RecoveryInput
<1>5. status = "ready"
  BY <1>3 DEF StorageInv, TypeOK, WriterTypeOK, Dead
<1> DEFINE s == [id |-> Event.id, input |-> Event.input]
<1>6. s.input.kind = "recovery" /\ ~Busy(Event) /\ ~MustQueue(Event)
  BY <1>2, <1>4, <1>5 DEF Busy, MustQueue, AwaitsSelection
<1>7. Admit(s, << >>, << >>)
  BY <1>1, <1>6 DEF Decide, SubmitToDead, SubmitBusy, SubmitQueued, SubmitAdmitted, SelectToDead,
                    Select, Reselect, StoredCurrent, StoredSuperseded, DrainSelection,
                    DrainDequeue, DrainQueue, DrainNothing, AppendCommitted,
                    AppendIndeterminate, AppendRefused, LoadedCommitted, LoadedAbsent,
                    LoadedUnusable, StorageIgnored, Close, Deciding, Event
<1>8. Refusal(s) \in {"refused", "none"} /\ Internal(s)
  BY <1>6 DEF Refusal, Busy, Accepts, Internal
<1>9. StageAppend(s, << >>) /\ UNCHANGED <<selection, answers>>
  <2> HIDE DEF s
  <2> QED BY <1>7, <1>8 DEF Admit, Stop, Dead
<1> QED BY <1>1, <1>2, <1>3, <1>4, <1>9 DEF Restages

\* ... it stages its selection as soon as it is decided, ...
LEMMA ReselectionIsStaged ==
  ASSUME StorageInv, RestoresOnly, Decide, ~Dead, phase = "reselecting", Deciding("reselect")
  PROVE  Restages
<1>1. /\ mailbox # << >> /\ mailbox \in Seq(Events) /\ Event.type = "reselect"
      /\ Event \in Events /\ Event.id \in Ids /\ Event.mode \in Mode
      /\ HasEvent({"reselect"})
  <2>1. /\ mailbox # << >> /\ mailbox \in Seq(Events) /\ Event.type = "reselect"
        /\ Event \in Events
    BY DecideConsumes DEF Deciding, Event, StorageInv, TypeOK, WriterTypeOK
  <2> QED BY <2>1, EventIsHad, EventFields
<1>2. selection = None /\ ReselectUnderway
  BY DEF RestoresOnly, RestorePhases
<1>3. pending = None /\ Unapplied /\ ~Interrupted /\ Event.mode = seen
  <2>1. /\ pending = None /\ Unapplied /\ ~Interrupted
        /\ \A i \in DOMAIN mailbox : mailbox[i].type = "reselect" => mailbox[i].mode = seen
    BY <1>1, <1>2 DEF ReselectUnderway
  <2>2. 1 \in DOMAIN mailbox /\ Event = mailbox[1]
    BY <1>1 DEF Event
  <2> QED BY <1>1, <2>1, <2>2
<1>4. status = "ready"
  BY <1>3 DEF StorageInv, TypeOK, WriterTypeOK, Dead
<1> DEFINE sel == Selected(Event.id, Event.mode, TRUE)
<1>5. SettleStored(sel, Superseded)
  BY <1>1 DEF Decide, SubmitToDead, SubmitBusy, SubmitQueued, SubmitAdmitted, SelectToDead,
              Select, Reselect, StoredCurrent, StoredSuperseded, DrainSelection,
              DrainDequeue, DrainQueue, DrainNothing, AppendCommitted,
              AppendIndeterminate, AppendRefused, LoadedCommitted, LoadedAbsent,
              LoadedUnusable, StorageIgnored, Close, Deciding, Event
<1>6. sel.id = Event.id /\ sel.stored /\ sel.mode = seen
  BY <1>3 DEF Selected
<1>7. sel # None
  BY <1>1, SelectedType, NoneAssumption DEF StorageInv, TypeOK
<1>8. Superseded = answers
  BY <1>2 DEF Superseded
<1> HIDE DEF sel
<1>9. AtBoundary(sel)
  BY <1>3, <1>4, <1>7 DEF AtBoundary, Interrupted
<1>10. ApplySelection(sel, answers)
  BY <1>5, <1>8, <1>9 DEF SettleStored
<1>11. seen # durable.mode
  BY <1>3 DEF Unapplied
<1>12. /\ StageAppend([id |-> Event.id, input |-> PolicyInput(seen)], queue)
       /\ selection' = None /\ answers' = answers
  BY <1>6, <1>10, <1>11 DEF ApplySelection
<1> QED BY <1>1, <1>3, <1>11, <1>12 DEF Restages

\* ... it has nothing to drain, and its storage results are those of its append.
LEMMA RestoreCases ==
  ASSUME StorageInv, RestoresOnly, ReselectsAtOnce, Decide, ~Dead, ~Dead', phase \in RestorePhases
  PROVE  Passes \/ Restages \/ (pending # None /\ Release)
<1>1. mailbox # << >> /\ mailbox \in Seq(Events)
  BY DecideConsumes DEF StorageInv, TypeOK, WriterTypeOK
<1>2. CASE Deciding("submit")
  BY <1>2, RecoveryIsStaged
<1>3. CASE Deciding("reselect")
  <2>1. HasEvent({"reselect"})
    BY <1>1, <1>3, EventIsHad DEF Deciding, Event
  <2>2. phase = "reselecting"
    BY <2>1 DEF ReselectsAtOnce
  <2> QED BY <1>3, <2>2, ReselectionIsStaged
<1>4. CASE Deciding("select") \/ Deciding("stored") \/ Deciding("close")
  <2>1. HasEvent({"select", "stored", "close"})
    BY <1>1, <1>4, EventIsHad DEF Deciding, Event
  <2> QED BY <2>1 DEF RestoresOnly
<1>5. CASE DrainSelection \/ DrainDequeue \/ DrainQueue \/ DrainNothing
  <2>1. queue = << >> /\ selection = None
    BY DEF RestoresOnly
  <2>2. ~DrainSelection /\ ~DrainQueue
    BY <2>1 DEF DrainSelection, AtBoundary, DrainQueue
  <2>3. ~DrainDequeue
    <3>1. SUFFICES ASSUME DrainDequeue
                   PROVE  FALSE
      OBVIOUS
    <3>2. pending = None /\ Interrupted /\ Event.type = "drain"
      BY <3>1 DEF DrainDequeue, DequeueDue, Interrupted, StorageInv, TypeOK, WriterTypeOK,
                  Deciding, Event
    <3>3. (phase = "recovering" /\ RecoveryUnderway) \/ (phase = "restoring" /\ mailbox = << >>)
      BY <3>2 DEF RestoresOnly, RestorePhases, ReselectUnderway
    <3>4. mailbox = <<Submit(RecoveryId(durable.turn), RecoveryInput(durable.turn))>>
      BY <1>1, <3>2, <3>3 DEF RecoveryUnderway
    <3> QED BY <3>2, <3>4 DEF Event, Submit
  <2>4. DrainNothing
    BY <1>5, <2>2, <2>3
  <2> QED BY <2>4 DEF DrainNothing, Passes, effectVars, Deciding, Event
<1>6. CASE AppendIndeterminate \/ StorageIgnored
  <2>1. Event.type \in {"drain", "appended", "loaded"}
    BY <1>6 DEF AppendIndeterminate, StorageIgnored, Deciding, Event
  <2> QED BY <1>6, <2>1 DEF AppendIndeterminate, StorageIgnored, Passes, effectVars
<1>7. CASE LoadedAbsent
  <2>1. pending \in Pending /\ pending # None
    BY <1>7 DEF LoadedAbsent, InFlight, StorageInv, TypeOK, WriterTypeOK
  <2>2. pending' \in Pending /\ pending'.input = pending.input
    BY <1>7, <2>1, StorageTypes DEF LoadedAbsent, Pending, Retryable
  <2>3. pending' # None
    BY <2>2, NoneAssumption
  <2> QED BY <1>7, <2>1, <2>2, <2>3 DEF LoadedAbsent, Passes, Deciding, Event
<1>8. CASE AppendCommitted \/ LoadedCommitted
  BY <1>8 DEF AppendCommitted, LoadedCommitted, InFlight, Stop, Dead
<1>9. CASE AppendRefused \/ LoadedUnusable
  BY <1>9 DEF AppendRefused, LoadedUnusable, Stop, Dead
<1> QED
  BY <1>2, <1>3, <1>4, <1>5, <1>6, <1>7, <1>8, <1>9
     DEF Decide, SubmitToDead, SubmitBusy, SubmitQueued, SubmitAdmitted, SelectToDead,
         Select, Reselect, StoredCurrent, StoredSuperseded, Close

\* A restore goes on one step at a time, and does nothing else.
LEMMA RestoreDecides ==
  ASSUME StorageInv, AdmissionInv, RestoresOnly, ReselectsAtOnce, WriterDecides,
         ~Dead, ~Dead', phase \in RestorePhases
  PROVE  RestoresOnly'
<1>1. /\ Decide /\ UNCHANGED <<phase, seen>> /\ StorageInv'
      /\ mailbox # << >> /\ mailbox \in Seq(Events)
      /\ \E sends \in {<< >>, <<Drain>>} : Consume(sends)
  BY DecideConsumes, StorageStep DEF Next, WriterDecides, StorageInv, TypeOK, WriterTypeOK
<1>2. Passes \/ Restages \/ (pending # None /\ Release)
  BY <1>1, RestoreCases
<1>3. \A types : "drain" \notin types => (HasEvent(types)' => HasEvent(types))
  BY <1>1, EventsConsumed
<1>4. /\ queue = << >> /\ storing = << >> /\ selection = None /\ running = {}
      /\ ~HasEvent({"select", "stored", "close"})'
      /\ phase # "reselecting" => answers[<<"reselect">>] = "none"
      /\ phase # "restoring"
  BY <1>1, <1>3 DEF RestoresOnly
<1>5. CASE Passes
  <2>1. UNCHANGED <<durable, queue, selection, storing, running, answers>>
    BY <1>5 DEF Passes
  <2>2. CASE phase = "recovering"
    <3>1. RecoveryUnderway
      BY <2>2 DEF RestoresOnly
    <3>2. mailbox # <<Submit(RecoveryId(durable.turn), RecoveryInput(durable.turn))>>
      BY <1>5 DEF Passes, Event, Submit
    <3>3. ~HasEvent({"submit", "reselect"})'
      BY <1>3, <3>1, <3>2 DEF RecoveryUnderway
    <3>4. RecoveryUnderway'
      BY <1>5, <2>1, <3>1, <3>2, <3>3 DEF RecoveryUnderway, Passes, Interrupted
    <3> QED BY <1>1, <1>4, <2>1, <2>2, <3>4 DEF RestoresOnly
  <2>3. CASE phase = "recovered"
    <3>1. ~Interrupted /\ pending = None /\ ~HasEvent({"submit", "reselect"})'
      BY <1>3, <2>3 DEF RestoresOnly
    <3> QED BY <1>1, <1>4, <1>5, <2>1, <2>3, <3>1 DEF RestoresOnly, Passes, Interrupted
  <2>4. CASE phase = "reselecting"
    <3>1. ReselectUnderway
      BY <2>4 DEF RestoresOnly
    <3>2. /\ ~HasEvent({"submit"})'
          /\ ~HasEvent({"reselect"}) => ~HasEvent({"reselect"})'
      BY <1>3, <3>1 DEF ReselectUnderway
    <3>3. ASSUME \A i, j \in DOMAIN mailbox :
                   mailbox[i].type = "reselect" =>
                     mailbox[i].mode = seen /\ (mailbox[j].type = "reselect" => i = j)
          PROVE  \A i, j \in DOMAIN mailbox' :
                   mailbox'[i].type = "reselect" =>
                     mailbox'[i].mode = seen /\ (mailbox'[j].type = "reselect" => i = j)
      <4>1. /\ \A i \in DOMAIN mailbox' : i \in Nat
            /\ \A i \in DOMAIN mailbox' :
                 \/ i + 1 \in DOMAIN mailbox /\ mailbox'[i] = mailbox[i + 1]
                 \/ mailbox'[i] = Drain
        BY <1>1, MailboxLeft
      <4>2. Drain.type = "drain"
        BY DEF Drain
      <4>3. ASSUME NEW i \in DOMAIN mailbox', NEW j \in DOMAIN mailbox',
                   mailbox'[i].type = "reselect"
            PROVE  mailbox'[i].mode = seen /\ (mailbox'[j].type = "reselect" => i = j)
        <5>1. i + 1 \in DOMAIN mailbox /\ mailbox'[i] = mailbox[i + 1]
          BY <4>1, <4>2, <4>3
        <5>2. mailbox'[j].type = "reselect" => i + 1 = j + 1
          BY <3>3, <4>1, <4>2, <4>3, <5>1
        <5> QED BY <3>3, <4>1, <4>3, <5>1, <5>2
      <4> QED BY <4>3
    <3>4. ReselectUnderway'
      BY <1>1, <1>5, <2>1, <3>1, <3>2, <3>3
         DEF ReselectUnderway, Passes, Interrupted, Unapplied
    <3> QED BY <1>1, <1>4, <2>1, <2>4, <3>4 DEF RestoresOnly
  <2> QED BY <1>4, <2>2, <2>3, <2>4 DEF RestorePhases
<1>6. CASE Restages
  <2>1. PICK s : /\ StageAppend(s, << >>)
                 /\ \/ /\ phase = "recovering" /\ Event.type = "submit"
                       /\ s.input.kind = "recovery"
                    \/ /\ phase = "reselecting" /\ Event.type = "reselect"
                       /\ s.input = PolicyInput(seen)
    <3>1. queue = << >>
      BY <1>4
    <3> QED BY <1>6, <3>1 DEF Restages
  <2>2. /\ pending' # None /\ pending'.input = s.input
        /\ UNCHANGED <<durable, storing, running, answers>> /\ queue' = << >> /\ selection' = None
    <3>1. status' = "committing"
      BY <2>1 DEF StageAppend
    <3>2. pending' # None
      BY <1>1, <3>1 DEF StorageInv, TypeOK, WriterTypeOK
    <3> QED BY <1>6, <2>1, <3>2 DEF StageAppend, Restages
  <2>3. CASE phase = "recovering"
    <3>1. RecoveryUnderway /\ Event.type = "submit" /\ s.input.kind = "recovery"
      BY <2>1, <2>3 DEF RestoresOnly
    <3>2. HasEvent({"submit", "reselect"}) /\ pending = None
      BY <1>1, <1>6, <3>1, EventIsHad DEF Restages
    <3>3. /\ mailbox = <<Submit(RecoveryId(durable.turn), RecoveryInput(durable.turn))>>
          /\ answers[<<"recovery">>] = "none"
      BY <3>1, <3>2 DEF RecoveryUnderway
    <3>4. mailbox' = << >>
      BY <2>1, <3>3 DEF StageAppend, Consume
    <3>5. RecoveryUnderway'
      BY <2>2, <3>1, <3>3, <3>4 DEF RecoveryUnderway, HasEvent
    <3> QED BY <1>1, <1>4, <2>2, <2>3, <3>5 DEF RestoresOnly
  <2>4. CASE phase = "reselecting"
    <3>1. ReselectUnderway /\ Event.type = "reselect" /\ s.input = PolicyInput(seen)
      BY <2>1, <2>4 DEF RestoresOnly
    <3>2. HasEvent({"reselect"}) /\ pending = None
      BY <1>1, <1>6, <3>1, EventIsHad DEF Restages
    <3>3. /\ answers[<<"reselect">>] = "none" /\ ~Interrupted /\ ~HasEvent({"submit"})'
          /\ \A i, j \in DOMAIN mailbox :
               mailbox[i].type = "reselect" => (mailbox[j].type = "reselect" => i = j)
      BY <1>3, <3>1, <3>2 DEF ReselectUnderway
    <3>4. ~HasEvent({"reselect"})'
      <4>1. /\ 1 \in DOMAIN mailbox /\ mailbox[1].type = "reselect"
            /\ \A i \in DOMAIN mailbox' : i \in Nat \ {0}
            /\ \A i \in DOMAIN mailbox' :
                 \/ i + 1 \in DOMAIN mailbox /\ mailbox'[i] = mailbox[i + 1]
                 \/ mailbox'[i] = Drain
        BY <1>1, <3>1, MailboxLeft DEF Event
      <4>2. Drain.type = "drain"
        BY DEF Drain
      <4>3. ASSUME NEW i \in DOMAIN mailbox', mailbox'[i].type = "reselect"
            PROVE  FALSE
        <5>1. i + 1 \in DOMAIN mailbox /\ mailbox[i + 1].type = "reselect"
          BY <4>1, <4>2, <4>3
        <5>2. i + 1 = 1
          BY <3>3, <4>1, <5>1
        <5> QED BY <4>1, <4>3, <5>2
      <4> QED BY <4>3 DEF HasEvent
    <3>5. ReselectUnderway'
      BY <1>1, <2>2, <3>1, <3>3, <3>4 DEF ReselectUnderway, Interrupted
    <3> QED BY <1>1, <1>4, <2>2, <2>4, <3>5 DEF RestoresOnly
  <2> QED BY <2>1, <2>3, <2>4
<1>7. CASE pending # None /\ Release
  <2>1. /\ durable' = Stage(durable, pending.input) /\ pending' = None
        /\ UNCHANGED <<queue, selection, storing>>
        /\ durable \in JournalState /\ pending.input \in Inputs
    BY <1>7, PendingIsStaged DEF Release
  <2>2. CASE phase = "recovering"
    <3>1. pending.input.kind = "recovery" /\ ~HasEvent({"submit", "reselect"})'
      BY <1>3, <1>7, <2>2 DEF RestoresOnly, RecoveryUnderway
    <3>2. ~Interrupted' /\ ~Active(durable')
      BY <2>1, <3>1, OpeningStages DEF Interrupted
    <3>3. /\ running' = running
          /\ answers'[<<"reselect">>] = "none"
      <4>1. running' = running
        BY <1>7, <2>1, <3>2 DEF Release, Starts
      <4>2. \E t : pending.id = RecoveryId(t)
        <5>1. Fit(Batch(pending))
          BY <1>7 DEF AdmissionInv, RequestsAreFit, Underway
        <5> QED BY <3>1, <5>1 DEF Fit, Batch, IdsOf
      <4>3. Caller(pending.id) # <<"reselect">>
        BY <4>2 DEF Caller, RecoveryId
      <4>4. <<"reselect">> \in Callers
        BY DEF Callers
      <4>5. answers'[<<"reselect">>] = answers[<<"reselect">>]
        BY <1>7, <4>3, <4>4 DEF Release, ReleaseAnswers, Told
      <4> QED BY <1>4, <2>2, <4>1, <4>5
    <3>4. RecoveryUnderway'
      BY <2>1, <3>1, <3>2 DEF RecoveryUnderway
    <3> QED BY <1>1, <1>4, <2>1, <2>2, <3>3, <3>4 DEF RestoresOnly
  <2>3. CASE phase = "recovered"
    BY <1>7, <2>3 DEF RestoresOnly
  <2>4. CASE phase = "reselecting"
    <3>1. /\ pending.input = PolicyInput(seen) /\ ~Interrupted
          /\ ~HasEvent({"submit"})' /\ ~HasEvent({"reselect"})'
      BY <1>3, <1>7, <2>4 DEF RestoresOnly, ReselectUnderway
    <3>2. /\ durable'.mode = seen /\ ~Interrupted' /\ ~Active(durable')
      BY <2>1, <3>1, OpeningStages DEF Interrupted, PolicyInput, Active
    <3>3. running' = running
      BY <1>7, <2>1, <3>2 DEF Release, Starts
    <3>4. ReselectUnderway'
      BY <1>1, <2>1, <3>1, <3>2 DEF ReselectUnderway
    <3> QED BY <1>1, <1>4, <2>1, <2>4, <3>3, <3>4 DEF RestoresOnly
  <2> QED BY <1>4, <2>2, <2>3, <2>4 DEF RestorePhases
<1> QED BY <1>2, <1>5, <1>6, <1>7

\* Every decision keeps the invariant of the opening.
LEMMA OpeningDecides ==
  ASSUME StorageInv, AdmissionInv, OpeningInv, WriterDecides
  PROVE  OpeningInv'
<1>1. /\ Decide /\ UNCHANGED <<phase, seen>>
      /\ mailbox # << >> /\ mailbox \in Seq(Events) /\ WriterTypeOK /\ IdsAreOwn
      /\ \E sends \in {<< >>, <<Drain>>} : Consume(sends)
      /\ DeadIsEmpty /\ RestoresOnly /\ ReselectsAtOnce
  BY DecideConsumes DEF WriterDecides, StorageInv, TypeOK, WriterTypeOK, AdmissionInv, OpeningInv
<1>2. DeadIsEmpty' /\ (Dead => Dead')
  BY <1>1, DeadDecides
<1>3. RestoresOnly'
  <2>1. CASE ~Dead' /\ phase \in RestorePhases
    BY <1>1, <1>2, <2>1, RestoreDecides
  <2>2. CASE ~(~Dead' /\ phase \in RestorePhases)
    BY <1>1, <2>2 DEF RestoresOnly
  <2> QED BY <2>1, <2>2
<1>4. ReselectsAtOnce'
  <2>1. HasEvent({"reselect"})' => HasEvent({"reselect"})
    BY <1>1, EventsConsumed
  <2>2. selection # None => SelectionOfClient(selection)
    BY <1>1 DEF ReselectsAtOnce, SelectionOfClient
  <2>3. selection' # None => SelectionOfClient(selection')
    <3>1. CASE Reselect
      <4>1. Deciding("reselect") /\ HasEvent({"reselect"}) /\ ~Dead
        BY <1>1, <3>1, EventIsHad DEF Reselect, Deciding, Event
      <4>2. phase = "reselecting"
        BY <1>1, <4>1 DEF ReselectsAtOnce
      <4>3. selection' = None
        BY <1>1, <4>1, <4>2, ReselectionIsStaged DEF Restages
      <4> QED BY <4>3
    <3>2. CASE ~Reselect
      BY <1>1, <2>2, <3>2, ClientsSelect
    <3> QED BY <3>1, <3>2
  <2> QED BY <1>1, <1>2, <2>1, <2>3 DEF ReselectsAtOnce, SelectionOfClient
<1> QED BY <1>2, <1>3, <1>4 DEF OpeningInv

-----------------------------------------------------------------------------
\* The steps around the actor

\* What the opening sequence of a restore does itself.
LEMMA SequenceKeeps ==
  ASSUME StorageInv, OpeningInv, Opening, ~Vanish
  PROVE  OpeningInv'
<1>1. /\ mailbox \in Seq(Events) /\ DeadIsEmpty /\ RestoresOnly /\ ReselectsAtOnce
      /\ answers \in [Callers -> Answers]
  BY DEF StorageInv, TypeOK, WriterTypeOK, OpeningInv
<1>2. CASE RestoreJournal
  <2>1. /\ pending = None /\ mailbox = << >> /\ storing = << >> /\ running = {}
        /\ queue = << >> /\ selection = None
    BY <1>1, <1>2 DEF RestoreJournal, StorageInv, GoneIsQuiet, DeadIsEmpty
  <2>2. answers'[<<"recovery">>] = "none" /\ answers'[<<"reselect">>] = "none"
    BY <1>1, <1>2 DEF RestoreJournal, Callers
  <2>3. /\ UNCHANGED <<queue, pending, selection, mailbox, storing, running>>
        /\ phase' = "restoring" /\ status' = "ready"
    BY <1>2 DEF RestoreJournal
  <2>4. \A types : ~HasEvent(types)'
    BY <2>1, <2>3 DEF HasEvent
  <2>5. RestoresOnly'
    BY <2>1, <2>2, <2>3, <2>4 DEF RestoresOnly
  <2> QED BY <2>1, <2>3, <2>4, <2>5 DEF OpeningInv, DeadIsEmpty, ReselectsAtOnce
<1>3. CASE ~RestoreJournal
  <2>1. UNCHANGED <<status, durable, queue, pending, selection, storing, running, answers>>
    BY <1>3 DEF Opening, CreateDone, CreateFailed, RestoreConfig, RestoreRecovered, RestoreFailed,
                RestoreReselects, RestoreDone, Opens, unposted
  <2>2. DeadIsEmpty' /\ (Dead' <=> Dead)
    BY <1>1, <2>1 DEF DeadIsEmpty, Dead
  <2>3. CASE Dead
    <3>1. RestoresOnly'
      BY <2>2, <2>3 DEF RestoresOnly
    <3>2. ReselectsAtOnce'
      BY <1>1, <2>1, <2>2, <2>3 DEF ReselectsAtOnce
    <3> QED BY <2>2, <3>1, <3>2 DEF OpeningInv
  <2>4. ASSUME ~Dead, RestoresOnly', HasEvent({"reselect"})' => phase' = "reselecting"
        PROVE  OpeningInv'
    BY <1>1, <2>1, <2>2, <2>4 DEF OpeningInv, ReselectsAtOnce
  <2>5. CASE ~Dead /\ RestoreConfig
    <3>1. /\ queue = << >> /\ storing = << >> /\ selection = None /\ running = {}
          /\ pending = None /\ mailbox = << >>
          /\ answers[<<"recovery">>] = "none" /\ answers[<<"reselect">>] = "none"
      BY <1>1, <2>5 DEF RestoresOnly, RestorePhases, RestoreConfig
    <3>2. CASE Interrupted
      <4> DEFINE e == Submit(RecoveryId(durable.turn), RecoveryInput(durable.turn))
      <4>1. mailbox' = <<e>> /\ phase' = "recovering" /\ e.type = "submit"
        BY <2>5, <3>1, <3>2 DEF RestoreConfig, Post, Submit
      <4>2. RecoveryUnderway'
        BY <2>1, <3>1, <4>1 DEF RecoveryUnderway
      <4> HIDE DEF e
      <4>3. DOMAIN mailbox' = {1} /\ mailbox'[1] = e
        BY <4>1
      <4>4. ~HasEvent({"select", "stored", "close"})' /\ ~HasEvent({"reselect"})'
        BY <4>1, <4>3 DEF HasEvent
      <4>5. RestoresOnly'
        BY <2>1, <3>1, <4>1, <4>2, <4>4 DEF RestoresOnly
      <4> QED BY <2>4, <2>5, <4>4, <4>5
    <3>3. CASE ~Interrupted
      <4>1. mailbox' = mailbox /\ phase' = "recovered"
        BY <2>5, <3>3 DEF RestoreConfig
      <4>2. \A types : ~HasEvent(types)'
        BY <3>1, <4>1 DEF HasEvent
      <4>3. RestoresOnly'
        BY <2>1, <3>1, <3>3, <4>1, <4>2 DEF RestoresOnly, Interrupted
      <4> QED BY <2>4, <2>5, <4>2, <4>3
    <3> QED BY <3>2, <3>3
  <2>6. CASE ~Dead /\ RestoreRecovered
    <3>1. /\ phase = "recovering" /\ phase' = "recovered" /\ answers[<<"recovery">>] # "none"
          /\ mailbox' = mailbox
      BY <2>6 DEF RestoreRecovered, Opens
    <3>2. /\ queue = << >> /\ storing = << >> /\ selection = None /\ running = {}
          /\ answers[<<"reselect">>] = "none" /\ ~HasEvent({"select", "stored", "close"})
          /\ RecoveryUnderway
      BY <1>1, <2>6, <3>1 DEF RestoresOnly, RestorePhases
    <3>3. ~Interrupted /\ pending = None /\ ~HasEvent({"submit", "reselect"})
      BY <3>1, <3>2 DEF RecoveryUnderway
    <3>4. RestoresOnly' /\ ~HasEvent({"reselect"})'
      BY <2>1, <3>1, <3>2, <3>3 DEF RestoresOnly, HasEvent, Interrupted
    <3> QED BY <2>4, <2>6, <3>4
  <2>7. CASE ~Dead /\ RestoreReselects
    <3>1. /\ queue = << >> /\ storing = << >> /\ selection = None /\ running = {}
          /\ answers[<<"reselect">>] = "none" /\ ~HasEvent({"select", "stored", "close"})
          /\ ~Interrupted /\ pending = None /\ ~HasEvent({"submit", "reselect"})
      BY <1>1, <2>7 DEF RestoresOnly, RestorePhases, RestoreReselects
    <3>2. CASE Unapplied
      <4> DEFINE e == [type |-> "reselect", id |-> <<"reselect", restores>>, mode |-> seen]
      <4>1. /\ mailbox' = Append(mailbox, e) /\ phase' = "reselecting" /\ seen' = seen
            /\ e.type = "reselect" /\ e.mode = seen
        BY <2>7, <3>2 DEF RestoreReselects, Post, Opens, historyVars
      <4> HIDE DEF e
      <4>2. /\ ~HasEvent({"select", "stored", "close"})' /\ ~HasEvent({"submit"})'
        BY <1>1, <3>1, <4>1, EventsPosted DEF HasEvent
      <4>3. \A i \in DOMAIN mailbox' :
              \/ i \in DOMAIN mailbox /\ mailbox'[i] = mailbox[i]
              \/ i = Len(mailbox) + 1 /\ mailbox'[i] = e
        BY <1>1, <4>1, MailboxMore
      <4>4. \A i \in DOMAIN mailbox : mailbox[i].type # "reselect"
        BY <3>1 DEF HasEvent
      <4>5. \A i, j \in DOMAIN mailbox' :
              mailbox'[i].type = "reselect" =>
                mailbox'[i].mode = seen /\ (mailbox'[j].type = "reselect" => i = j)
        BY <4>1, <4>3, <4>4
      <4>6. ReselectUnderway'
        BY <2>1, <3>1, <3>2, <4>1, <4>2, <4>5
           DEF ReselectUnderway, Interrupted, Unapplied
      <4>7. RestoresOnly'
        BY <2>1, <3>1, <4>1, <4>2, <4>6 DEF RestoresOnly
      <4> QED BY <2>4, <2>7, <4>1, <4>7
    <3>3. CASE ~Unapplied
      <4>1. phase' = "open" /\ mailbox' = mailbox
        BY <2>7, <3>3 DEF RestoreReselects, Opens
      <4>2. RestoresOnly' /\ ~HasEvent({"reselect"})'
        BY <3>1, <4>1 DEF RestoresOnly, RestorePhases, HasEvent
      <4> QED BY <2>4, <2>7, <4>2
    <3> QED BY <3>2, <3>3
  <2>8. CASE ~Dead /\ (RestoreDone \/ CreateDone)
    <3>1. /\ phase' = "open" /\ mailbox' = mailbox
          /\ \/ phase = "reselecting" /\ answers[<<"reselect">>] # "none"
             \/ phase = "creating"
      BY <2>8 DEF RestoreDone, CreateDone, Opens, Answered
    <3>2. ~HasEvent({"reselect"})
      BY <1>1, <2>8, <3>1
         DEF RestoresOnly, RestorePhases, ReselectUnderway, ReselectsAtOnce
    <3>3. RestoresOnly' /\ ~HasEvent({"reselect"})'
      BY <3>1, <3>2 DEF RestoresOnly, RestorePhases, HasEvent
    <3> QED BY <2>4, <2>8, <3>3
  <2> QED BY <1>3, <2>3, <2>5, <2>6, <2>7, <2>8 DEF Opening, CreateFailed, RestoreFailed
<1> QED BY <1>2, <1>3

\* A step that posts what does not belong to a restore happens in an open session.
LEMMA PostKeepsOpening ==
  ASSUME StorageInv, OpeningInv,
         UNCHANGED <<status, durable, queue, pending, selection, answers, phase>>,
         \/ mailbox' = mailbox /\ UNCHANGED <<storing, running, seen>>
         \/ /\ \E e : mailbox' = Append(mailbox, e) /\ e.type # "reselect"
            /\ \/ Dead \/ phase \notin RestorePhases
               \/ /\ pending # None /\ UNCHANGED <<storing, running, seen>>
                  /\ \E e : mailbox' = Append(mailbox, e) /\ e.type \in {"appended", "loaded"}
  PROVE  OpeningInv'
<1>1. /\ mailbox \in Seq(Events) /\ DeadIsEmpty /\ RestoresOnly /\ ReselectsAtOnce
      /\ (Dead' <=> Dead) /\ (Interrupted' <=> Interrupted)
  BY DEF StorageInv, TypeOK, WriterTypeOK, OpeningInv, Dead, Interrupted
<1>2. DeadIsEmpty'
  BY <1>1 DEF DeadIsEmpty
<1>3. ReselectsAtOnce'
  <2>1. HasEvent({"reselect"})' => HasEvent({"reselect"})
    <3>1. CASE mailbox' = mailbox
      BY <3>1 DEF HasEvent
    <3>2. CASE \E e : mailbox' = Append(mailbox, e) /\ e.type # "reselect"
      BY <1>1, <3>2, EventsPosted
    <3> QED BY <3>1, <3>2
  <2> QED BY <1>1, <2>1 DEF ReselectsAtOnce
<1>4. RestoresOnly'
  <2>1. CASE Dead \/ phase \notin RestorePhases
    BY <1>1, <2>1 DEF RestoresOnly
  <2>2. CASE mailbox' = mailbox /\ UNCHANGED <<storing, running, seen>>
    <3>1. \A types : HasEvent(types)' <=> HasEvent(types)
      BY <2>2 DEF HasEvent
    <3>2. RecoveryUnderway => RecoveryUnderway'
      BY <1>1, <2>2, <3>1 DEF RecoveryUnderway
    <3>3. ReselectUnderway => ReselectUnderway'
      BY <1>1, <2>2, <3>1 DEF ReselectUnderway, Unapplied
    <3>4. CASE Dead \/ phase \notin RestorePhases
      BY <1>1, <2>2, <3>4 DEF RestoresOnly
    <3>5. CASE ~Dead /\ phase \in RestorePhases
      <4>1. /\ queue' = << >> /\ storing' = << >> /\ selection' = None /\ running' = {}
            /\ ~HasEvent({"select", "stored", "close"})'
            /\ phase # "reselecting" => answers'[<<"reselect">>] = "none"
        BY <1>1, <2>2, <3>1, <3>5 DEF RestoresOnly
      <4>2. CASE phase = "restoring"
        BY <1>1, <2>2, <3>5, <4>1, <4>2 DEF RestoresOnly
      <4>3. CASE phase = "recovering"
        BY <1>1, <2>2, <3>2, <3>5, <4>1, <4>3 DEF RestoresOnly
      <4>4. CASE phase = "recovered"
        BY <1>1, <2>2, <3>1, <3>5, <4>1, <4>4 DEF RestoresOnly
      <4>5. CASE phase = "reselecting"
        BY <1>1, <2>2, <3>3, <3>5, <4>1, <4>5 DEF RestoresOnly
      <4> QED BY <3>5, <4>2, <4>3, <4>4, <4>5 DEF RestorePhases
    <3> QED BY <3>4, <3>5
  <2>3. CASE /\ ~Dead /\ phase \in RestorePhases
             /\ pending # None /\ UNCHANGED <<storing, running, seen>>
             /\ \E e : mailbox' = Append(mailbox, e) /\ e.type \in {"appended", "loaded"}
    <3>1. \A types : types \cap {"appended", "loaded"} = {} => (HasEvent(types)' => HasEvent(types))
      BY <1>1, <2>3, EventsPosted
    <3>2. RecoveryUnderway => RecoveryUnderway'
      BY <1>1, <2>3, <3>1 DEF RecoveryUnderway
    <3>3. ReselectUnderway => ReselectUnderway'
      BY <1>1, <2>3, <3>1 DEF ReselectUnderway
    <3>4. /\ queue' = << >> /\ storing' = << >> /\ selection' = None /\ running' = {}
          /\ ~HasEvent({"select", "stored", "close"})'
          /\ phase # "reselecting" => answers'[<<"reselect">>] = "none"
      BY <1>1, <2>3, <3>1 DEF RestoresOnly
    <3>5. phase \notin {"restoring", "recovered"}
      BY <1>1, <2>3 DEF RestoresOnly
    <3>6. CASE phase = "recovering"
      BY <1>1, <2>3, <3>2, <3>4, <3>6 DEF RestoresOnly
    <3>7. CASE phase = "reselecting"
      BY <1>1, <2>3, <3>3, <3>4, <3>7 DEF RestoresOnly
    <3> QED BY <2>3, <3>5, <3>6, <3>7 DEF RestorePhases
  <2> QED BY <2>1, <2>2, <2>3
<1> QED BY <1>2, <1>3, <1>4 DEF OpeningInv

\* The port answers calls of the append in flight.
LEMMA PortKeepsOpening ==
  ASSUME StorageInv, OpeningInv, Port
  PROVE  OpeningInv'
<1>1. ~Dead /\ phase \in RestorePhases =>
        storing = << >> /\ (io # None => pending # None)
  BY DEF OpeningInv, RestoresOnly, StorageInv, OneStorageCall
<1>2. ASSUME NEW request, NEW result, NEW revision, Appending, Appended(request, result, revision)
      PROVE  OpeningInv'
  <2> DEFINE e == [type |-> "appended", id |-> request.id, result |-> result,
                   revision |-> revision]
  <2>1. /\ UNCHANGED <<status, durable, queue, pending, selection, answers, phase, storing,
                       running, seen>>
        /\ mailbox' = Append(mailbox, e) /\ e.type = "appended" /\ io # None
    BY <1>2 DEF Appended, Post, unposted, historyVars, Appending
  <2> HIDE DEF e
  <2> QED BY <1>1, <2>1, PostKeepsOpening
<1>3. CASE PortLoads
  <2>1. PICK ok, batches :
          mailbox' = Append(mailbox, [type |-> "loaded", id |-> io.id, ok |-> ok,
                                      batches |-> batches])
    BY <1>3 DEF PortLoads, Post
  <2> DEFINE e == [type |-> "loaded", id |-> io.id, ok |-> ok, batches |-> batches]
  <2>2. /\ UNCHANGED <<status, durable, queue, pending, selection, answers, phase, storing,
                       running, seen>>
        /\ mailbox' = Append(mailbox, e) /\ e.type = "loaded" /\ io # None
    BY <1>3, <2>1 DEF PortLoads, unposted, historyVars
  <2> HIDE DEF e
  <2> QED BY <1>1, <2>2, PostKeepsOpening
<1>4. CASE PortStores
  <2>1. PICK ok : mailbox' = Append(mailbox, [type |-> "stored", id |-> Head(storing).id,
                                              mode |-> Head(storing).mode, ok |-> ok])
    BY <1>4 DEF PortStores, Post
  <2> DEFINE e == [type |-> "stored", id |-> Head(storing).id, mode |-> Head(storing).mode,
                   ok |-> ok]
  <2>2. /\ UNCHANGED <<status, durable, queue, pending, selection, answers, phase>>
        /\ mailbox' = Append(mailbox, e) /\ e.type # "reselect" /\ storing # << >>
    BY <1>4, <2>1 DEF PortStores, unposted
  <2> HIDE DEF e
  <2>3. Dead \/ phase \notin RestorePhases
    BY <1>1, <2>2
  <2> QED BY <2>2, <2>3, PostKeepsOpening
<1> QED BY <1>2, <1>3, <1>4 DEF Port, PortAppends, PortLosesAck, PortRejects, PortMisreports,
                                PortCancels

\* Every step keeps the invariant of the opening.
LEMMA OpeningStep == StorageInv /\ AdmissionInv /\ OpeningInv /\ [Next]_vars => OpeningInv'
<1> SUFFICES ASSUME StorageInv, AdmissionInv, OpeningInv, [Next]_vars
             PROVE  OpeningInv'
  OBVIOUS
<1>1. CASE WriterDecides
  BY <1>1, OpeningDecides
<1>2. CASE Client
  <2>1. phase = "open" /\ UNCHANGED <<status, durable, queue, pending, selection, answers, phase>>
    BY <1>2 DEF Client, SendUser, SendSystem, SendAbort, SendSelect, SendClose, SendRequest,
                unposted, sessionVars
  <2>2. \E e : mailbox' = Append(mailbox, e) /\ e.type # "reselect"
    <3>1. CASE SendClose
      BY <3>1 DEF SendClose, Post
    <3>2. CASE ~SendClose
      <4>1. \/ \E u \in Users : mailbox' = Append(mailbox, Submit(UserId(u), UserInput(u)))
            \/ \E s \in Systems : mailbox' = Append(mailbox, Submit(<<"system", s>>, SystemInput))
            \/ \E a \in Aborts : mailbox' = Append(mailbox, Submit(<<"abort", a>>, AbortInput))
            \/ \E c \in Selects, patch \in Patches :
                 mailbox' = Append(mailbox, [type |-> "select", id |-> <<"select", c>>,
                                             patch |-> patch])
        BY <1>2, <3>2 DEF Client, SendUser, SendSystem, SendAbort, SendSelect, SendRequest, Post
      <4>2. \A id, input : Submit(id, input).type # "reselect"
        BY DEF Submit
      <4>3. \A id, patch : [type |-> "select", id |-> id, patch |-> patch].type # "reselect"
        OBVIOUS
      <4> QED BY <4>1, <4>2, <4>3
    <3> QED BY <3>1, <3>2
  <2>3. phase \notin RestorePhases
    BY <2>1 DEF RestorePhases
  <2> QED BY <2>1, <2>2, <2>3, PostKeepsOpening
<1>3. CASE Host
  <2>1. PICK op \in running, r \in HostResults : ChildSettles(op, r)
    BY <1>3 DEF Host
  <2> DEFINE e == Submit(ChildId(op.turn, op.generation), ChildInput(op.turn, op.generation, r))
  <2>2. /\ mailbox' = Append(mailbox, e) /\ e.type # "reselect"
        /\ UNCHANGED <<status, durable, queue, pending, selection, answers, phase>>
    BY <2>1 DEF ChildSettles, Post, Submit, sessionVars
  <2> HIDE DEF e
  <2>3. Dead \/ phase \notin RestorePhases
    BY <2>1 DEF OpeningInv, RestoresOnly
  <2> QED BY <2>2, <2>3, PostKeepsOpening
<1>4. CASE Port
  BY <1>4, PortKeepsOpening
<1>5. CASE Vanish
  <2>1. phase' = "down" /\ status' = "closed" /\ queue' = << >> /\ selection' = None
    BY <1>5 DEF Vanish
  <2> QED BY <2>1 DEF OpeningInv, DeadIsEmpty, RestoresOnly, RestorePhases, ReselectsAtOnce, Dead
<1>6. CASE World /\ ~Vanish
  BY <1>6, PostKeepsOpening
     DEF World, Crash, ForeignAppends, OrphanLands, NotWriter, writerVars, effectVars, historyVars
<1>7. CASE Opening /\ ~Vanish
  BY <1>7, SequenceKeeps
<1>8. CASE UNCHANGED vars
  BY <1>8, PostKeepsOpening DEF vars, writerVars, effectVars, sessionVars, historyVars
<1> QED BY <1>1, <1>2, <1>3, <1>4, <1>5, <1>6, <1>7, <1>8 DEF Next

\* A session that is created has nothing of a restore.
LEMMA OpeningInit == Init => OpeningInv
<1> SUFFICES ASSUME Init
             PROVE  OpeningInv
  OBVIOUS
<1>1. /\ status = "ready" /\ phase = "creating" /\ selection = None
      /\ DOMAIN mailbox = {1} /\ mailbox[1].type = "submit"
  BY DEF Init, Submit
<1> QED BY <1>1 DEF OpeningInv, DeadIsEmpty, RestoresOnly, RestorePhases, ReselectsAtOnce, Dead,
                    HasEvent

\* A runtime that restores the session stages its recovery, then the selection it found
\* stored, and does nothing else until it is open or has failed.
THEOREM OpeningSafe == Spec => [](StorageInv /\ AdmissionInv /\ OpeningInv)
<1>1. Init => StorageInv /\ AdmissionInv /\ OpeningInv
  BY StorageInit, AdmissionInit, OpeningInit
<1>2. StorageInv /\ AdmissionInv /\ OpeningInv /\ [Next]_vars
        => StorageInv' /\ AdmissionInv' /\ OpeningInv'
  BY StorageStep, FitStep, IdsStep, OpeningStep DEF AdmissionInv, StorageInv
<1> QED BY <1>1, <1>2, PTL DEF Spec

\* Whenever a restore resolves with a working session, no turn runs, no input is queued
\* and the selection stored by the last runtime is in force.
THEOREM RestoresAtRest == Spec => RestoreOpensAtRest
<1>1. ASSUME OpeningInv, [Next]_vars,
             phase \in {"recovered", "reselecting"}, phase' = "open", ~Dead
      PROVE  /\ ~Active(durable) /\ durable.pendingInputs = << >>
             /\ seen \in {None, durable.mode}
  <2>1. RestoreReselects \/ RestoreDone
    BY <1>1 DEF Next, WriterDecides, Client, SendUser, SendSystem, SendAbort, SendSelect, SendClose,
                SendRequest, Host, ChildSettles, Port, PortAppends, PortLosesAck, PortRejects,
                PortMisreports, PortCancels, PortLoads, PortStores, Appended, World, ForeignAppends,
                OrphanLands, NotWriter, Crash, Vanish, Opening, CreateDone, CreateFailed,
                RestoreJournal, RestoreConfig, RestoreRecovered, RestoreFailed, Opens,
                sessionVars, vars
  <2>2. RestoresOnly /\ phase \in RestorePhases
    BY <1>1 DEF OpeningInv, RestorePhases
  <2>3. CASE RestoreReselects
    <3>1. phase = "recovered" /\ ~Unapplied
      BY <1>1, <2>3 DEF RestoreReselects, Opens
    <3> QED BY <1>1, <2>2, <3>1 DEF RestoresOnly, Interrupted, Unapplied
  <2>4. CASE RestoreDone
    <3>1. phase = "reselecting" /\ answers[<<"reselect">>] # "none"
      BY <2>4 DEF RestoreDone, Answered
    <3> QED BY <1>1, <2>2, <3>1 DEF RestoresOnly, ReselectUnderway, Interrupted
  <2> QED BY <2>1, <2>3, <2>4
<1>2. OpeningInv /\ [Next]_vars =>
        [(phase \in {"recovered", "reselecting"} /\ phase' = "open" /\ ~Dead) =>
            /\ ~Active(durable) /\ durable.pendingInputs = << >>
            /\ seen \in {None, durable.mode}]_vars
  BY <1>1
<1> QED BY <1>2, OpeningSafe, PTL DEF Spec, RestoreOpensAtRest

-----------------------------------------------------------------------------
\* The ledger: a session's initial states map to those of SessionLedger, and every step
\* to a step of it or to a stutter.

\* Those that ask again whenever the session is opened: its opening sequence.
Reopeners == {<<"recovery">>, <<"reselect">>}

\* Answers that may follow those given so far: to those who have none, and not final to
\* the opening sequence, whose submissions are made again when it runs again.
Fresh(known) ==
  \A c \in Callers : known[c] # answers[c] =>
    /\ answers[c] = "none"
    /\ c \in Reopeners => known[c] \notin FinalAnswers

-----------------------------------------------------------------------------
\* Who is answered, and how often

\* Telling an answer to those that have none.
LEMMA ToldFresh ==
  ASSUME NEW ids, NEW answer, NEW known, Fresh(known),
         answer \in FinalAnswers => \A id \in ids : Caller(id) \notin Reopeners
  PROVE  Fresh(Told(ids, answer, known))
<1> SUFFICES ASSUME NEW c \in Callers, Told(ids, answer, known)[c] # answers[c]
             PROVE  /\ answers[c] = "none"
                    /\ c \in Reopeners => Told(ids, answer, known)[c] \notin FinalAnswers
  BY DEF Fresh
<1>1. \/ Told(ids, answer, known)[c] = known[c]
      \/ /\ Told(ids, answer, known)[c] = answer /\ known[c] = "none"
         /\ \E id \in ids : Caller(id) = c
  BY DEF Told
<1> QED BY <1>1 DEF Fresh

\* The opening sequence submits its recovery and its selection, and nothing else.
LEMMA OthersCall ==
  /\ \A id \in SelectionIds : Caller(id) \notin Reopeners
  /\ \A input \in Inputs : input.kind \notin {"recovery", "policy"} =>
       \A id \in IdsOf(input) : Caller(id) \notin Reopeners
  /\ \A c \in Tracked : c \in Callers \ Reopeners /\ \A id : Caller(id) = c => id = c
<1>1. \A id \in SelectionIds : Caller(id) \notin Reopeners
  BY DEF SelectionIds, Caller, Reopeners
<1>2. ASSUME NEW input \in Inputs, input.kind \notin {"recovery", "policy"}, NEW id \in IdsOf(input)
      PROVE  Caller(id) \notin Reopeners
  <2>1. input.kind \in {"created", "abort", "system", "user", "dequeued", "child"}
    BY <1>2, InputFields
  <2>2. \/ id \in {CreateId} \cup {UserId(input.user)} \cup {DequeueId(input.user)}
        \/ id \in {ChildId(input.turn, input.generation)} \cup ({"abort"} \X Aborts)
        \/ id \in ({"system"} \X Systems) \cup ({"foreign"} \X Nat)
    BY <1>2, <2>1 DEF IdsOf
  <2>3. id[1] \notin {"recovery", "reselect"} /\ id \notin Reopeners
    BY <2>2 DEF CreateId, UserId, DequeueId, ChildId, Reopeners
  <2> QED BY <2>3 DEF Caller
<1>3. ASSUME NEW c \in Tracked
      PROVE  c \in Callers \ Reopeners /\ \A id : Caller(id) = c => id = c
  BY DEF Tracked, Callers, Caller, Requests, CreateId, UserId, Reopeners
<1> QED BY <1>1, <1>2, <1>3

\* Admitting a submission that is no configuration record.
LEMMA AdmitFresh ==
  ASSUME NEW s \in Submission, SubmissionIsOwn(s), NEW rest, NEW again, Admit(s, rest, again)
  PROVE  Fresh(answers')
<1>1. Fresh(answers)
  BY DEF Fresh
<1>2. CASE answers' = answers
  BY <1>1, <1>2
<1>3. CASE Stop("failed", {s.id})
  BY <1>1, <1>3, ToldFresh DEF Stop, LastAnswers, FinalAnswers
<1>4. CASE /\ Refusal(s) # "none"
           /\ Refusal(s) = "refused" => ~Internal(s)
           /\ answers' = Told({s.id}, Refusal(s), answers)
  <2>1. s.input.kind \notin {"recovery", "policy"}
    BY <1>4 DEF Refusal, Busy, Accepts, Internal, SubmissionIsOwn
  <2>2. Caller(s.id) \notin Reopeners
    BY <2>1, OthersCall DEF SubmissionIsOwn, Submission
  <2> QED BY <1>1, <1>4, <2>2, ToldFresh
<1> QED BY <1>2, <1>3, <1>4 DEF Admit

\* Acting on a stored selection of a client.
LEMMA SelectionFresh ==
  ASSUME NEW sel, NEW known, Fresh(known), sel.stored => sel.id \in SelectionIds,
         ApplySelection(sel, known) \/ (sel.stored /\ SettleStored(sel, known))
  PROVE  Fresh(answers')
<1>1. \/ answers' = known
      \/ sel.stored /\ answers' = Told({sel.id}, "ignored", known)
      \/ answers' = Told({sel.id}, "selected", known)
  BY DEF ApplySelection, SettleStored
<1>2. sel.stored => Caller(sel.id) \notin Reopeners
  BY OthersCall
<1> QED BY <1>1, <1>2, ToldFresh DEF FinalAnswers

\* Whoever a decision answers had no answer, and is not refused for good when it belongs
\* to the opening sequence.
LEMMA DecideFresh ==
  ASSUME StorageInv, AdmissionInv, OpeningInv, Decide
  PROVE  Fresh(answers')
<1>1. /\ mailbox # << >> /\ Event = mailbox[1] /\ Event \in Events /\ EventIsOwn(Event)
      /\ mailbox \in Seq(Events) /\ queue \in Seq(Submission)
      /\ durable \in JournalState /\ selection \in Selection \cup {None}
  <2>1. mailbox # << >> /\ Event = mailbox[1] /\ Event \in Events
    BY DecideConsumes DEF StorageInv, TypeOK
  <2>2. mailbox \in Seq(Events)
    BY DEF StorageInv, TypeOK, WriterTypeOK
  <2>3. EventIsOwn(Event)
    BY <2>1, <2>2 DEF AdmissionInv, IdsAreOwn
  <2> QED BY <2>1, <2>2, <2>3 DEF StorageInv, TypeOK, WriterTypeOK
<1>2. Fresh(answers)
  BY DEF Fresh
<1>3. ASSUME NEW ids, NEW answer \in Answers \ FinalAnswers, answers' = Told(ids, answer, answers)
      PROVE  Fresh(answers')
  BY <1>2, <1>3, ToldFresh
<1>4. ASSUME NEW end \in {"failed", "closed"}, NEW also, Stop(end, also)
      PROVE  Fresh(answers')
  BY <1>3, <1>4 DEF Stop, LastAnswers, Answers, FinalAnswers
<1>5. CASE answers' = answers
  BY <1>2, <1>5
<1>6. CASE SubmitToDead \/ SelectToDead
  BY <1>3, <1>6 DEF SubmitToDead, SelectToDead, Dead, Answers, FinalAnswers
<1>7. CASE SubmitBusy
  <2>1. /\ Event.type = "submit" /\ Event.input.kind = "system"
        /\ answers' = Told({Event.id}, "busy", answers)
    BY <1>7 DEF SubmitBusy, Busy, Deciding, Event
  <2>2. Caller(Event.id) \notin Reopeners
    BY <1>1, <2>1, EventFields, OthersCall DEF EventIsOwn, SubmissionIsOwn
  <2> QED BY <1>2, <2>1, <2>2, ToldFresh
<1>8. CASE SubmitAdmitted
  <2> DEFINE s == [id |-> Event.id, input |-> Event.input]
  <2>1. Event.type = "submit" /\ Admit(s, << >>, << >>)
    BY <1>8 DEF SubmitAdmitted, Deciding, Event
  <2>2. s \in Submission /\ SubmissionIsOwn(s)
    BY <1>1, <2>1, EventFields DEF Submission, EventIsOwn, SubmissionIsOwn
  <2> HIDE DEF s
  <2> QED BY <2>1, <2>2, AdmitFresh
<1>9. CASE DrainQueue
  <2>1. Admit(Head(queue), Tail(queue), <<Drain>>) /\ queue # << >>
    BY <1>9 DEF DrainQueue
  <2>2. Head(queue) = queue[1] /\ 1 \in DOMAIN queue
    BY <1>1, <2>1, TailCases
  <2>3. Head(queue) \in Submission /\ SubmissionIsOwn(Head(queue))
    BY <1>1, <2>2 DEF AdmissionInv, IdsAreOwn
  <2> QED BY <2>1, <2>3, AdmitFresh
<1>10. CASE DrainDequeue
  <2> DEFINE u == Head(durable.pendingInputs)
             s == [id |-> DequeueId(u), input |-> DequeuedInput(u)]
  <2>1. u \in Users
    BY <1>1, <1>10, JournalFields DEF DrainDequeue, DequeueDue
  <2>2. DequeueId(u) \in Ids /\ DequeuedInput(u) \in Inputs
    BY <2>1, IdTypes DEF Inputs
  <2>3. s \in Submission /\ SubmissionIsOwn(s)
    BY <2>2 DEF Submission, SubmissionIsOwn, IdsOf, DequeuedInput
  <2>4. Admit(s, queue, << >>)
    BY <1>10 DEF DrainDequeue
  <2> HIDE DEF s
  <2> QED BY <2>3, <2>4, AdmitFresh
<1>11. Fresh(Superseded)
  BY <1>2, ToldFresh DEF Superseded, FinalAnswers
<1>12. CASE Select
  BY <1>11, <1>12 DEF Select
<1>13. CASE Reselect
  <2>1. ~Dead /\ Event.type = "reselect" /\ Deciding("reselect")
    BY <1>13 DEF Reselect, Deciding, Event
  <2>2. HasEvent({"reselect"})
    BY <1>1, <2>1, EventIsHad
  <2>3. phase = "reselecting" /\ RestoresOnly
    BY <2>1, <2>2 DEF OpeningInv, ReselectsAtOnce
  <2>4. Restages
    BY <2>1, <2>3, ReselectionIsStaged
  <2> QED BY <1>5, <2>4 DEF Restages
<1>14. CASE StoredCurrent
  <2>1. Event.type = "stored" /\ Event.id \in SelectionIds /\ Event.id = selection.id
        /\ selection # None
    BY <1>1, <1>14 DEF StoredCurrent, Deciding, Event, EventIsOwn
  <2>2. Fresh(Told({Event.id}, "refused", answers))
    BY <1>2, <2>1, ToldFresh, OthersCall
  <2>3. CASE Event.ok
    <3> DEFINE sel == [selection EXCEPT !.stored = TRUE]
    <3>1. SettleStored(sel, answers)
      BY <1>14, <2>3 DEF StoredCurrent
    <3>2. sel.stored /\ sel.id \in SelectionIds
      BY <1>1, <2>1 DEF Selection
    <3> HIDE DEF sel
    <3> QED BY <1>2, <3>1, <3>2, SelectionFresh
  <2>4. CASE ~Event.ok /\ selection.fallback # None
    <3> DEFINE sel == [id |-> selection.fallback.id, mode |-> selection.fallback.mode,
                       stored |-> TRUE, revokes |-> selection.fallback.revokes, fallback |-> None]
               known == Told({Event.id}, "refused", answers)
    <3>1. SettleStored(sel, known)
      BY <1>14, <2>4 DEF StoredCurrent
    <3>2. sel.stored /\ sel.id \in SelectionIds
      BY <2>1, <2>4 DEF OpeningInv, ReselectsAtOnce
    <3> HIDE DEF sel
    <3> QED BY <2>2, <3>1, <3>2, SelectionFresh
  <2>5. CASE ~Event.ok /\ selection.fallback = None
    BY <1>14, <2>2, <2>5 DEF StoredCurrent
  <2> QED BY <2>3, <2>4, <2>5
<1>15. CASE StoredSuperseded
  <2>1. Event.type = "stored" /\ Event.id \in SelectionIds
    BY <1>1, <1>15 DEF StoredSuperseded, Deciding, Event, EventIsOwn
  <2>2. Fresh(Told({Event.id}, "refused", answers)) /\ Fresh(Told({Event.id}, "selected", answers))
    BY <1>2, <2>1, ToldFresh, OthersCall
  <2> QED BY <1>15, <2>2 DEF StoredSuperseded
<1>16. CASE DrainSelection
  <2>1. selection # None /\ ApplySelection(selection, answers)
    BY <1>16 DEF DrainSelection, AtBoundary
  <2>2. selection.id \in SelectionIds
    BY <2>1 DEF OpeningInv, ReselectsAtOnce
  <2> QED BY <1>2, <2>1, <2>2, SelectionFresh
<1>17. CASE AppendCommitted \/ LoadedCommitted
  <2>1. Release \/ Stop("failed", {})
    BY <1>17 DEF AppendCommitted, LoadedCommitted
  <2>2. CASE Release
    BY <1>3, <2>2 DEF Release, ReleaseAnswers, Answers, FinalAnswers
  <2> QED BY <1>4, <2>1, <2>2
<1>18. CASE AppendRefused \/ LoadedUnusable \/ Close
  BY <1>4, <1>18 DEF AppendRefused, LoadedUnusable, Close
<1>19. CASE SubmitQueued \/ DrainNothing \/ StorageIgnored \/ AppendIndeterminate \/ LoadedAbsent
  BY <1>5, <1>19 DEF SubmitQueued, DrainNothing, StorageIgnored, AppendIndeterminate, LoadedAbsent,
                     effectVars
<1> QED BY <1>6, <1>7, <1>8, <1>9, <1>10, <1>12, <1>13, <1>14, <1>15, <1>16, <1>17, <1>18, <1>19
        DEF Decide

-----------------------------------------------------------------------------
\* The steps of the ledger

\* The log is as long as the journal, and grows as it grows.
LEMMA LogGrows ==
  ASSUME NEW J \in Seq(Batches), NEW r
  PROVE  LET Log(K) == [i \in DOMAIN K |-> Caller(K[i].id)]
         IN /\ Len(Log(J)) = Len(J) /\ DOMAIN Log(J) = DOMAIN J
            /\ Log(Append(J, r)) = Append(Log(J), Caller(r.id))
            /\ Len(Log(Append(J, r))) = Len(J) + 1
            /\ Log(Append(J, r))[Len(J) + 1] = Caller(r.id)
<1> DEFINE Log(K) == [i \in DOMAIN K |-> Caller(K[i].id)]
           S      == {Caller(J[i].id) : i \in DOMAIN J} \cup {Caller(r.id)}
<1>1. DOMAIN J = 1..Len(J) /\ Len(J) \in Nat
  OBVIOUS
<1>2. Log(J) \in Seq(S) /\ Len(Log(J)) = Len(J)
  BY <1>1
<1>3. /\ DOMAIN Append(J, r) = 1..(Len(J) + 1)
      /\ \A i \in 1..Len(J) : Append(J, r)[i] = J[i]
      /\ Append(J, r)[Len(J) + 1] = r
  OBVIOUS
<1>4. /\ DOMAIN Append(Log(J), Caller(r.id)) = 1..(Len(J) + 1)
      /\ \A i \in 1..Len(J) : Append(Log(J), Caller(r.id))[i] = Log(J)[i]
      /\ Append(Log(J), Caller(r.id))[Len(J) + 1] = Caller(r.id)
      /\ Append(Log(J), Caller(r.id)) \in Seq(S)
  <2> HIDE DEF Log
  <2> QED BY <1>1, <1>2
<1>5. Log(Append(J, r)) \in Seq(S) /\ Len(Log(Append(J, r))) = Len(J) + 1
  BY <1>1, <1>3
<1>6. \A i \in 1..(Len(J) + 1) : Log(Append(J, r))[i] = Append(Log(J), Caller(r.id))[i]
  BY <1>1, <1>3, <1>4
<1>7. Log(Append(J, r)) = Append(Log(J), Caller(r.id))
  <2>1. DOMAIN Log(Append(J, r)) = 1..(Len(J) + 1)
    BY <1>3
  <2> HIDE DEF Log
  <2> QED BY <1>4, <1>5, <1>6, <2>1
<1>8. Log(Append(J, r))[Len(J) + 1] = Caller(r.id)
  BY <1>1, <1>3
<1> QED BY <1>1, <1>2, <1>5, <1>7, <1>8

LedgerInv == StorageInv /\ AdmissionInv /\ ReceiptInv /\ OpeningInv

\* A batch that is stored commits, a client's for the first and only time, and none that
\* was refused for good.
LEMMA StoreCommits ==
  ASSUME LedgerInv, LedgerInv', [Next]_vars, journal' # journal
  PROVE  Ledger!Commit
<1>1. PICK r \in Batches : journal' = Append(journal, r)
  BY StoreCases DEF LedgerInv, AdmissionInv
<1>2. journal \in Seq(Batches)
  BY DEF LedgerInv, StorageInv, TypeOK
<1>3. UNCHANGED <<durable, answers, phase>>
  <2>1. Port \/ ForeignAppends \/ OrphanLands
    BY DEF Next, WriterDecides, Client, SendUser, SendSystem, SendAbort, SendSelect, SendClose,
           SendRequest, Host, ChildSettles, World, Crash, Vanish, Opening, CreateDone,
           CreateFailed, RestoreJournal, RestoreConfig, RestoreRecovered, RestoreFailed,
           RestoreReselects, RestoreDone, Opens, sessionVars, storeVars, vars
  <2>2. CASE Port
    BY <2>2 DEF Port, PortAppends, PortLosesAck, PortRejects, PortMisreports, PortCancels,
                PortLoads, PortStores, Appended, unposted
  <2>3. CASE ForeignAppends \/ OrphanLands
    BY <2>3 DEF ForeignAppends, OrphanLands, NotWriter, writerVars, effectVars
  <2> QED BY <2>1, <2>2, <2>3
<1> DEFINE o == Caller(r.id)
<1>4. /\ Len(journal) + 1 \in DOMAIN journal' /\ journal'[Len(journal) + 1] = r
      /\ Len(journal) \in Nat
      /\ \A i \in DOMAIN journal : i \in DOMAIN journal' /\ journal'[i] = journal[i]
                                   /\ i # Len(journal) + 1
  BY <1>1, <1>2
<1>5. ASSUME o \in Callers \ Reopeners
      PROVE  /\ \A i \in DOMAIN journal : Caller(journal[i].id) # o
             /\ answers[o] \notin FinalAnswers
  <2>1. o \in Tracked
    BY <1>5 DEF Callers, Reopeners, Tracked
  <2>2. \A id : Caller(id) = o => id = o
    BY <2>1, OthersCall
  <2>3. \A i \in DOMAIN journal : journal[i].id # r.id
    BY <1>4 DEF LedgerInv, StorageInv, JournalIsIndexed
  <2>4. \A i \in DOMAIN journal : Caller(journal[i].id) # o
    BY <2>2, <2>3
  <2>5. Committed(o)'
    BY <1>4, <2>2 DEF Committed
  <2>6. IsAppended(o)'
    BY <2>5 DEF IsAppended
  <2>7. Where(o)' # {}
    BY <2>6, PlacesNext
  <2>8. answers'[o] \notin FinalAnswers
    BY <2>1, <2>7 DEF LedgerInv, ReceiptInv, FateFollowsAnswer
  <2> QED BY <1>3, <2>4, <2>8
<1> DEFINE Log(K) == [i \in DOMAIN K |-> Caller(K[i].id)]
<1>6. /\ Len(Log(journal)) = Len(journal) /\ DOMAIN Log(journal) = DOMAIN journal
      /\ Log(journal') = Append(Log(journal), o)
      /\ Len(Log(journal')) = Len(journal) + 1
      /\ Log(journal')[Len(journal) + 1] = o
  BY <1>1, <1>2, LogGrows
<1>7. \A i \in DOMAIN journal : Log(journal)[i] = Caller(journal[i].id)
  OBVIOUS
<1> HIDE DEF Log, o
<1>8. /\ Len(Log(journal')) = Len(Log(journal)) + 1
      /\ Log(journal') = Append(Log(journal), Log(journal')[Len(Log(journal'))])
      /\ Log(journal')[Len(Log(journal'))] \in Callers \ Reopeners =>
           /\ ~\E i \in DOMAIN Log(journal) : Log(journal)[i] = Log(journal')[Len(Log(journal'))]
           /\ answers[Log(journal')[Len(Log(journal'))]] \notin FinalAnswers
  BY <1>5, <1>6, <1>7
<1> QED BY <1>3, <1>8 DEF Ledger!Commit, Ledger!InLog, Log, Reopeners, FinalAnswers

\* A decision dispatches the next batch of the log, or answers who has no answer yet.
LEMMA DecidesLedger ==
  ASSUME LedgerInv, LedgerInv', WriterDecides
  PROVE  Ledger!Dispatch \/ Ledger!Answer
<1>1. /\ Decide /\ journal' = journal /\ phase' = phase
      /\ journal \in Seq(Batches) /\ durable \in JournalState
      /\ answers \in [Callers -> Answers] /\ answers' \in [Callers -> Answers]
  BY DEF WriterDecides, storeVars, LedgerInv, StorageInv, TypeOK, WriterTypeOK
<1>2. phase # "down"
  BY <1>1, DecideConsumes DEF LedgerInv, StorageInv, GoneIsQuiet, TypeOK
<1> DEFINE log == [i \in DOMAIN journal |-> Caller(journal[i].id)]
<1>3. CASE Releases
  <2>1. pending # None
    BY <1>3 DEF Releases, LoadedCommitted, AppendCommitted, InFlight
  <2>2. pending.next.revision = durable.revision + 1
    BY <2>1, PendingIsStaged DEF LedgerInv
  <2>3. /\ durable.revision + 1 \in DOMAIN journal
        /\ journal[durable.revision + 1] = Batch(pending)
    BY <1>1, <1>3, <2>2, ReleasedStored DEF LedgerInv
  <2>4. log[durable.revision + 1] = Caller(pending.id)
    BY <2>3 DEF Batch
  <2>5. durable.revision < Len(log) /\ log' = log
    <3>1. durable.revision \in Nat
      BY <1>1, JournalFields
    <3>2. Len(log) = Len(journal) /\ DOMAIN journal = 1..Len(journal) /\ Len(journal) \in Nat
      BY <1>1, LogGrows
    <3> HIDE DEF log
    <3>3. durable.revision < Len(log)
      BY <2>3, <3>1, <3>2
    <3> QED BY <1>1, <3>3 DEF log
  <2>6. durable'.revision = durable.revision + 1
    BY <1>3, <2>2 DEF Releases, Release
  <2>7. answers' = [c \in Callers |->
          IF c = log[durable.revision + 1] /\ answers[c] = "none" THEN "accepted" ELSE answers[c]]
    <3>1. answers' = [c \in Callers |->
            IF answers[c] = "none" /\ \E id \in {pending.id} : Caller(id) = c
              THEN "accepted" ELSE answers[c]]
      BY <1>3 DEF Releases, Release, ReleaseAnswers, Told
    <3> HIDE DEF log
    <3> QED BY <2>4, <3>1
  <2> QED BY <1>1, <1>2, <2>5, <2>6, <2>7 DEF Ledger!Dispatch
<1>4. CASE ~Releases
  <2>1. durable' = durable
    BY <1>1, <1>4
       DEF Decide, SubmitToDead, SubmitBusy, SubmitQueued, SubmitAdmitted, SelectToDead, Select,
           Reselect, StoredCurrent, StoredSuperseded, DrainSelection, DrainDequeue, DrainQueue,
           DrainNothing, AppendCommitted, AppendIndeterminate, AppendRefused, LoadedCommitted,
           LoadedAbsent, LoadedUnusable, StorageIgnored, Close, Admit, ApplySelection,
           SettleStored, StageAppend, Stop, Releases
  <2>2. ASSUME NEW c \in Callers, answers'[c] # answers[c]
        PROVE  /\ answers[c] = "none" /\ answers'[c] # "accepted"
               /\ answers'[c] \in FinalAnswers =>
                    ~\E i \in DOMAIN journal : Caller(journal[i].id) = c
    <3>1. Fresh(answers')
      BY <1>1, DecideFresh DEF LedgerInv
    <3>2. answers'[c] # "accepted"
      <4>1. ASSUME answers'[c] = "accepted"
            PROVE  FALSE
        BY <1>4, <2>2, <4>1, AcceptsReleased DEF LedgerInv, Next
      <4> QED BY <4>1
    <3>3. ASSUME answers'[c] \in FinalAnswers, NEW i \in DOMAIN journal, Caller(journal[i].id) = c
          PROVE  FALSE
      <4>1. c \in Tracked
        BY <2>2, <3>1, <3>3 DEF Fresh, Reopeners, Tracked, Callers
      <4>2. journal[i].id = c
        BY <3>3, <4>1, OthersCall
      <4>3. Committed(c)'
        BY <1>1, <4>2 DEF Committed
      <4>4. Where(c)' # {}
        BY <4>3, PlacesNext DEF IsAppended
      <4> QED BY <3>3, <4>1, <4>4 DEF LedgerInv, ReceiptInv, FateFollowsAnswer
    <3> QED BY <2>2, <3>1, <3>2, <3>3 DEF Fresh
  <2>3. \A i \in DOMAIN log : i \in DOMAIN journal /\ log[i] = Caller(journal[i].id)
    OBVIOUS
  <2>4. log' = log
    BY <1>1
  <2>5. UNCHANGED <<log, durable.revision, phase # "down">> /\ (phase # "down") = TRUE
    BY <1>1, <1>2, <2>1, <2>4
  <2> HIDE DEF log
  <2>6. \A c \in Callers : answers'[c] # answers[c] =>
          /\ answers[c] = "none" /\ answers'[c] # "accepted"
          /\ answers'[c] \in FinalAnswers => ~\E i \in DOMAIN log : log[i] = c
    BY <2>2, <2>3
  <2> QED BY <1>1, <2>5, <2>6 DEF Ledger!Answer, Ledger!InLog, log, FinalAnswers
<1> QED BY <1>3, <1>4

\* A step that stores and decides nothing ends the runtime, opens it again at the end of
\* the log, or is no step of the ledger.
LEMMA OthersLedger ==
  ASSUME LedgerInv, [Next]_vars, ~WriterDecides, journal' = journal
  PROVE  \/ Ledger!Leave \/ Ledger!Reopen
         \/ UNCHANGED <<durable, answers, phase = "down">>
<1>1. /\ journal \in Seq(Batches) /\ answers \in [Callers -> Answers]
  BY DEF LedgerInv, StorageInv, TypeOK, WriterTypeOK
<1>2. CASE Crash \/ CreateFailed \/ RestoreFailed
  <2>1. phase # "down" /\ phase' = "down" /\ UNCHANGED <<durable, answers>>
    BY <1>2 DEF Crash, CreateFailed, RestoreFailed, Vanish
  <2>2. (phase # "down") = TRUE /\ (phase' # "down") = FALSE
    BY <2>1
  <2> QED BY <2>1, <2>2 DEF Ledger!Leave
<1>3. CASE RestoreJournal
  <2>1. /\ phase = "down" /\ phase' = "restoring" /\ journal # << >> /\ durable' = Tip
        /\ answers' = [answers EXCEPT ![<<"recovery">>] = "none", ![<<"reselect">>] = "none"]
    BY <1>3 DEF RestoreJournal, Replayed
  <2>2. durable'.revision = Len(journal) /\ Len([i \in DOMAIN journal |-> Caller(journal[i].id)]) = Len(journal)
    <3>1. Len(journal) \in DOMAIN journal
      BY <1>1, <2>1
    <3>2. journal[Len(journal)].next.revision = Len(journal)
      BY <3>1 DEF LedgerInv, StorageInv, JournalIsIndexed
    <3> QED BY <1>1, <2>1, <3>2, LogGrows DEF Tip
  <2>3. answers' = [c \in Callers |-> IF c \in Reopeners THEN "none" ELSE answers[c]]
    BY <1>1, <2>1 DEF Reopeners, Callers
  <2>4. (phase # "down") = FALSE /\ (phase' # "down") = TRUE
    BY <2>1
  <2> QED BY <2>2, <2>3, <2>4 DEF Ledger!Reopen, Reopeners
<1>4. CASE ~(Crash \/ CreateFailed \/ RestoreFailed \/ RestoreJournal)
  <2>1. CASE Client \/ Host \/ Port \/ UNCHANGED vars
    BY <2>1 DEF Client, SendUser, SendSystem, SendAbort, SendSelect, SendClose, SendRequest,
                Host, ChildSettles, Port, PortAppends, PortLosesAck, PortRejects,
                PortMisreports, PortCancels, PortLoads, PortStores, Appended, sessionVars,
                unposted, writerVars, effectVars, vars
  <2>2. CASE World
    BY <1>4, <2>2 DEF World, ForeignAppends, OrphanLands, NotWriter, writerVars, effectVars
  <2>3. CASE Opening
    <3>1. UNCHANGED <<durable, answers>> /\ phase # "down" /\ phase' # "down"
      BY <1>4, <2>3 DEF Opening, CreateDone, RestoreConfig, RestoreRecovered, RestoreReselects,
                        RestoreDone, Opens, unposted
    <3> QED BY <3>1
  <2> QED BY <2>1, <2>2, <2>3 DEF Next
<1> QED BY <1>2, <1>3, <1>4

\* The invariants of the refinement hold together.
LEMMA LedgerInvSafe == Spec => []LedgerInv
<1>1. Init => LedgerInv
  BY StorageInit, AdmissionInit, ReceiptInit, OpeningInit DEF LedgerInv
<1>2. LedgerInv /\ [Next]_vars => LedgerInv'
  BY StorageStep, FitStep, IdsStep, ReceiptStep, OpeningStep DEF LedgerInv, AdmissionInv, StorageInv
<1> QED BY <1>1, <1>2, PTL DEF Spec

\* A session implements the ledger: over all losses, retries, crashes and restores, its
\* batches commit one after the other, are dispatched at most once and in order, and every
\* caller is told once, accepted only of a dispatched batch, and refused for good only of
\* one that never commits.
THEOREM SessionImplementsLedger == Spec => ImplementsLedger
<1>1. Init => Ledger!LedgerInit
  <2> SUFFICES ASSUME Init
               PROVE  Ledger!LedgerInit
    OBVIOUS
  <2>1. /\ journal = << >> /\ durable.revision = 0 /\ answers = [c \in Callers |-> "none"]
        /\ phase # "down"
    BY DEF Init, EmptyJournal
  <2>2. [i \in DOMAIN journal |-> Caller(journal[i].id)] = << >>
    BY <2>1
  <2> QED BY <2>1, <2>2 DEF Ledger!LedgerInit
<1>2. LedgerInv /\ LedgerInv' /\ [Next]_vars => [Ledger!LedgerNext]_(Ledger!ledgerVars)
  <2> SUFFICES ASSUME LedgerInv, LedgerInv', [Next]_vars
               PROVE  Ledger!LedgerNext \/ UNCHANGED Ledger!ledgerVars
    OBVIOUS
  <2>1. CASE journal' # journal
    BY <2>1, StoreCommits DEF Ledger!LedgerNext
  <2>2. CASE WriterDecides
    BY <2>2, DecidesLedger DEF Ledger!LedgerNext
  <2>3. CASE ~WriterDecides /\ journal' = journal
    <3>1. CASE Ledger!Leave \/ Ledger!Reopen
      BY <3>1 DEF Ledger!LedgerNext
    <3>2. CASE UNCHANGED <<durable, answers, phase = "down">>
      BY <2>3, <3>2 DEF Ledger!ledgerVars
    <3> QED BY <2>3, <3>1, <3>2, OthersLedger
  <2> QED BY <2>1, <2>2, <2>3
<1> QED BY <1>1, <1>2, LedgerInvSafe, PTL DEF Spec, ImplementsLedger, Ledger!LedgerSpec

-----------------------------------------------------------------------------
\* Turns

\* Staging never goes back to an earlier turn, and says when it ends the one that runs.
LEMMA StageTurns ==
  ASSUME NEW j \in JournalState, NEW input \in Inputs, Admissible(j, input)
  PROVE  LET next == Stage(j, input)
         IN /\ next.turn \in Nat /\ next.turn >= j.turn
            /\ Ends(j, next) => next.turn > j.turn
            /\ Active(j) => Active(next) \/ Ends(j, next)
            /\ input.kind \in {"user", "dequeued"} /\ ~Queues(j, input) =>
                 Active(next) \/ Ends(j, next)
<1> DEFINE Goes(s)  == s.turn = j.turn + 1 \/ (s.turn = j.turn /\ s.phase # "idle")
           Stays(s) == s.turn = j.turn /\ s.phase = j.phase
<1>1. j.turn \in Nat /\ j.phase \in Phases
  BY JournalFields
<1>2. ASSUME NEW s \in JournalState, s.turn = j.turn
      PROVE  /\ EndTurn(s).turn = j.turn + 1
             /\ \A p \in Phases : Run(s, p).turn = j.turn /\ Run(s, p).phase = p
             /\ Goes(Prepare(s))
             /\ Goes(Abort(s))
  <2>1. EndTurn(s).turn = j.turn + 1
    BY <1>2 DEF EndTurn, JournalState
  <2>2. ASSUME NEW t \in JournalState, t.turn = j.turn, NEW p \in Phases
        PROVE  Run(t, p).turn = j.turn /\ Run(t, p).phase = p
    BY <2>2 DEF Run, JournalState
  <2>3. Goes(Prepare(s))
    <3>1. CASE s.left = 0
      BY <2>1, <3>1 DEF Prepare
    <3>2. CASE s.left # 0
      <4> DEFINE t == [s EXCEPT !.left = @ - 1]
      <4>1. t.turn = j.turn
        BY <1>2 DEF JournalState
      <4>2. s.left - 1 \in 0..Steps
        BY <3>2, JournalFields, StepsAssumption
      <4>3. t \in JournalState
        BY <4>2, SetField
      <4>4. Run(t, "model").turn = j.turn /\ Run(t, "model").phase = "model"
        BY <2>2, <4>1, <4>3 DEF Phases
      <4>5. Prepare(s) = Run(t, "model")
        BY <3>2 DEF Prepare
      <4> HIDE DEF t
      <4> QED BY <4>4, <4>5
    <3> QED BY <3>1, <3>2
  <2>4. Goes(Abort(s))
    BY <1>2, <2>1 DEF Abort, JournalState
  <2> QED BY <1>2, <2>1, <2>2, <2>3, <2>4
<1>3. ASSUME NEW s \in JournalState
      PROVE  \A n : [s EXCEPT !.revision = n].turn = s.turn /\ [s EXCEPT !.revision = n].phase = s.phase
  BY DEF JournalState
<1>4. ASSUME NEW s \in JournalState, NEW q \in Seq(Users)
      PROVE  LET t == [s EXCEPT !.pendingInputs = q]
             IN t \in JournalState /\ t.turn = s.turn /\ t.phase = s.phase
  BY DEF JournalState
<1>5. /\ Goes(Fold(j, input)) \/ Stays(Fold(j, input))
      /\ input.kind \in {"user", "dequeued"} /\ ~Queues(j, input) => Goes(Fold(j, input))
  <2>1. CASE input.kind = "user" /\ ~Queues(j, input)
    BY <1>2, <2>1 DEF Fold
  <2>2. CASE input.kind = "user" /\ Queues(j, input)
    <3>1. j.phase # "idle"
      BY <2>2 DEF Queues, Active, ToolPhases
    <3>2. Append(j.pendingInputs, input.user) \in Seq(Users)
      BY <2>2, InputFields, JournalFields
    <3>3. /\ Queue(j, input.user) \in JournalState /\ Queue(j, input.user).turn = j.turn
          /\ Queue(j, input.user).phase = j.phase
      BY <1>4, <3>2 DEF Queue
    <3>4. Goes(Queue(j, input.user)) /\ Goes(Abort(Queue(j, input.user)))
      BY <1>2, <3>1, <3>3
    <3> QED BY <2>2, <3>4 DEF Fold
  <2>3. CASE input.kind = "child"
    <3>1. Goes(Settle(j, input.result))
      <4>1. \A p \in Phases \ {"idle"} : Goes(Run(j, p))
        BY <1>2
      <4>2. Goes(Prepare(j)) /\ Goes(EndTurn(j))
        BY <1>2
      <4> HIDE DEF Goes
      <4> QED BY <4>1, <4>2 DEF Settle, Phases
    <3>2. Fold(j, input) = Settle(j, input.result)
      BY <2>3 DEF Fold
    <3> QED BY <2>3, <3>1, <3>2
  <2>4. CASE input.kind = "abort"
    BY <1>2, <2>4 DEF Fold
  <2>5. CASE input.kind = "policy"
    BY <2>5 DEF Fold, JournalState
  <2>6. CASE input.kind = "dequeued"
    <3>1. Tail(j.pendingInputs) \in Seq(Users)
      BY <2>6, JournalFields DEF Admissible, Stageable, DequeueStageable
    <3>2. Goes(Dequeue(j))
      BY <1>2, <1>4, <3>1 DEF Dequeue
    <3> QED BY <2>6, <3>2 DEF Fold
  <2>7. CASE input.kind = "recovery"
    <3>1. << >> \in Seq(Users) /\ EndTurn(j) \in JournalState
      BY TurnSteps
    <3>2. Goes(Recover(j)) \/ Stays(Recover(j))
      BY <1>2, <1>4, <3>1 DEF Recover
    <3> QED BY <2>7, <3>2 DEF Fold
  <2>8. CASE input.kind \notin {"user", "child", "abort", "policy", "dequeued", "recovery"}
    BY <2>8 DEF Fold
  <2> QED BY <2>1, <2>2, <2>3, <2>4, <2>5, <2>6, <2>7, <2>8
<1>6. Fold(j, input) \in JournalState
  BY FoldType DEF Admissible, Stageable, DequeueStageable
<1>7. /\ Goes(Stage(j, input)) \/ Stays(Stage(j, input))
      /\ input.kind \in {"user", "dequeued"} /\ ~Queues(j, input) => Goes(Stage(j, input))
  BY <1>3, <1>5, <1>6 DEF Stage
<1> QED BY <1>1, <1>7 DEF Ends, Active

\* Every stored batch reaches a state of the journal.
LEMMA StatesAreTyped ==
  ASSUME StorageInv, NEW n \in 0..Len(journal)
  PROVE  StateAt(n) \in JournalState
<1>1. CASE n = 0
  BY <1>1, EmptyType DEF StateAt
<1>2. CASE n # 0
  <2>1. n \in DOMAIN journal /\ journal[n] \in Batches
    BY <1>2, TipIsLast
  <2>2. journal[n].next \in JournalState
    BY <2>1 DEF Batches
  <2> QED BY <1>2, <2>2 DEF StateAt
<1> QED BY <1>1, <1>2

\* No batch is of an earlier turn than one before it.
LEMMA TurnsStep ==
  ASSUME StorageInv, AdmissionInv, TurnsGrow, [Next]_vars
  PROVE  TurnsGrow'
<1>1. /\ journal \in Seq(Batches) /\ Len(journal) \in Nat /\ Tip \in JournalState
      /\ Tip = StateAt(Len(journal))
  BY TipIsLast
<1>2. CASE journal' = journal
  BY <1>2 DEF TurnsGrow, StateAt, Tip
<1>3. CASE \E r \in Batches : /\ StagedOn(r) /\ Fit(r) /\ r.expected = Len(journal)
                              /\ journal' = Append(journal, r)
  <2>1. PICK r \in Batches : /\ StagedOn(r) /\ Fit(r) /\ r.expected = Len(journal)
                             /\ journal' = Append(journal, r)
    BY <1>3
  <2>2. r.next = Stage(Tip, r.input) /\ Admissible(Tip, r.input) /\ r.input \in Inputs
    BY <1>1, <2>1 DEF StagedOn, Fit, Batches
  <2>3. r.next.turn \in Nat /\ r.next.turn >= Tip.turn
    BY <1>1, <2>2, StageTurns
  <2>4. /\ Len(journal') = Len(journal) + 1 /\ journal' # << >>
        /\ \A i \in DOMAIN journal : journal'[i] = journal[i]
        /\ journal'[Len(journal) + 1] = r
    BY <1>1, <2>1
  <2>5. ASSUME NEW n \in 0..Len(journal')
        PROVE  StateAt(n)'.turn <= Tip'.turn
    <3>0. Tip' = r.next
      BY <2>4 DEF Tip
    <3>1. CASE n = Len(journal) + 1
      <4>1. StateAt(n)' = r.next
        BY <1>1, <2>4, <3>1 DEF StateAt
      <4> QED BY <2>3, <3>0, <4>1
    <3>2. CASE n # Len(journal) + 1
      <4>1. n \in 0..Len(journal)
        BY <1>1, <2>4, <3>2
      <4>3. StateAt(n)' = StateAt(n)
        BY <1>1, <2>4, <4>1 DEF StateAt
      <4>2. StateAt(n).turn <= Tip.turn /\ StateAt(n).turn \in Nat /\ Tip.turn \in Nat
        <5>1. StateAt(n) \in JournalState
          BY <4>1, StatesAreTyped
        <5> QED BY <1>1, <4>1, <5>1, JournalFields DEF TurnsGrow
      <4> QED BY <2>3, <3>0, <4>2, <4>3
    <3> QED BY <3>1, <3>2
  <2> QED BY <2>5 DEF TurnsGrow
<1> QED BY <1>2, <1>3, StoreCases DEF AdmissionInv

-----------------------------------------------------------------------------
\* The promises of the users

\* Where a release may leave the promise of an input.
LEMMA ReleaseCases ==
  ASSUME NEW u \in Users, NEW input, NEW j, NEW next
  PROVE  LET w       == ReleaseWaits(input, j, next)[u]
             arrives == \/ LeavesQueue(input, u)
                        \/ /\ input = UserInput(u) /\ waits[u].at = "admission"
                           /\ ~Queues(j, input)
         IN \/ /\ w = waits[u] /\ ~LeavesQueue(input, u)
               /\ ~(input = UserInput(u) /\ waits[u].at = "admission")
               /\ ~(Ends(j, next) /\ waits[u] = Waiting("turn", j.turn))
            \/ /\ w = Waiting("queued", 0) /\ waits[u].at = "admission"
               /\ input = UserInput(u) /\ Queues(j, input)
            \/ w = Waiting("turn", next.turn) /\ ~Ends(j, next) /\ arrives
            \/ /\ w = Waiting("terminal", j.turn) /\ Ends(j, next)
               /\ arrives \/ waits[u] = Waiting("turn", j.turn)
<1> DEFINE turn == Waiting("turn", JoinedTurn(j, next))
           joined == CASE LeavesQueue(input, u) -> turn
                       [] input = UserInput(u) /\ waits[u].at = "admission" ->
                            IF Queues(j, input) THEN Waiting("queued", 0) ELSE turn
                       [] OTHER -> waits[u]
<1>1. ReleaseWaits(input, j, next)[u] =
        IF Ends(j, next) /\ joined = Waiting("turn", j.turn) THEN Waiting("terminal", j.turn) ELSE joined
  BY DEF ReleaseWaits
<1>2. ~(LeavesQueue(input, u) /\ input = UserInput(u))
  BY DEF LeavesQueue, DequeuedInput, UserInput
<1>3. Ends(j, next) => turn = Waiting("turn", j.turn)
  BY DEF JoinedTurn
<1>4. ~Ends(j, next) => turn = Waiting("turn", next.turn)
  BY DEF JoinedTurn
<1>5. Waiting("queued", 0) # Waiting("turn", j.turn)
  BY DEF Waiting
<1> HIDE DEF turn
<1> QED BY <1>1, <1>2, <1>3, <1>4, <1>5

\* What the invariant says of the promise of u.
Served(u) ==
  /\ phase # "open" => waits[u].at \notin Unsettled
  /\ Dead => waits[u].at \notin {"queued", "turn"}
  /\ waits[u].at \in {"turn", "terminal"} => Joined(u, waits[u].turn)
  /\ waits[u].at = "admission" => answers[UserId(u)] = "none"
  /\ waits[u].at = "queued" =>
       \E i \in DOMAIN durable.pendingInputs : durable.pendingInputs[i] = u
  /\ waits[u].at = "turn" => Active(durable) /\ durable.turn = waits[u].turn
  /\ waits[u].at = "terminal" => durable.turn > waits[u].turn

EachServed == \A u \in Users : Served(u)

\* It says nothing else of the promises.
LEMMA ServedFits == EachServed <=> WaitsAreServed /\ TurnsAreJoined /\ WaitsFollowJournal
<1>1. EachServed => WaitsAreServed /\ TurnsAreJoined
  BY DEF EachServed, Served, WaitsAreServed, TurnsAreJoined
<1>2. EachServed => WaitsFollowJournal
  BY DEF EachServed, Served, WaitsFollowJournal, Joined
<1>3. ASSUME WaitsAreServed, TurnsAreJoined, WaitsFollowJournal, NEW u \in Users
      PROVE  Served(u)
  <2>1. /\ phase # "open" => waits[u].at \notin Unsettled
        /\ Dead => waits[u].at \notin {"queued", "turn"}
        /\ waits[u].at \in {"turn", "terminal"} => Joined(u, waits[u].turn)
    BY <1>3 DEF WaitsAreServed, TurnsAreJoined
  <2>2. /\ waits[u].at = "admission" => answers[UserId(u)] = "none"
        /\ waits[u].at = "queued" =>
             \E i \in DOMAIN durable.pendingInputs : durable.pendingInputs[i] = u
        /\ waits[u].at = "turn" => Active(durable) /\ durable.turn = waits[u].turn
        /\ waits[u].at = "terminal" => durable.turn > waits[u].turn
    BY <1>3 DEF WaitsFollowJournal
  <2> QED BY <2>1, <2>2 DEF Served
<1> QED BY <1>1, <1>2, <1>3 DEF EachServed

\* Who has joined a turn has joined it for ever.
LEMMA JoinedKeeps ==
  ASSUME StorageInv, Grows, NEW u, NEW turn, Joined(u, turn)
  PROVE  Joined(u, turn)'
<1>1. PICK i \in Consumed : journal[i].input.user = u /\ Before(i).turn = turn
  BY DEF Joined
<1>2. i \in DOMAIN journal /\ i \in Nat \ {0} /\ i - 1 \in 0..Len(journal)
  BY <1>1, TipIsLast DEF Consumed, BatchesOf
<1>3. i \in DOMAIN journal' /\ journal'[i] = journal[i]
  BY <1>2 DEF Grows
<1>4. Before(i)' = Before(i)
  <2>1. CASE i = 1
    BY <2>1 DEF Before, StateAt
  <2>2. CASE i # 1
    <3>1. i - 1 \in DOMAIN journal
      BY <1>2, <2>2, TipIsLast
    <3>2. journal'[i - 1] = journal[i - 1]
      BY <3>1 DEF Grows
    <3> QED BY <1>2, <2>2, <3>2 DEF Before, StateAt
  <2> QED BY <2>1, <2>2
<1>5. i \in Consumed'
  BY <1>1, <1>3, <1>4 DEF Consumed, BatchesOf, Enqueued
<1> QED BY <1>1, <1>3, <1>4, <1>5 DEF Joined

\* The promise of u stays where it is, or is settled.
Rests(u) ==
  /\ durable' = durable \/ (waits[u].at \notin Unsettled /\ durable'.turn >= durable.turn)
  /\ \/ /\ waits'[u] = waits[u] /\ phase' = phase /\ (Dead' => Dead)
        /\ waits[u].at = "admission" => answers'[UserId(u)] = answers[UserId(u)]
     \/ waits'[u] = waits[u] /\ waits[u].at \notin Unsettled
     \/ waits'[u].at \in {"failed", "closed", "lost"}

\* ... and then it is still where the journal says.
LEMMA RestKeeps ==
  ASSUME StorageInv, StorageInv', NEW u \in Users, Served(u), Grows, Rests(u)
  PROVE  Served(u)'
<1>1. \A turn : Joined(u, turn) => Joined(u, turn)'
  BY JoinedKeeps
<1>2. CASE waits'[u].at \in {"failed", "closed", "lost"}
  BY <1>2 DEF Served, Unsettled
<1>3. CASE waits'[u] = waits[u]
  <2>1. PICK w : w = waits[u] /\ w = waits'[u]
    BY <1>3
  <2>2. w.at \in {"turn", "terminal"} => Joined(u, w.turn)'
    BY <1>1, <2>1 DEF Served
  <2>3. CASE w.at \notin Unsettled
    <3>1. durable.turn \in Nat /\ durable'.turn \in Nat /\ w.turn \in Nat
      <4>1. durable \in JournalState /\ durable' \in JournalState
        BY DEF StorageInv, TypeOK, WriterTypeOK
      <4> QED BY <2>1, <4>1, JournalFields DEF StorageInv, TypeOK, WriterTypeOK
    <3>2. w.at = "terminal" => durable'.turn > w.turn
      BY <2>1, <3>1 DEF Served, Rests
    <3> QED BY <2>1, <2>2, <2>3, <3>2 DEF Served, Unsettled
  <2>4. CASE w.at \in Unsettled
    <3>1. /\ durable' = durable /\ phase' = phase /\ (Dead' => Dead)
          /\ w.at = "admission" => answers'[UserId(u)] = answers[UserId(u)]
      BY <2>1, <2>4 DEF Rests, Unsettled
    <3> QED BY <2>1, <2>2, <2>4, <3>1 DEF Served, Unsettled, Active
  <2> QED BY <2>3, <2>4
<1> QED BY <1>2, <1>3 DEF Rests

-----------------------------------------------------------------------------
\* Decisions

\* Other submissions than that of u leave its receipt alone.
LEMMA ToldOthers ==
  ASSUME NEW u \in Users, NEW ids, NEW answer, NEW known, UserId(u) \notin ids
  PROVE  Told(ids, answer, known)[UserId(u)] = known[UserId(u)]
<1>1. UserId(u) \in Tracked
  BY DEF Tracked, Requests
<1> QED BY <1>1, ToldCases

\* IDs of selections are of no user.
LEMMA SelectionsAreOthers ==
  ASSUME NEW u \in Users
  PROVE  UserId(u) \notin AnySelectionIds /\ UserId(u) \notin SelectionIds
BY DEF AnySelectionIds, SelectionIds, UserId

\* A refusal settles the promise it answers.
LEMMA RefusalRests ==
  ASSUME NEW u \in Users, NEW id, NEW answer, UNCHANGED <<durable, phase>>, Dead' => Dead,
         answers' = Told({id}, answer, answers), waits' = RefuseWaits(id)
  PROVE  Rests(u)
<1>1. waits'[u] = IF id = UserId(u) /\ waits[u].at = "admission" THEN Waiting("failed", 0)
                                                                ELSE waits[u]
  BY DEF RefuseWaits
<1>2. CASE id = UserId(u) /\ waits[u].at = "admission"
  BY <1>1, <1>2 DEF Rests, Waiting
<1>3. CASE ~(id = UserId(u) /\ waits[u].at = "admission")
  <2>1. waits'[u] = waits[u]
    BY <1>1, <1>3
  <2>2. waits[u].at = "admission" => answers'[UserId(u)] = answers[UserId(u)]
    BY <1>3, ToldOthers
  <2> QED BY <2>1, <2>2 DEF Rests
<1> QED BY <1>2, <1>3

\* A session that stops settles them all.
LEMMA StopRests ==
  ASSUME NEW u \in Users, NEW end \in {"failed", "closed"}, NEW also, Stop(end, also)
  PROVE  Rests(u)
<1>1. waits'[u] = IF waits[u].at \in Unsettled THEN Waiting(end, 0) ELSE waits[u]
  BY DEF Stop, StopWaits
<1>2. durable' = durable
  BY DEF Stop
<1> QED BY <1>1, <1>2 DEF Rests, Waiting

\* An admission that is refused settles its promise, any other leaves it to its append.
LEMMA AdmitRests ==
  ASSUME NEW u \in Users, NEW s, NEW rest, NEW again, ~Dead, phase' = phase,
         Admit(s, rest, again)
  PROVE  Rests(u)
<1>1. CASE StageAppend(s, rest) /\ UNCHANGED <<answers, waits>>
  BY <1>1 DEF StageAppend, Rests, Dead
<1>2. CASE Stop("failed", {s.id})
  BY <1>2, StopRests
<1>3. CASE /\ answers' = Told({s.id}, Refusal(s), answers) /\ waits' = RefuseWaits(s.id)
           /\ UNCHANGED <<status, durable>>
  BY <1>3, RefusalRests DEF Dead
<1> QED BY <1>1, <1>2, <1>3 DEF Admit

\* Selections concern no promise.
LEMMA SelectionRests ==
  ASSUME NEW u \in Users, NEW sel, NEW known, ~Dead, phase' = phase, UserId(u) # sel.id,
         known[UserId(u)] = answers[UserId(u)],
         ApplySelection(sel, known) \/ SettleStored(sel, known)
  PROVE  Rests(u)
<1>1. UNCHANGED <<durable, waits>>
  BY DEF ApplySelection, SettleStored, StageAppend
<1>2. ~Dead'
  BY DEF ApplySelection, SettleStored, StageAppend, Dead
<1>3. \/ answers' = known
      \/ answers' = Told({sel.id}, "ignored", known)
      \/ answers' = Told({sel.id}, "selected", known)
  BY DEF ApplySelection, SettleStored
<1>4. answers'[UserId(u)] = answers[UserId(u)]
  BY <1>3, ToldOthers
<1> QED BY <1>1, <1>2, <1>4 DEF Rests

\* Every decision but a release leaves a promise where it is, or settles it.
LEMMA DecideRests ==
  ASSUME StorageInv, AdmissionInv, WriterDecides, ~Releases, NEW u \in Users
  PROVE  Rests(u)
<1> DEFINE c == UserId(u)
<1>1. /\ Decide /\ phase' = phase
      /\ Event \in Events /\ EventIsOwn(Event)
      /\ selection # None => SelectionIsOwn(selection)
  <2>1. mailbox # << >> /\ Event = mailbox[1] /\ Event \in Events
    BY DecideConsumes DEF StorageInv, TypeOK, WriterDecides
  <2>2. mailbox \in Seq(Events)
    BY DEF StorageInv, TypeOK, WriterTypeOK
  <2>3. EventIsOwn(Event)
    BY <2>1, <2>2 DEF AdmissionInv, IdsAreOwn
  <2> QED BY <2>1, <2>3 DEF WriterDecides, AdmissionInv, IdsAreOwn
<1>2. \A id \in AnySelectionIds : c # id
  BY SelectionsAreOthers
<1>3. selection # None => c # selection.id /\ (selection.fallback # None => c # selection.fallback.id)
  BY <1>1, <1>2 DEF SelectionIsOwn
<1>4. Event.type \in {"select", "stored", "reselect"} => c # Event.id
  BY <1>1, <1>2 DEF EventIsOwn, AnySelectionIds
<1>5. Superseded[c] = answers[c]
  BY <1>3, ToldOthers DEF Superseded
<1> HIDE DEF c
<1>6. ASSUME UNCHANGED <<status, durable, waits>>, answers'[c] = answers[c]
      PROVE  Rests(u)
  BY <1>1, <1>6 DEF Rests, c, Dead
<1>7. CASE SubmitToDead
  BY <1>1, <1>7, RefusalRests DEF SubmitToDead, Dead
<1>8. CASE SubmitBusy
  <2>1. Event.type = "submit" /\ Event.input.kind = "system"
    BY <1>8 DEF SubmitBusy, Busy, Deciding, Event
  <2>2. c # Event.id
    BY <1>1, <2>1 DEF EventIsOwn, SubmissionIsOwn, IdsOf, UserId, c
  <2>3. answers'[c] = answers[c]
    BY <1>8, <2>2, ToldOthers DEF SubmitBusy, c
  <2> QED BY <1>6, <1>8, <2>3 DEF SubmitBusy
<1>9. CASE SubmitAdmitted
  BY <1>1, <1>9, AdmitRests DEF SubmitAdmitted
<1>10. CASE DrainDequeue \/ DrainQueue
  BY <1>1, <1>10, AdmitRests DEF DrainDequeue, DrainQueue, Dead
<1>11. CASE SelectToDead
  <2>1. c # Event.id
    BY <1>4, <1>11 DEF SelectToDead, Deciding, Event
  <2>2. answers'[c] = answers[c]
    BY <1>11, <2>1, ToldOthers DEF SelectToDead, c
  <2> QED BY <1>6, <1>11, <2>2 DEF SelectToDead
<1>12. CASE Select
  BY <1>5, <1>6, <1>12 DEF Select
<1>13. CASE Reselect
  <2> DEFINE sel == Selected(Event.id, Event.mode, TRUE)
  <2>1. c # Event.id
    BY <1>4, <1>13 DEF Reselect, Deciding, Event
  <2>2. sel.id = Event.id
    BY DEF Selected
  <2>3. SettleStored(sel, Superseded) /\ ~Dead
    BY <1>13 DEF Reselect
  <2> HIDE DEF sel
  <2> QED BY <1>1, <1>5, <2>1, <2>2, <2>3, SelectionRests DEF c
<1>14. CASE StoredCurrent
  <2>1. ~Dead /\ selection # None /\ selection.id = Event.id /\ c # Event.id
    BY <1>3, <1>14 DEF StoredCurrent
  <2> DEFINE known == Told({Event.id}, "refused", answers)
  <2>2. known[c] = answers[c]
    BY <2>1, ToldOthers DEF c
  <2>3. CASE Event.ok
    <3> DEFINE sel == [selection EXCEPT !.stored = TRUE]
    <3>1. SettleStored(sel, answers)
      BY <1>14, <2>3 DEF StoredCurrent
    <3>2. sel.id = Event.id
      BY <2>1
    <3> HIDE DEF sel
    <3> QED BY <1>1, <2>1, <3>1, <3>2, SelectionRests DEF c
  <2>4. CASE ~Event.ok /\ selection.fallback # None
    <3> DEFINE sel == [id |-> selection.fallback.id, mode |-> selection.fallback.mode,
                       stored |-> TRUE, revokes |-> selection.fallback.revokes, fallback |-> None]
    <3>1. SettleStored(sel, known)
      BY <1>14, <2>4 DEF StoredCurrent
    <3>2. sel.id # c
      BY <1>3, <2>1, <2>4
    <3> HIDE DEF sel, known
    <3> QED BY <1>1, <2>1, <2>2, <3>1, <3>2, SelectionRests DEF c
  <2>5. CASE ~Event.ok /\ selection.fallback = None
    BY <1>6, <1>14, <2>2, <2>5 DEF StoredCurrent
  <2> QED BY <2>3, <2>4, <2>5
<1>15. CASE StoredSuperseded
  <2>1. c # Event.id
    BY <1>4, <1>15 DEF StoredSuperseded, Deciding, Event
  <2>2. answers'[c] = answers[c]
    BY <1>15, <2>1, ToldOthers DEF StoredSuperseded, c
  <2> QED BY <1>6, <1>15, <2>2 DEF StoredSuperseded
<1>16. CASE DrainSelection
  <2>1. ~Dead /\ selection # None /\ ApplySelection(selection, answers)
    BY <1>16 DEF DrainSelection, AtBoundary, Dead
  <2> QED BY <1>1, <1>3, <2>1, SelectionRests DEF c
<1>17. CASE AppendCommitted \/ LoadedCommitted
  <2>1. Stop("failed", {})
    BY <1>17 DEF AppendCommitted, LoadedCommitted, Releases
  <2> QED BY <2>1, StopRests
<1>18. CASE AppendRefused \/ LoadedUnusable \/ Close
  BY <1>18, StopRests DEF AppendRefused, LoadedUnusable, Close
<1>19. CASE SubmitQueued \/ DrainNothing \/ StorageIgnored
  BY <1>6, <1>19 DEF SubmitQueued, DrainNothing, StorageIgnored, effectVars
<1>20. CASE AppendIndeterminate \/ LoadedAbsent
  BY <1>1, <1>20 DEF AppendIndeterminate, LoadedAbsent, Rests, Dead
<1> QED
  BY <1>1, <1>7, <1>8, <1>9, <1>10, <1>11, <1>12, <1>13, <1>14, <1>15, <1>16, <1>17, <1>18, <1>19,
     <1>20 DEF Decide

\* A release puts the promise of an input where the journal says it goes.
LEMMA ReleaseServes ==
  ASSUME StorageInv, AdmissionInv, NeverRecovers, NEW u \in Users, Served(u), WriterDecides, Releases
  PROVE  Served(u)'
<1> DEFINE n == pending.next.revision
<1>1. /\ Decide /\ phase' = phase /\ journal' = journal /\ ~Dead /\ ~Dead' /\ pending # None
      /\ durable' = pending.next
      /\ waits'[u] = ReleaseWaits(pending.input, durable, pending.next)[u]
      /\ answers' = Told({pending.id}, "accepted", answers)
  <2>1. ~Dead /\ pending # None
    BY DEF Releases, LoadedCommitted, AppendCommitted, Dead, InFlight
  <2> QED BY <2>1 DEF WriterDecides, storeVars, Releases, Release, ReleaseAnswers, Dead
<1>2. /\ pending.input \in Inputs /\ durable \in JournalState
      /\ pending.next = Stage(durable, pending.input)
      /\ pending.expected = durable.revision /\ n = durable.revision + 1
  BY <1>1, PendingIsStaged
<1>3. n \in DOMAIN journal /\ journal[n] = Batch(pending)
  BY <1>1, ReleasedStored
<1>4. durable = Before(n) /\ durable.revision \in Nat
  <2>1. durable.revision \in Nat
    BY <1>2, JournalFields
  <2>2. n - 1 = durable.revision
    BY <1>2, <2>1
  <2>3. durable = StateAt(n - 1)
    BY <2>2 DEF StorageInv, DurableIsStored
  <2> QED BY <2>1, <2>3 DEF Before
<1>5. /\ pending.id \in IdsOf(pending.input) /\ Admissible(durable, pending.input)
  <2>1. Fit(Batch(pending))
    BY <1>1 DEF AdmissionInv, RequestsAreFit, Underway
  <2>2. StateAt(pending.expected) = durable
    BY <1>2 DEF StorageInv, DurableIsStored
  <2> QED BY <2>1, <2>2 DEF Fit, Batch
<1> HIDE DEF n
<1>6. PICK j, next, input, v, w :
        /\ j = durable /\ next = pending.next /\ next = durable' /\ input = pending.input
        /\ v = waits[u] /\ w = waits'[u]
  BY <1>1
<1>7. /\ j \in JournalState /\ input \in Inputs /\ next = Stage(j, input)
      /\ Admissible(j, input) /\ pending.id \in IdsOf(input)
      /\ v \in [at : WaitStates, turn : Nat]
      /\ j.turn \in Nat /\ j.pendingInputs \in Seq(Users)
  <2>1. v \in [at : WaitStates, turn : Nat]
    BY <1>6 DEF StorageInv, TypeOK, WriterTypeOK
  <2>2. durable.turn \in Nat /\ durable.pendingInputs \in Seq(Users)
    BY <1>2, JournalFields
  <2> QED BY <1>2, <1>5, <1>6, <2>1, <2>2
<1> DEFINE arrives == \/ input = DequeuedInput(u) /\ v.at = "queued"
                      \/ input = UserInput(u) /\ v.at = "admission" /\ ~Queues(j, input)
<1>8. \/ /\ w = v /\ ~(input = DequeuedInput(u) /\ v.at = "queued")
         /\ ~(input = UserInput(u) /\ v.at = "admission")
         /\ ~(Ends(j, next) /\ v = Waiting("turn", j.turn))
      \/ w = Waiting("queued", 0) /\ v.at = "admission" /\ input = UserInput(u) /\ Queues(j, input)
      \/ w = Waiting("turn", next.turn) /\ ~Ends(j, next) /\ arrives
      \/ /\ w = Waiting("terminal", j.turn) /\ Ends(j, next)
         /\ arrives \/ v = Waiting("turn", j.turn)
  <2>1. w = ReleaseWaits(input, j, next)[u]
    BY <1>1, <1>6
  <2> QED BY <1>6, <2>1, ReleaseCases DEF LeavesQueue
<1>9. arrives => /\ n \in Consumed /\ journal[n].input.user = u /\ Before(n).turn = j.turn
                 /\ input.kind \in {"user", "dequeued"} /\ ~Queues(j, input)
  <2>1. arrives => /\ input.kind \in {"user", "dequeued"} /\ ~Queues(j, input) /\ input.user = u
    BY DEF Queues, DequeuedInput, UserInput
  <2>2. journal[n].input = input /\ Before(n) = j
    BY <1>3, <1>4, <1>6 DEF Batch
  <2> HIDE DEF arrives
  <2> QED BY <1>3, <2>1, <2>2 DEF Consumed, BatchesOf, Enqueued
<1>10. /\ next.turn \in Nat /\ next.turn >= j.turn
       /\ Ends(j, next) => next.turn > j.turn
       /\ Active(j) => Active(next) \/ Ends(j, next)
       /\ arrives => Active(next) \/ Ends(j, next)
  BY <1>7, <1>9, StageTurns
<1>11. ASSUME NEW turn
       PROVE  Joined(u, turn) => Joined(u, turn)'
  BY <1>1, JoinedKeeps, TipIsLast DEF Grows
<1>12. arrives => Joined(u, j.turn)'
  BY <1>9, <1>11 DEF Joined
<1>13. /\ v.at = "queued" => \E i \in DOMAIN j.pendingInputs : j.pendingInputs[i] = u
       /\ v.at = "turn" => Active(j) /\ v = Waiting("turn", j.turn)
       /\ v.at \in {"turn", "terminal"} => Joined(u, v.turn)'
       /\ v.at = "terminal" => j.turn > v.turn
       /\ phase # "open" => v.at \notin Unsettled
  BY <1>6, <1>7, <1>11 DEF Served, Waiting
<1>14. phase' # "open" => w.at \notin Unsettled
  <2>1. CASE phase = "open"
    BY <1>1, <2>1
  <2>2. CASE phase # "open"
    BY <1>8, <1>13, <2>2 DEF Unsettled, Waiting
  <2> QED BY <2>1, <2>2
<1>15. w.at \in {"turn", "terminal"} => Joined(u, w.turn)'
  BY <1>8, <1>12, <1>13 DEF Waiting, Ends
<1>16. w.at = "admission" => answers'[UserId(u)] = "none"
  <2>1. SUFFICES ASSUME w.at = "admission"
                 PROVE  answers'[UserId(u)] = "none"
    OBVIOUS
  <2>2. v.at = "admission" /\ input # UserInput(u)
    BY <1>8, <2>1 DEF Waiting
  <2>3. UserId(u) # pending.id
    <3>1. ASSUME UserId(u) = pending.id
          PROVE  FALSE
      <4>1. input.kind = "user" /\ input.user = u
        BY <1>7, <3>1, InputFields DEF IdsOf, UserId, DequeueId, ChildId, RecoveryId, CreateId,
           AnySelectionIds, SelectionIds
      <4>2. input = UserInput(u)
        BY <1>7, <4>1 DEF Inputs, UserInput, Created, AbortInput, SystemInput, DequeuedInput,
           PolicyInput
      <4> QED BY <2>2, <4>2
    <3> QED BY <3>1
  <2>4. answers'[UserId(u)] = answers[UserId(u)]
    BY <1>1, <2>3, ToldOthers
  <2> QED BY <1>6, <2>2, <2>4 DEF Served
<1>17. w.at = "queued" => \E i \in DOMAIN next.pendingInputs : next.pendingInputs[i] = u
  <2>1. CASE w = Waiting("queued", 0) /\ input = UserInput(u) /\ Queues(j, input)
    <3>1. next.pendingInputs = Append(j.pendingInputs, input.user) /\ input.user = u
      BY <1>7, <2>1, FoldQueue DEF UserInput
    <3> QED BY <1>7, <3>1
  <2>2. CASE w = v /\ v.at = "queued" /\ input # DequeuedInput(u)
    <3>1. PICK i \in DOMAIN j.pendingInputs : j.pendingInputs[i] = u
      BY <1>13, <2>2
    <3>2. CASE Queues(j, input)
      <4>1. next.pendingInputs = Append(j.pendingInputs, input.user)
        BY <1>7, <3>2, FoldQueue
      <4> QED BY <1>7, <3>1, <4>1
    <3>3. CASE input.kind = "dequeued"
      <4>1. /\ input.user = Head(j.pendingInputs) /\ j.pendingInputs # << >>
            /\ next.pendingInputs = Tail(j.pendingInputs)
        BY <1>7, <3>3, FoldQueue
      <4>2. input.user # u
        BY <1>7, <2>2, <3>3 DEF Inputs, UserInput, Created, AbortInput, SystemInput,
           DequeuedInput, PolicyInput
      <4>3. i # 1
        BY <1>7, <3>1, <4>1, <4>2
      <4>4. i - 1 \in DOMAIN Tail(j.pendingInputs) /\ Tail(j.pendingInputs)[i - 1] = u
        <5>1. PICK q \in Seq(Users) : q = j.pendingInputs
          BY <1>7
        <5>2. q # << >> /\ i \in DOMAIN q /\ q[i] = u
          BY <3>1, <4>1, <5>1
        <5>3. i - 1 \in DOMAIN Tail(q) /\ Tail(q)[i - 1] = q[i]
          BY ONLY <4>3, <5>1, <5>2
        <5> QED BY <5>1, <5>2, <5>3
      <4> QED BY <4>1, <4>4
    <3>4. CASE ~Queues(j, input) /\ input.kind \notin {"dequeued", "recovery"}
      BY <1>7, <3>1, <3>4, FoldQueue
    <3>5. input.kind # "recovery"
      <4>1. phase = "open"
        BY <1>13, <2>2 DEF Unsettled
      <4> QED BY <1>1, <1>6, <4>1 DEF NeverRecovers
    <3> QED BY <3>2, <3>3, <3>4, <3>5
  <2> QED BY <1>8, <2>1, <2>2 DEF Waiting
<1>18. w.at = "turn" => Active(next) /\ next.turn = w.turn
  BY <1>8, <1>10, <1>13 DEF Waiting, Ends
<1>19. w.at = "terminal" => next.turn > w.turn
  BY <1>7, <1>8, <1>10, <1>13 DEF Waiting
<1> QED
  BY <1>1, <1>6, <1>14, <1>15, <1>16, <1>17, <1>18, <1>19 DEF Served, Active

-----------------------------------------------------------------------------
\* The other steps

\* Clients, the host, storage and other processes move no promise, but that a user makes
\* one and that a runtime which is gone loses those it held.
LEMMA OutsideServes ==
  ASSUME StorageInv, StorageInv', Grows, ReceiptInv, TurnsGrow, NEW u \in Users, Served(u),
         Client \/ Host \/ Port \/ World \/ Opening \/ UNCHANGED vars
  PROVE  Served(u)'
<1>1. ASSUME Rests(u) PROVE Served(u)'
  BY <1>1, RestKeeps
<1>2. ASSUME UNCHANGED <<status, durable, waits, answers, phase>>
      PROVE  Rests(u)
  BY <1>2 DEF Rests, Dead
<1>3. CASE Client
  <2>1. ASSUME NEW v \in Users, SendUser(v)
        PROVE  Served(u)'
    <3>1. /\ phase = "open" /\ UNCHANGED <<status, durable, answers, phase>>
          /\ waits' = [waits EXCEPT ![v] = Waiting("admission", 0)]
          /\ UserId(v) \notin sent
      BY <2>1 DEF SendUser, SendRequest
    <3>2. waits \in [Users -> [at : WaitStates, turn : Nat]]
      BY DEF StorageInv, TypeOK, WriterTypeOK
    <3>3. CASE v # u
      <4>1. waits'[u] = waits[u]
        BY <3>1, <3>2, <3>3
      <4>2. Rests(u)
        BY <3>1, <4>1 DEF Rests, Dead
      <4> QED BY <1>1, <4>2
    <3>4. CASE v = u
      <4>1. waits'[u] = Waiting("admission", 0)
        BY <3>1, <3>2, <3>4
      <4>2. answers'[UserId(u)] = "none"
        <5>1. UserId(u) \in Tracked /\ UserId(u) \in Requests \ sent
          BY <3>1, <3>4 DEF Tracked, Requests
        <5> QED BY <3>1, <5>1 DEF ReceiptInv, FateFollowsAnswer
      <4>3. phase' = "open"
        BY <3>1
      <4> QED BY <4>1, <4>2, <4>3 DEF Served, Waiting
    <3> QED BY <3>3, <3>4
  <2>2. CASE ~(\E v \in Users : SendUser(v))
    <3>1. UNCHANGED <<status, durable, waits, answers, phase>>
      BY <1>3, <2>2 DEF Client, SendSystem, SendAbort, SendSelect, SendClose, SendRequest,
         unposted, sessionVars
    <3> QED BY <1>1, <1>2, <3>1
  <2> QED BY <2>1, <2>2
<1>4. CASE Host \/ Port \/ UNCHANGED vars
  <2>1. UNCHANGED <<status, durable, waits, answers, phase>>
    BY <1>4 DEF Host, ChildSettles, Port, PortAppends, PortLosesAck, PortRejects,
       PortMisreports, PortCancels, PortLoads, PortStores, Appended, unposted, vars, writerVars,
       effectVars, sessionVars
  <2> QED BY <1>1, <1>2, <2>1
<1>5. CASE ForeignAppends \/ OrphanLands
  <2>1. UNCHANGED <<status, durable, waits, answers, phase>>
    BY <1>5 DEF ForeignAppends, OrphanLands, NotWriter, writerVars, effectVars
  <2> QED BY <1>1, <1>2, <2>1
<1>6. CASE Vanish
  <2>1. waits'[u] = IF waits[u].at \in Unsettled THEN Waiting("lost", 0) ELSE waits[u]
    BY <1>6 DEF Vanish
  <2>2. durable' = durable
    BY <1>6 DEF Vanish
  <2>3. Rests(u)
    BY <2>1, <2>2 DEF Rests, Waiting
  <2> QED BY <1>1, <2>3
<1>7. CASE RestoreJournal
  <2>1. waits' = waits /\ phase = "down" /\ durable' = Tip
    BY <1>7 DEF RestoreJournal, Replayed
  <2>2. waits[u].at \notin Unsettled
    BY <2>1 DEF Served
  <2>3. durable.revision \in 0..Len(journal) /\ durable = StateAt(durable.revision)
    BY DEF StorageInv, DurableIsStored
  <2>4. durable.turn <= Tip.turn
    BY <2>3 DEF TurnsGrow
  <2>5. durable.turn \in Nat /\ Tip.turn \in Nat
    BY <2>3, StatesAreTyped, TipIsLast, JournalFields
  <2>6. Rests(u)
    BY <2>1, <2>2, <2>4, <2>5 DEF Rests
  <2> QED BY <1>1, <2>6
<1>8. CASE CreateDone \/ RestoreConfig \/ RestoreRecovered \/ RestoreReselects \/ RestoreDone
  <2>1. phase # "open" /\ UNCHANGED <<waits, durable>>
    BY <1>8 DEF CreateDone, RestoreConfig, RestoreRecovered, RestoreReselects, RestoreDone, Opens,
       unposted
  <2>2. Rests(u)
    BY <2>1 DEF Served, Rests
  <2> QED BY <1>1, <2>2
<1> QED
  BY <1>3, <1>4, <1>5, <1>6, <1>7, <1>8 DEF World, Crash, Opening, CreateFailed, RestoreFailed

-----------------------------------------------------------------------------
\* Recovery

Quiet(q) == \A i \in DOMAIN q : q[i].input.kind # "recovery"

StagesOther == pending' # None => pending'.input.kind # "recovery"

\* Admitting an input that recovers nothing.
LEMMA AdmitOther ==
  ASSUME NEW s, s.input.kind # "recovery", NEW rest, Quiet(rest), NEW again,
         Admit(s, rest, again), pending = None
  PROVE  StagesOther /\ Quiet(queue')
<1>1. CASE StageAppend(s, rest)
  BY <1>1 DEF StageAppend, StagesOther
<1>2. CASE Stop("failed", {s.id})
  BY <1>2 DEF Stop, StagesOther, Quiet
<1>3. CASE queue' = rest /\ pending' = pending
  BY <1>3 DEF StagesOther
<1> QED BY <1>1, <1>2, <1>3 DEF Admit

\* No decision makes a submission of its own that recovers.
LEMMA DecideOther ==
  ASSUME WriterTypeOK, Decide, ~Dead, pending # None => pending.input.kind # "recovery",
         Quiet(queue), Event.type = "submit" => Event.input.kind # "recovery"
  PROVE  StagesOther /\ Quiet(queue')
<1>1. status = "ready" => pending = None
  BY DEF WriterTypeOK
<1>2. CASE UNCHANGED <<queue, pending>>
  BY <1>2 DEF StagesOther
<1>3. ASSUME NEW end, NEW also, Stop(end, also)
      PROVE  StagesOther /\ Quiet(queue')
  BY <1>3 DEF Stop, StagesOther, Quiet
<1>4. ASSUME NEW sel, NEW known, ApplySelection(sel, known) \/ SettleStored(sel, known)
      PROVE  StagesOther /\ Quiet(queue')
  <2>1. \/ UNCHANGED <<queue, pending>>
        \/ StageAppend([id |-> sel.id, input |-> PolicyInput(sel.mode)], queue)
    BY <1>4 DEF ApplySelection, SettleStored
  <2> QED BY <1>2, <2>1 DEF StageAppend, StagesOther, PolicyInput
<1>5. CASE SubmitQueued
  <2>1. queue' = Append(queue, [id |-> Event.id, input |-> Event.input]) /\ pending' = pending
        /\ Event.type = "submit"
    BY <1>5 DEF SubmitQueued, Deciding, Event
  <2>2. queue \in Seq(Submission)
    BY DEF WriterTypeOK
  <2>3. \A i \in DOMAIN queue' :
          \/ i \in DOMAIN queue /\ queue'[i] = queue[i]
          \/ queue'[i] = [id |-> Event.id, input |-> Event.input]
    BY <2>1, <2>2, AppendCases
  <2> QED BY <2>1, <2>3 DEF Quiet, StagesOther
<1>6. CASE SubmitAdmitted
  <2> DEFINE s == [id |-> Event.id, input |-> Event.input]
  <2>1. Admit(s, << >>, << >>) /\ s.input.kind # "recovery" /\ Quiet(<< >>) /\ status = "ready"
    BY <1>6 DEF SubmitAdmitted, Deciding, Event, Quiet, MustQueue
  <2> HIDE DEF s
  <2> QED BY <1>1, <2>1, AdmitOther
<1>7. CASE DrainDequeue
  <2> DEFINE u == Head(durable.pendingInputs)
             s == [id |-> DequeueId(u), input |-> DequeuedInput(u)]
  <2>1. Admit(s, queue, << >>) /\ s.input.kind # "recovery" /\ status = "ready"
    BY <1>7 DEF DrainDequeue, DequeuedInput
  <2> HIDE DEF s
  <2> QED BY <1>1, <2>1, AdmitOther
<1>8. CASE DrainQueue
  <2>1. Admit(Head(queue), Tail(queue), <<Drain>>) /\ queue # << >> /\ status = "ready"
    BY <1>8 DEF DrainQueue
  <2>2. queue \in Seq(Submission)
    BY DEF WriterTypeOK
  <2>3. Head(queue).input.kind # "recovery" /\ Quiet(Tail(queue))
    BY <2>1, <2>2, TailCases DEF Quiet
  <2> QED BY <1>1, <2>1, <2>3, AdmitOther
<1>9. CASE Select \/ StoredSuperseded \/ SubmitBusy \/ SubmitToDead \/ SelectToDead
  BY <1>2, <1>9 DEF Select, StoredSuperseded, SubmitBusy, SubmitToDead, SelectToDead
<1>10. CASE Reselect
  BY <1>4, <1>10 DEF Reselect
<1>11. CASE StoredCurrent
  BY <1>2, <1>4, <1>11 DEF StoredCurrent
<1>12. CASE DrainSelection
  BY <1>4, <1>12 DEF DrainSelection
<1>13. CASE AppendCommitted \/ LoadedCommitted
  <2>1. Release \/ Stop("failed", {})
    BY <1>13 DEF AppendCommitted, LoadedCommitted
  <2> QED BY <1>3, <2>1 DEF Release, StagesOther
<1>14. CASE AppendRefused \/ LoadedUnusable \/ Close
  BY <1>3, <1>14 DEF AppendRefused, LoadedUnusable, Close
<1>15. CASE SubmitQueued \/ DrainNothing \/ StorageIgnored \/ AppendIndeterminate
  BY <1>2, <1>5, <1>15 DEF DrainNothing, StorageIgnored, AppendIndeterminate
<1>16. CASE LoadedAbsent
  <2>1. /\ pending # None /\ pending \in Pending /\ queue' = queue
        /\ pending' = [pending EXCEPT !.attempts = @ + 1]
    BY <1>16 DEF LoadedAbsent, InFlight, WriterTypeOK
  <2>2. pending'.input = pending.input
    BY <2>1 DEF Pending
  <2> QED BY <2>1, <2>2 DEF StagesOther
<1> QED
  BY <1>5, <1>6, <1>7, <1>8, <1>9, <1>10, <1>11, <1>12, <1>13, <1>14, <1>15, <1>16 DEF Decide

\* The events that may wait in the mailbox of a runtime that does not restore.
Other(e) == e.type = "submit" => e.input.kind # "recovery"

\* No step makes a runtime that does not restore recover anything.
LEMMA RecoversStep ==
  ASSUME StorageInv, OpeningInv, NeverRecovers, [Next]_vars
  PROVE  NeverRecovers'
<1> SUFFICES ASSUME ~Dead', phase' \in {"creating", "open"}
             PROVE  /\ StagesOther /\ Quiet(queue')
                    /\ \A i \in DOMAIN mailbox' : Other(mailbox'[i])
  BY DEF NeverRecovers, StagesOther, Quiet, Other
<1>1. WriterTypeOK /\ mailbox \in Seq(Events)
  BY DEF StorageInv, TypeOK, WriterTypeOK
<1>2. ASSUME ~Dead, phase \in {"creating", "open"}
      PROVE  /\ pending # None => pending.input.kind # "recovery"
             /\ Quiet(queue) /\ \A i \in DOMAIN mailbox : Other(mailbox[i])
  BY <1>2 DEF NeverRecovers, Quiet, Other
<1>3. CASE WriterDecides
  <2>1. Decide /\ phase' = phase
    BY <1>3 DEF WriterDecides
  <2>2. ~Dead
    BY <2>1, DeadDecides DEF OpeningInv
  <2>3. /\ mailbox # << >> /\ Event = mailbox[1]
        /\ \E sends \in {<< >>, <<Drain>>} : Consume(sends)
    BY <1>1, <2>1, DecideConsumes
  <2>4. \A i \in DOMAIN mailbox : Other(mailbox[i])
    BY <1>2, <2>1, <2>2
  <2>5. StagesOther /\ Quiet(queue')
    <3>1. 1 \in DOMAIN mailbox
      BY <1>1, <2>3
    <3>2. Event.type = "submit" => Event.input.kind # "recovery"
      BY <2>3, <2>4, <3>1 DEF Other
    <3> QED BY <1>1, <1>2, <2>1, <2>2, <3>2, DecideOther
  <2>6. ASSUME NEW i \in DOMAIN mailbox'
        PROVE  Other(mailbox'[i])
    <3>1. \/ i + 1 \in DOMAIN mailbox /\ mailbox'[i] = mailbox[i + 1]
          \/ mailbox'[i] = Drain
      BY <1>1, <2>3, MailboxLeft
    <3>2. Other(Drain)
      BY DEF Other, Drain
    <3> QED BY <2>4, <3>1, <3>2
  <2> QED BY <2>5, <2>6
<1>4. ASSUME UNCHANGED <<status, phase, queue, pending>>,
             mailbox' = mailbox \/ \E e : mailbox' = Append(mailbox, e) /\ Other(e)
      PROVE  /\ StagesOther /\ Quiet(queue')
             /\ \A i \in DOMAIN mailbox' : Other(mailbox'[i])
  <2>1. /\ pending # None => pending.input.kind # "recovery"
        /\ Quiet(queue) /\ \A i \in DOMAIN mailbox : Other(mailbox[i])
    BY <1>2, <1>4 DEF Dead
  <2>2. StagesOther /\ Quiet(queue')
    BY <1>4, <2>1 DEF StagesOther
  <2>3. CASE mailbox' = mailbox
    BY <2>1, <2>2, <2>3
  <2>4. ASSUME NEW e, mailbox' = Append(mailbox, e), Other(e), NEW i \in DOMAIN mailbox'
        PROVE  Other(mailbox'[i])
    BY <1>1, <2>1, <2>4, MailboxMore
  <2> QED BY <1>4, <2>2, <2>3, <2>4
<1>5. CASE Client
  <2>1. UNCHANGED <<status, phase, queue, pending>>
    BY <1>5 DEF Client, SendUser, SendSystem, SendAbort, SendSelect, SendClose, SendRequest,
       unposted, sessionVars
  <2>2. \E e : mailbox' = Append(mailbox, e) /\ Other(e)
    <3>1. ASSUME NEW id, NEW input, input.kind # "recovery", SendRequest(id, Submit(id, input))
          PROVE  \E e : mailbox' = Append(mailbox, e) /\ Other(e)
      BY <3>1 DEF SendRequest, Post, Other, Submit
    <3>2. ASSUME NEW u \in Users, SendUser(u)
          PROVE  \E e : mailbox' = Append(mailbox, e) /\ Other(e)
      BY <3>1, <3>2 DEF SendUser, UserInput
    <3>3. ASSUME NEW s \in Systems, SendSystem(s)
          PROVE  \E e : mailbox' = Append(mailbox, e) /\ Other(e)
      BY <3>1, <3>3 DEF SendSystem, SystemInput
    <3>4. ASSUME NEW a \in Aborts, SendAbort(a)
          PROVE  \E e : mailbox' = Append(mailbox, e) /\ Other(e)
      BY <3>1, <3>4 DEF SendAbort, AbortInput
    <3>5. ASSUME NEW c \in Selects, NEW patch \in Patches, SendSelect(c, patch)
          PROVE  \E e : mailbox' = Append(mailbox, e) /\ Other(e)
      BY <3>5 DEF SendSelect, SendRequest, Post, Other
    <3>6. CASE SendClose
      BY <3>6 DEF SendClose, Post, Other
    <3> QED BY <1>5, <3>2, <3>3, <3>4, <3>5, <3>6 DEF Client
  <2> QED BY <1>4, <2>1, <2>2
<1>6. CASE Host
  <2>1. UNCHANGED <<status, phase, queue, pending>>
    BY <1>6 DEF Host, ChildSettles, sessionVars
  <2>2. \E e : mailbox' = Append(mailbox, e) /\ Other(e)
    BY <1>6 DEF Host, ChildSettles, Post, Other, Submit, ChildInput
  <2> QED BY <1>4, <2>1, <2>2
<1>7. CASE Port
  <2>1. UNCHANGED <<status, phase, queue, pending>>
    BY <1>7 DEF Port, PortAppends, PortLosesAck, PortRejects, PortMisreports, PortCancels,
       PortLoads, PortStores, Appended, unposted
  <2>2. \E e : mailbox' = Append(mailbox, e) /\ Other(e)
    <3>1. ASSUME NEW request, NEW result, NEW revision, Appended(request, result, revision)
          PROVE  \E e : mailbox' = Append(mailbox, e) /\ Other(e)
      BY <3>1 DEF Appended, Post, Other
    <3>2. CASE PortLoads
      BY <3>2 DEF PortLoads, Post, Other
    <3>3. CASE PortStores
      BY <3>3 DEF PortStores, Post, Other
    <3>4. CASE PortAppends \/ PortLosesAck \/ PortRejects \/ PortMisreports \/ PortCancels
      BY <3>1, <3>4 DEF PortAppends, PortLosesAck, PortRejects, PortMisreports, PortCancels
    <3> QED BY <1>7, <3>2, <3>3, <3>4 DEF Port
  <2> QED BY <1>4, <2>1, <2>2
<1>8. CASE ForeignAppends \/ OrphanLands \/ UNCHANGED vars
  <2>1. UNCHANGED <<status, phase, queue, pending, mailbox>>
    BY <1>8 DEF ForeignAppends, OrphanLands, NotWriter, writerVars, sessionVars, vars
  <2> QED BY <1>4, <2>1
<1>9. ~Vanish
  BY DEF Vanish
<1>10. CASE CreateDone
  <2>1. UNCHANGED <<status, queue, pending, mailbox>> /\ phase = "creating"
    BY <1>10 DEF CreateDone, Opens
  <2>2. ~Dead
    BY <2>1 DEF Dead
  <2> QED BY <1>2, <2>1, <2>2 DEF StagesOther
<1>11. CASE RestoreReselects \/ RestoreDone
  <2>1. /\ UNCHANGED <<status, queue, pending>> /\ phase \in {"recovered", "reselecting"}
        /\ mailbox' = mailbox
    BY <1>11 DEF RestoreReselects, RestoreDone, Opens
  <2>2. ~Dead
    BY <2>1 DEF Dead
  <2>3. /\ queue = << >> /\ ~HasEvent({"submit"})
        /\ pending # None => pending.input = PolicyInput(seen)
    <3>1. queue = << >> /\ (phase = "recovered" \/ ReselectUnderway)
      BY <2>1, <2>2 DEF OpeningInv, RestoresOnly, RestorePhases
    <3>2. phase = "recovered" => pending = None /\ ~HasEvent({"submit", "reselect"})
      BY <2>1, <2>2 DEF OpeningInv, RestoresOnly, RestorePhases
    <3> QED BY <3>1, <3>2 DEF ReselectUnderway, HasEvent
  <2>4. StagesOther /\ Quiet(queue')
    BY <2>1, <2>3 DEF StagesOther, Quiet, PolicyInput
  <2>5. \A i \in DOMAIN mailbox : Other(mailbox[i])
    BY <2>3 DEF HasEvent, Other
  <2> QED BY <2>1, <2>4, <2>5
<1>12. ~(RestoreJournal \/ RestoreConfig \/ RestoreRecovered)
  BY DEF RestoreJournal, RestoreConfig, RestoreRecovered, Opens
<1> QED
  BY <1>3, <1>5, <1>6, <1>7, <1>8, <1>9, <1>10, <1>11, <1>12
     DEF Next, World, Crash, Opening, CreateFailed, RestoreFailed

-----------------------------------------------------------------------------
\* The invariant

\* Every step keeps the invariant of the promises.
LEMMA WaitStep ==
  StorageInv /\ AdmissionInv /\ ReceiptInv /\ OpeningInv /\ WaitInv /\ [Next]_vars => WaitInv'
<1> SUFFICES ASSUME StorageInv, AdmissionInv, ReceiptInv, OpeningInv, WaitInv, [Next]_vars
             PROVE  WaitInv'
  OBVIOUS
<1>1. StorageInv' /\ Grows
  BY StorageStep, StoreCases DEF AdmissionInv
<1>2. NeverRecovers'
  BY RecoversStep DEF WaitInv
<1>3. TurnsGrow'
  BY TurnsStep DEF WaitInv
<1>4. EachServed'
  <2>1. ASSUME NEW u \in Users
        PROVE  Served(u)'
    <3>1. Served(u)
      BY ServedFits DEF WaitInv, EachServed
    <3>2. CASE WriterDecides
      BY <1>1, <3>1, <3>2, DecideRests, RestKeeps, ReleaseServes DEF WaitInv
    <3>3. CASE ~WriterDecides
      BY <1>1, <3>1, <3>3, OutsideServes DEF WaitInv, Next
    <3> QED BY <3>2, <3>3
  <2> QED BY <2>1 DEF EachServed
<1>5. WaitsAreServed' /\ TurnsAreJoined' /\ WaitsFollowJournal'
  BY <1>4, ServedFits, PTL
<1> QED BY <1>2, <1>3, <1>5 DEF WaitInv

\* A session begins without inputs.
LEMMA WaitInit == Init => WaitInv
<1> SUFFICES ASSUME Init
             PROVE  WaitInv
  OBVIOUS
<1>1. ASSUME NEW u \in Users
      PROVE  waits[u].at = "none"
  BY DEF Init, Waiting
<1>2. EachServed
  BY <1>1 DEF EachServed, Served, Unsettled
<1>3. NeverRecovers
  <2>1. mailbox = <<Submit(CreateId, Created)>> /\ queue = << >> /\ pending = None
    BY DEF Init
  <2> QED BY <2>1 DEF NeverRecovers, Submit, Created
<1>4. TurnsGrow
  <2>1. journal = << >>
    BY DEF Init
  <2> QED BY <2>1 DEF TurnsGrow, StateAt, Tip, EmptyJournal
<1> QED BY <1>2, <1>3, <1>4, ServedFits DEF WaitInv

\* The promises and what they rest on keep their invariants over every behaviour of the
\* session (waits of SessionWriter, the settlement map of session-commands.ts).
THEOREM WaitsSafe == Spec => [](StorageInv /\ AdmissionInv /\ ReceiptInv /\ OpeningInv /\ WaitInv)
<1>1. Init => StorageInv /\ AdmissionInv /\ ReceiptInv /\ OpeningInv /\ WaitInv
  BY StorageInit, AdmissionInit, ReceiptInit, OpeningInit, WaitInit
<1>2. StorageInv /\ AdmissionInv /\ ReceiptInv /\ OpeningInv /\ WaitInv /\ [Next]_vars
        => (StorageInv /\ AdmissionInv /\ ReceiptInv /\ OpeningInv /\ WaitInv)'
  BY StorageStep, FitStep, IdsStep, ReceiptStep, OpeningStep, WaitStep DEF AdmissionInv, StorageInv
<1> QED BY <1>1, <1>2, PTL DEF Spec

\* The settlement promise of a user input is always where the journal says that its input
\* is, and has the turn that took it.
THEOREM PromisesFollowJournal == Spec => []WaitsFollowJournal
<1>1. WaitInv => WaitsFollowJournal
  BY DEF WaitInv
<1> QED BY <1>1, WaitsSafe, PTL

-----------------------------------------------------------------------------
\* Selections

(***************************************************************************)
(* The parts of SelectionInv, of any mailbox M, writes S, selection sel,   *)
(* next configuration and configuration last stored.                       *)
(***************************************************************************)
ResultsIn(M) == {i \in DOMAIN M : M[i].type = "stored"}
WrittenIn(M) == {i \in ResultsIn(M) : M[i].ok}

Matches(write, sel) == write.id = sel.id /\ write.mode = sel.mode

LastIn(M, S, sel) ==
  /\ sel = None \/ sel.stored => S = << >> /\ ResultsIn(M) = {}
  /\ sel # None /\ ~sel.stored =>
       \/ S # << >> /\ Matches(S[Len(S)], sel)
       \/ /\ S = << >>
          /\ \E i \in ResultsIn(M) : Matches(M[i], sel) /\ \A j \in ResultsIn(M) : j <= i

StandsIn(sel, next, mode) ==
  /\ sel # None /\ sel.stored => mode = sel.mode
  /\ sel # None /\ ~sel.stored /\ sel.fallback # None => mode = sel.fallback.mode
  /\ sel = None \/ (~sel.stored /\ sel.fallback = None) => mode \in {None, next}

SeenIn(M, sel, next, mode) ==
  /\ WrittenIn(M) = {} => StandsIn(sel, next, mode)
  /\ \A i \in WrittenIn(M) : (\A j \in WrittenIn(M) : j <= i) => mode = M[i].mode

DropsFrom(sel, next) == sel.revokes \/ sel.mode.perm # next.perm

RevokedIn(M, S, sel, next) ==
  sel # None =>
    /\ \A i \in ResultsIn(M) : M[i].id # sel.id /\ M[i].mode.perm # next.perm => sel.revokes
    /\ \A i \in DOMAIN S : S[i].id # sel.id /\ S[i].mode.perm # next.perm => sel.revokes
    /\ sel.fallback # None /\ DropsFrom(sel.fallback, next) => sel.revokes

DropIn(M, sel, next) ==
  /\ sel # None
  /\ \/ /\ sel.stored \/ \E i \in WrittenIn(M) : M[i].id = sel.id
        /\ DropsFrom(sel, next)
     \/ /\ ~sel.stored /\ sel.revokes
        /\ WrittenIn(M) # {} \/ (sel.fallback # None /\ DropsFrom(sel.fallback, next))

\* Every write has an ID of its own.
OnceStored(M, S) ==
  /\ \A i, j \in ResultsIn(M) : M[i].id = M[j].id => i = j
  /\ \A i, j \in DOMAIN S : S[i].id = S[j].id => i = j
  /\ \A i \in ResultsIn(M), j \in DOMAIN S : M[i].id # S[j].id

\* The results in N are those of M, d places earlier.
Shifted(M, N, d) ==
  /\ \A i \in ResultsIn(N) : i \in Nat /\ i + d \in ResultsIn(M) /\ N[i] = M[i + d]
  /\ \A i \in ResultsIn(M) : i \in Nat /\ i - d \in ResultsIn(N)

\* Moving up in the mailbox changes nothing.
LEMMA ShiftKeeps ==
  ASSUME NEW M, NEW N, NEW d \in {0, 1}, Shifted(M, N, d), NEW S, NEW sel, NEW next, NEW mode
  PROVE  /\ LastIn(M, S, sel) => LastIn(N, S, sel)
         /\ SeenIn(M, sel, next, mode) => SeenIn(N, sel, next, mode)
         /\ RevokedIn(M, S, sel, next) => RevokedIn(N, S, sel, next)
         /\ DropIn(M, sel, next) => DropIn(N, sel, next)
<1>1. /\ \A i \in ResultsIn(N) : i \in Nat /\ i + d \in ResultsIn(M) /\ N[i] = M[i + d]
      /\ \A i \in ResultsIn(M) : i \in Nat /\ i - d \in ResultsIn(N) /\ N[i - d] = M[i]
  <2>1. \A i \in ResultsIn(M) : i \in Nat /\ i - d \in ResultsIn(N)
    BY DEF Shifted
  <2>2. \A i \in ResultsIn(N) : i \in Nat /\ i + d \in ResultsIn(M) /\ N[i] = M[i + d]
    BY DEF Shifted
  <2>3. \A i \in ResultsIn(M) : (i - d) + d = i
    BY <2>1
  <2> QED BY <2>1, <2>2, <2>3
<1>2. /\ \A i \in WrittenIn(N) : i \in Nat /\ i + d \in WrittenIn(M) /\ N[i] = M[i + d]
      /\ \A i \in WrittenIn(M) : i \in Nat /\ i - d \in WrittenIn(N) /\ N[i - d] = M[i]
  BY <1>1 DEF WrittenIn
<1>3. LastIn(M, S, sel) => LastIn(N, S, sel)
  <2> SUFFICES ASSUME LastIn(M, S, sel)
               PROVE  LastIn(N, S, sel)
    OBVIOUS
  <2>1. ResultsIn(M) = {} => ResultsIn(N) = {}
    BY <1>1
  <2>2. ASSUME NEW i \in ResultsIn(M), Matches(M[i], sel), \A j \in ResultsIn(M) : j <= i
        PROVE  \E k \in ResultsIn(N) : Matches(N[k], sel) /\ \A j \in ResultsIn(N) : j <= k
    <3>1. i - d \in ResultsIn(N) /\ N[i - d] = M[i] /\ i \in Nat
      BY <1>1
    <3>2. \A j \in ResultsIn(N) : j <= i - d
      <4>1. ASSUME NEW j \in ResultsIn(N)
            PROVE  j <= i - d
        <5>1. j \in Nat /\ j + d <= i
          BY <1>1, <2>2
        <5> QED BY <3>1, <5>1
      <4> QED BY <4>1
    <3> QED BY <2>2, <3>1, <3>2
  <2> QED BY <2>1, <2>2 DEF LastIn
<1>4. SeenIn(M, sel, next, mode) => SeenIn(N, sel, next, mode)
  <2> SUFFICES ASSUME SeenIn(M, sel, next, mode)
               PROVE  SeenIn(N, sel, next, mode)
    OBVIOUS
  <2>1. WrittenIn(N) = {} => StandsIn(sel, next, mode)
    BY <1>2 DEF SeenIn
  <2>2. ASSUME NEW i \in WrittenIn(N), \A j \in WrittenIn(N) : j <= i
        PROVE  mode = N[i].mode
    <3>1. i + d \in WrittenIn(M) /\ N[i] = M[i + d] /\ i \in Nat
      BY <1>2
    <3>2. \A j \in WrittenIn(M) : j <= i + d
      <4>1. ASSUME NEW j \in WrittenIn(M)
            PROVE  j <= i + d
        <5>1. j \in Nat /\ j - d <= i
          BY <1>2, <2>2
        <5> QED BY <3>1, <5>1
      <4> QED BY <4>1
    <3> QED BY <3>1, <3>2 DEF SeenIn
  <2> QED BY <2>1, <2>2 DEF SeenIn
<1>5. RevokedIn(M, S, sel, next) => RevokedIn(N, S, sel, next)
  BY <1>1 DEF RevokedIn
<1>6. DropIn(M, sel, next) => DropIn(N, sel, next)
  BY <1>2 DEF DropIn
<1> QED BY <1>3, <1>4, <1>5, <1>6

\* The store settles the first of the writes.
LEMMA WriteSettles ==
  ASSUME NEW M \in Seq(Events), NEW S \in Seq([id : Ids, mode : Mode]), S # << >>,
         NEW sel, NEW next, NEW mode, NEW ok \in BOOLEAN, NEW e,
         e.type = "stored", e.id = Head(S).id, e.mode = Head(S).mode, e.ok = ok,
         OnceStored(M, S), LastIn(M, S, sel), SeenIn(M, sel, next, mode),
         RevokedIn(M, S, sel, next)
  PROVE  /\ LastIn(Append(M, e), Tail(S), sel)
         /\ SeenIn(Append(M, e), sel, next, IF ok THEN e.mode ELSE mode)
         /\ RevokedIn(Append(M, e), Tail(S), sel, next)
         /\ DropIn(M, sel, next) => DropIn(Append(M, e), sel, next)
         /\ ok /\ e.mode.perm # next.perm => DropIn(Append(M, e), sel, next)
<1> DEFINE N == Append(M, e)
           n == Len(M) + 1
<1>1. sel # None /\ ~sel.stored
  BY DEF LastIn
<1>2. /\ n \in Nat /\ N[n] = e
      /\ \A i \in DOMAIN M : i \in Nat /\ i < n /\ i \in DOMAIN N /\ N[i] = M[i]
      /\ \A i \in DOMAIN N : i \in DOMAIN M \/ i = n
      /\ n \in DOMAIN N
  OBVIOUS
<1>3. /\ \A i \in ResultsIn(M) : i \in Nat /\ i < n /\ i \in ResultsIn(N) /\ N[i] = M[i]
      /\ \A i \in ResultsIn(N) : i \in ResultsIn(M) \/ i = n
      /\ n \in ResultsIn(N)
  BY <1>2 DEF ResultsIn
<1>4. /\ \A i \in WrittenIn(M) : i \in Nat /\ i < n /\ i \in WrittenIn(N) /\ N[i] = M[i]
      /\ \A i \in WrittenIn(N) : i \in WrittenIn(M) \/ i = n
      /\ n \in WrittenIn(N) <=> ok
  BY <1>2, <1>3 DEF WrittenIn
<1>5. /\ Head(S) = S[1] /\ 1 \in DOMAIN S /\ Len(S) \in Nat /\ Len(S) \in DOMAIN S
      /\ Len(S) = 1 <=> Tail(S) = << >>
      /\ Tail(S) # << >> => Tail(S)[Len(Tail(S))] = S[Len(S)]
      /\ \A i \in DOMAIN Tail(S) : i + 1 \in DOMAIN S /\ Tail(S)[i] = S[i + 1]
  <2>1. \A i \in DOMAIN Tail(S) : i + 1 \in DOMAIN S /\ Tail(S)[i] = S[i + 1]
    BY TailCases
  <2>2. Head(S) = S[1] /\ 1 \in DOMAIN S /\ Len(S) \in Nat /\ Len(S) \in DOMAIN S
    OBVIOUS
  <2>3. Len(Tail(S)) = Len(S) - 1 /\ (Tail(S) = << >> <=> Len(Tail(S)) = 0)
    <3>1. Tail(S) \in Seq([id : Ids, mode : Mode]) /\ Len(Tail(S)) = Len(S) - 1
      OBVIOUS
    <3>2. \A T \in Seq([id : Ids, mode : Mode]) : T = << >> <=> Len(T) = 0
      OBVIOUS
    <3> QED BY <3>1, <3>2
  <2>4. Tail(S) # << >> => Len(Tail(S)) \in DOMAIN Tail(S)
    OBVIOUS
  <2>5. Tail(S) # << >> => Tail(S)[Len(Tail(S))] = S[Len(S)]
    BY <2>1, <2>2, <2>3, <2>4
  <2> QED BY <2>1, <2>2, <2>3, <2>5
<1> HIDE DEF N, n
<1>6. Matches(S[Len(S)], sel)
  BY <1>1 DEF LastIn
<1>7. e.id = sel.id => Tail(S) = << >> /\ Matches(e, sel)
  <2>1. e.id = sel.id => Len(S) = 1
    BY <1>5, <1>6 DEF OnceStored, Matches
  <2> QED BY <1>5, <1>6, <2>1 DEF Matches
<1>8. LastIn(N, Tail(S), sel)
  <2>1. CASE Tail(S) = << >>
    <3>1. Matches(N[n], sel)
      BY <1>2, <1>5, <1>6, <2>1 DEF Matches, N, n
    <3>2. \A j \in ResultsIn(N) : j <= n
      BY <1>2, <1>3
    <3> QED BY <1>1, <1>3, <2>1, <3>1, <3>2 DEF LastIn
  <2>2. CASE Tail(S) # << >>
    BY <1>1, <1>5, <1>6, <2>2 DEF LastIn
  <2> QED BY <2>1, <2>2
<1>9. SeenIn(N, sel, next, IF ok THEN e.mode ELSE mode)
  <2>1. CASE ok
    <3>1. ASSUME NEW i \in WrittenIn(N), \A j \in WrittenIn(N) : j <= i
          PROVE  N[i].mode = e.mode
      <4>1. n <= i /\ (i < n \/ i = n)
        BY <1>4, <2>1, <3>1
      <4>2. i = n
        BY <1>2, <1>4, <4>1
      <4> QED BY <1>2, <4>2 DEF N, n
    <3> QED BY <1>4, <2>1, <3>1 DEF SeenIn
  <2>2. CASE ~ok
    BY <1>4, <2>2 DEF SeenIn
  <2> QED BY <2>1, <2>2
<1>10. RevokedIn(N, Tail(S), sel, next)
  <2>1. \A i \in ResultsIn(N) : N[i].id # sel.id /\ N[i].mode.perm # next.perm => sel.revokes
    <3>1. ASSUME NEW i \in ResultsIn(M), N[i].id # sel.id, N[i].mode.perm # next.perm
          PROVE  sel.revokes
      BY <1>1, <1>3, <3>1 DEF RevokedIn
    <3>2. N[n].id # sel.id /\ N[n].mode.perm # next.perm => sel.revokes
      BY <1>1, <1>2, <1>5 DEF RevokedIn
    <3> QED BY <1>3, <3>1, <3>2
  <2>2. \A i \in DOMAIN Tail(S) : Tail(S)[i].id # sel.id /\ Tail(S)[i].mode.perm # next.perm => sel.revokes
    BY <1>1, <1>5 DEF RevokedIn
  <2> QED BY <1>1, <2>1, <2>2 DEF RevokedIn
<1>11. DropIn(M, sel, next) => DropIn(N, sel, next)
  BY <1>4 DEF DropIn
<1>12. ok /\ e.mode.perm # next.perm => DropIn(N, sel, next)
  <2> SUFFICES ASSUME ok, e.mode.perm # next.perm
               PROVE  DropIn(N, sel, next)
    OBVIOUS
  <2>1. n \in WrittenIn(N) /\ N[n] = e
    BY <1>2, <1>4 DEF N, n
  <2>2. CASE e.id = sel.id
    BY <1>1, <1>7, <2>1, <2>2 DEF DropIn, DropsFrom, Matches
  <2>3. CASE e.id # sel.id
    <3>1. sel.revokes
      BY <1>1, <1>5, <2>3 DEF RevokedIn
    <3> QED BY <1>1, <2>1, <3>1 DEF DropIn
  <2> QED BY <2>2, <2>3
<1> QED BY <1>8, <1>9, <1>10, <1>11, <1>12 DEF N

\* A client selects another configuration.
LEMMA SelectReplaces ==
  ASSUME NEW M, NEW S \in Seq([id : Ids, mode : Mode]), NEW sel, NEW next, NEW mode,
         OnceStored(M, S), LastIn(M, S, sel), SeenIn(M, sel, next, mode),
         RevokedIn(M, S, sel, next),
         NEW r, r # None, ~r.stored, r.revokes <=> (sel # None /\ DropsFrom(sel, next)),
         sel = None => r.fallback = None,
         sel # None /\ sel.stored =>
           r.fallback # None /\ r.fallback.mode = sel.mode /\ r.fallback.revokes = sel.revokes,
         sel # None /\ ~sel.stored => r.fallback = sel.fallback,
         NEW write \in [id : Ids, mode : Mode], Matches(write, r)
  PROVE  /\ LastIn(M, Append(S, write), r)
         /\ SeenIn(M, r, next, mode)
         /\ RevokedIn(M, Append(S, write), r, next)
         /\ DropIn(M, sel, next) => DropIn(M, r, next)
<1> DEFINE T == Append(S, write)
<1>1. /\ T # << >> /\ T[Len(T)] = write
      /\ \A i \in DOMAIN T : (i \in DOMAIN S /\ T[i] = S[i]) \/ T[i] = write
  <2>1. /\ Len(T) = Len(S) + 1 /\ T[Len(S) + 1] = write /\ T # << >>
    OBVIOUS
  <2> QED BY <2>1, AppendCases
<1> HIDE DEF T
<1>2. LastIn(M, T, r)
  BY <1>1 DEF LastIn
<1>3. SeenIn(M, r, next, mode)
  <2>1. WrittenIn(M) = {} => StandsIn(r, next, mode)
    BY DEF SeenIn, StandsIn
  <2> QED BY <2>1 DEF SeenIn
<1>4. ASSUME NEW w, w.mode.perm # next.perm,
             \/ \E i \in ResultsIn(M) : w = M[i]
             \/ \E i \in DOMAIN S : w = S[i]
      PROVE  r.revokes
  <2>1. sel # None /\ ~sel.stored
    BY <1>4 DEF LastIn
  <2>2. CASE w.id # sel.id
    BY <1>4, <2>1, <2>2 DEF RevokedIn, DropsFrom
  <2>3. CASE w.id = sel.id
    <3>1. CASE S # << >> /\ Matches(S[Len(S)], sel)
      <4>1. Len(S) \in DOMAIN S
        BY <3>1
      <4>2. w = S[Len(S)]
        BY <1>4, <2>3, <3>1, <4>1 DEF OnceStored, Matches
      <4> QED BY <1>4, <2>1, <3>1, <4>2 DEF Matches, DropsFrom
    <3>2. CASE S = << >> /\ \E i \in ResultsIn(M) : Matches(M[i], sel)
      <4>1. w.mode = sel.mode
        BY <1>4, <2>3, <3>2 DEF OnceStored, Matches
      <4> QED BY <1>4, <2>1, <4>1 DEF DropsFrom
    <3> QED BY <2>1, <3>1, <3>2 DEF LastIn
  <2> QED BY <2>2, <2>3
<1>5. RevokedIn(M, T, r, next)
  <2>1. \A i \in ResultsIn(M) : M[i].mode.perm # next.perm => r.revokes
    BY <1>4
  <2>2. \A i \in DOMAIN T : T[i].id # r.id /\ T[i].mode.perm # next.perm => r.revokes
    BY <1>1, <1>4 DEF Matches
  <2>3. r.fallback # None /\ DropsFrom(r.fallback, next) => r.revokes
    BY DEF RevokedIn, DropsFrom
  <2> QED BY <2>1, <2>2, <2>3 DEF RevokedIn
<1>6. DropIn(M, sel, next) => DropIn(M, r, next)
  <2> SUFFICES ASSUME DropIn(M, sel, next)
               PROVE  DropIn(M, r, next)
    OBVIOUS
  <2>1. sel # None /\ DropsFrom(sel, next)
    BY DEF DropIn, DropsFrom
  <2>2. r.revokes
    BY <2>1
  <2>3. CASE sel.stored
    <3>1. r.fallback # None /\ DropsFrom(r.fallback, next)
      BY <2>1, <2>3 DEF DropsFrom
    <3> QED BY <2>2, <3>1 DEF DropIn
  <2>4. CASE ~sel.stored
    <3>1. WrittenIn(M) # {} \/ (r.fallback # None /\ DropsFrom(r.fallback, next))
      BY <2>1, <2>4 DEF DropIn
    <3> QED BY <2>2, <3>1 DEF DropIn
  <2> QED BY <2>3, <2>4
<1> QED BY <1>2, <1>3, <1>5, <1>6 DEF T

\* The results in N are those of M but for the first, one place earlier.
Rest(M, N) ==
  /\ \A i \in ResultsIn(N) : i \in Nat /\ i + 1 \in ResultsIn(M) /\ N[i] = M[i + 1] /\ i + 1 # 1
  /\ \A i \in ResultsIn(M) : i # 1 => i \in Nat /\ i - 1 \in ResultsIn(N) /\ N[i - 1] = M[i]

\* The result of a selection that was superseded is decided.
LEMMA SupersededSettles ==
  ASSUME NEW M, NEW N, Rest(M, N), NEW S, NEW sel, NEW next, NEW mode,
         LastIn(M, S, sel), SeenIn(M, sel, next, mode), RevokedIn(M, S, sel, next),
         1 \in ResultsIn(M), sel # None, M[1].id # sel.id,
         NEW r, r # None, r.id = sel.id, r.mode = sel.mode, r.stored = sel.stored,
         r.revokes = sel.revokes,
         M[1].ok => r.fallback # None /\ r.fallback.mode = M[1].mode
                    /\ r.fallback.revokes = sel.revokes,
         ~M[1].ok => r.fallback = sel.fallback
  PROVE  /\ LastIn(N, S, r)
         /\ SeenIn(N, r, next, mode)
         /\ RevokedIn(N, S, r, next)
         /\ DropIn(M, sel, next) => DropIn(N, r, next)
<1>1. /\ \A i \in ResultsIn(N) : i \in Nat /\ i + 1 \in ResultsIn(M) /\ N[i] = M[i + 1] /\ i + 1 # 1
      /\ \A i \in ResultsIn(M) : i # 1 => i \in Nat /\ i - 1 \in ResultsIn(N) /\ N[i - 1] = M[i]
  BY DEF Rest
<1>2. /\ \A i \in WrittenIn(N) : i \in Nat /\ i + 1 \in WrittenIn(M) /\ N[i] = M[i + 1] /\ i + 1 # 1
      /\ \A i \in WrittenIn(M) : i # 1 => i \in Nat /\ i - 1 \in WrittenIn(N) /\ N[i - 1] = M[i]
      /\ 1 \in WrittenIn(M) <=> M[1].ok
  BY <1>1 DEF WrittenIn
<1>3. ~sel.stored
  BY DEF LastIn
<1>4. LastIn(N, S, r)
  <2>1. CASE S # << >> /\ Matches(S[Len(S)], sel)
    BY <1>3, <2>1 DEF LastIn, Matches
  <2>2. ASSUME S = << >>, NEW i \in ResultsIn(M), Matches(M[i], sel),
               \A j \in ResultsIn(M) : j <= i
        PROVE  \E k \in ResultsIn(N) : Matches(N[k], r) /\ \A j \in ResultsIn(N) : j <= k
    <3>1. i # 1 /\ i \in Nat /\ i - 1 \in ResultsIn(N) /\ N[i - 1] = M[i]
      BY <1>1, <2>2 DEF Matches
    <3>2. \A j \in ResultsIn(N) : j <= i - 1
      <4>1. ASSUME NEW j \in ResultsIn(N)
            PROVE  j <= i - 1
        <5>1. j \in Nat /\ j + 1 <= i
          BY <1>1, <2>2
        <5> QED BY <3>1, <5>1
      <4> QED BY <4>1
    <3> QED BY <2>2, <3>1, <3>2 DEF Matches
  <2> QED BY <1>3, <2>1, <2>2 DEF LastIn
<1>5. SeenIn(N, r, next, mode)
  <2>1. ASSUME WrittenIn(N) = {}
        PROVE  StandsIn(r, next, mode)
    <3>1. CASE M[1].ok
      <4>1. \A j \in WrittenIn(M) : j = 1
        BY <1>2, <2>1
      <4>2. mode = M[1].mode
        BY <1>2, <3>1, <4>1 DEF SeenIn
      <4> QED BY <1>3, <3>1, <4>2 DEF StandsIn
    <3>2. CASE ~M[1].ok
      <4>1. WrittenIn(M) = {}
        BY <1>2, <2>1, <3>2
      <4> QED BY <1>3, <3>2, <4>1 DEF SeenIn, StandsIn
    <3> QED BY <3>1, <3>2
  <2>2. ASSUME NEW i \in WrittenIn(N), \A j \in WrittenIn(N) : j <= i
        PROVE  mode = N[i].mode
    <3>1. i + 1 \in WrittenIn(M) /\ N[i] = M[i + 1] /\ i \in Nat
      BY <1>2
    <3>2. \A j \in WrittenIn(M) : j <= i + 1
      <4>1. ASSUME NEW j \in WrittenIn(M), j # 1
            PROVE  j <= i + 1
        <5>1. j \in Nat /\ j - 1 <= i
          BY <1>2, <2>2, <4>1
        <5> QED BY <3>1, <5>1
      <4>2. 1 <= i + 1
        BY <3>1
      <4> QED BY <4>1, <4>2
    <3> QED BY <3>1, <3>2 DEF SeenIn
  <2> QED BY <2>1, <2>2 DEF SeenIn
<1>6. RevokedIn(N, S, r, next)
  <2>1. \A i \in ResultsIn(N) : N[i].id # r.id /\ N[i].mode.perm # next.perm => r.revokes
    BY <1>1 DEF RevokedIn
  <2>2. r.fallback # None /\ DropsFrom(r.fallback, next) => r.revokes
    BY DEF RevokedIn, DropsFrom
  <2> QED BY <2>1, <2>2 DEF RevokedIn
<1>7. DropIn(M, sel, next) => DropIn(N, r, next)
  <2>1. CASE (\E i \in WrittenIn(M) : M[i].id = sel.id) /\ DropsFrom(sel, next)
    <3>1. \E i \in WrittenIn(N) : N[i].id = r.id
      BY <1>2, <2>1
    <3> QED BY <2>1, <3>1 DEF DropIn, DropsFrom
  <2>2. CASE sel.revokes /\ WrittenIn(M) # {}
    <3>1. WrittenIn(N) # {} \/ M[1].ok
      BY <1>2, <2>2
    <3> QED BY <1>3, <2>2, <3>1 DEF DropIn, DropsFrom
  <2>3. CASE sel.revokes /\ sel.fallback # None /\ DropsFrom(sel.fallback, next)
    BY <1>3, <2>3 DEF DropIn, DropsFrom
  <2> QED BY <1>3, <2>1, <2>2, <2>3 DEF DropIn
<1> QED BY <1>4, <1>5, <1>6, <1>7

\* The result of the selection itself is decided: it was the last one.
LEMMA CurrentSettles ==
  ASSUME NEW M \in Seq(Events), NEW S \in Seq([id : Ids, mode : Mode]), NEW sel, NEW next, NEW mode,
         OnceStored(M, S), LastIn(M, S, sel), SeenIn(M, sel, next, mode),
         1 \in ResultsIn(M), sel # None, M[1].id = sel.id
  PROVE  /\ ~sel.stored /\ S = << >> /\ ResultsIn(M) = {1}
         /\ M[1].ok => mode = sel.mode
         /\ ~M[1].ok => StandsIn(sel, next, mode)
         /\ DropIn(M, sel, next) =>
              /\ DropsFrom(sel, next)
              /\ ~M[1].ok => sel.fallback # None /\ DropsFrom(sel.fallback, next)
<1>1. ~sel.stored
  BY DEF LastIn
<1>2. S = << >>
  <2>1. ASSUME S # << >>, Matches(S[Len(S)], sel)
        PROVE  FALSE
    <3>1. Len(S) \in DOMAIN S
      BY <2>1
    <3> QED BY <2>1, <3>1 DEF OnceStored, Matches
  <2> QED BY <1>1, <2>1 DEF LastIn
<1>3. PICK i \in ResultsIn(M) : Matches(M[i], sel) /\ \A j \in ResultsIn(M) : j <= i
  BY <1>1, <1>2 DEF LastIn
<1>4. i = 1
  BY <1>3 DEF OnceStored, Matches
<1>5. \A j \in ResultsIn(M) : j = 1
  <2>1. ASSUME NEW j \in ResultsIn(M)
        PROVE  j = 1
    <3>1. j \in Nat /\ j >= 1 /\ j <= 1
      BY <1>3, <1>4 DEF ResultsIn
    <3> QED BY <3>1
  <2> QED BY <2>1
<1> QED BY <1>1, <1>2, <1>3, <1>4, <1>5 DEF SeenIn, WrittenIn, DropIn, DropsFrom, Matches

-----------------------------------------------------------------------------
\* The parts in a state of the session

Obliged     == departed /\ (remembered \/ TurnRunning)
PolicyDrops == /\ pending # None /\ pending.input.kind = "policy"
               /\ pending.input.mode.perm # durable.mode.perm

Parts ==
  /\ LastIn(mailbox, storing, selection)
  /\ SeenIn(mailbox, selection, NextMode, seen)
  /\ RevokedIn(mailbox, storing, selection, NextMode)
  /\ Obliged => PolicyDrops \/ DropIn(mailbox, selection, NextMode)

\* They are those of the invariant.
LEMMA PartsFit == Parts <=> SelectionIsLast /\ SeenStands /\ RevocationIsKept /\ DepartureIsKept
<1>1. LastIn(mailbox, storing, selection) <=> SelectionIsLast
  BY DEF LastIn, SelectionIsLast, ResultsIn, WriteResults, Matches, IsItsWrite
<1>2. SeenIn(mailbox, selection, NextMode, seen) <=> SeenStands
  <2>1. StandsIn(selection, NextMode, seen) <=> seen \in Standing
    <3>1. CASE selection # None /\ selection.stored
      BY <3>1 DEF StandsIn, Standing
    <3>2. CASE selection # None /\ ~selection.stored /\ selection.fallback # None
      BY <3>2 DEF StandsIn, Standing
    <3>3. CASE selection = None \/ (~selection.stored /\ selection.fallback = None)
      BY <3>3 DEF StandsIn, Standing
    <3> QED BY <3>1, <3>2, <3>3
  <2>2. WrittenIn(mailbox) = Written
    BY DEF WrittenIn, Written, ResultsIn, WriteResults
  <2> QED BY <2>1, <2>2 DEF SeenIn, SeenStands
<1>3. RevokedIn(mailbox, storing, selection, NextMode) <=> RevocationIsKept
  BY DEF RevokedIn, RevocationIsKept, ResultsIn, WriteResults, Departs, Drops, DropsFrom
<1>4. (Obliged => PolicyDrops \/ DropIn(mailbox, selection, NextMode)) <=> DepartureIsKept
  <2>1. DropIn(mailbox, selection, NextMode) <=>
          /\ selection # None
          /\ \/ /\ selection.stored \/ \E i \in Written : mailbox[i].id = selection.id
                /\ Drops(selection)
             \/ /\ ~selection.stored /\ selection.revokes
                /\ Written # {} \/ (selection.fallback # None /\ Drops(selection.fallback))
    BY DEF DropIn, WrittenIn, ResultsIn, Written, WriteResults, DropsFrom, Drops, Departs
  <2> QED BY <2>1 DEF Obliged, PolicyDrops, DepartureIsKept, WillDrop
<1> QED BY <1>1, <1>2, <1>3, <1>4 DEF Parts

\* What is left of a mailbox when its head is taken.
LEMMA HeadTaken ==
  ASSUME NEW S, NEW M \in Seq(S), M # << >>, NEW e, NEW sends \in {<< >>, <<e>>}
  PROVE  \A i \in 1..Len(M) : i # 1 =>
           i - 1 \in DOMAIN (Tail(M) \o sends) /\ (Tail(M) \o sends)[i - 1] = M[i]
<1>1. Tail(M) \in Seq(S \cup {e}) /\ Len(Tail(M)) = Len(M) - 1 /\ Len(M) \in Nat
  OBVIOUS
<1>2. sends \in Seq(S \cup {e})
  <2>1. << >> \in Seq(S \cup {e}) /\ <<e>> \in Seq(S \cup {e})
    OBVIOUS
  <2> QED BY <2>1
<1>3. ASSUME NEW T \in Seq(S \cup {e}), NEW U \in Seq(S \cup {e}), NEW k \in 1..Len(T)
      PROVE  k \in DOMAIN (T \o U) /\ (T \o U)[k] = T[k]
  OBVIOUS
<1>4. ASSUME NEW i \in 1..Len(M), i # 1
      PROVE  i - 1 \in 1..Len(Tail(M)) /\ Tail(M)[i - 1] = M[i]
  <2>1. i - 1 \in 1..Len(Tail(M))
    BY <1>1, <1>4
  <2>2. Tail(M)[i - 1] = M[(i - 1) + 1]
    BY <1>1, <2>1, TailCases
  <2>3. (i - 1) + 1 = i
    BY <1>4
  <2> QED BY <2>1, <2>2, <2>3
<1> QED BY <1>1, <1>2, <1>3, <1>4

\* A decision leaves the results but that of its own event.
LEMMA MailboxRests ==
  ASSUME mailbox \in Seq(Events), mailbox # << >>,
         NEW sends \in {<< >>, <<Drain>>}, Consume(sends)
  PROVE  Rest(mailbox, mailbox')
<1>1. \A i \in ResultsIn(mailbox') :
        i \in Nat /\ i + 1 \in ResultsIn(mailbox) /\ mailbox'[i] = mailbox[i + 1] /\ i + 1 # 1
  <2>1. \A i \in DOMAIN mailbox' : i \in Nat /\ i + 1 # 1
    <3>1. mailbox' \in Seq(Events)
      BY MailboxLeft
    <3> QED BY <3>1
  <2>2. \A i \in DOMAIN mailbox' :
          \/ i + 1 \in DOMAIN mailbox /\ mailbox'[i] = mailbox[i + 1]
          \/ mailbox'[i] = Drain
    BY MailboxLeft
  <2>3. Drain.type # "stored"
    BY DEF Drain
  <2> QED BY <2>1, <2>2, <2>3 DEF ResultsIn
<1>2. \A i \in ResultsIn(mailbox) : i # 1 =>
        i \in Nat /\ i - 1 \in ResultsIn(mailbox') /\ mailbox'[i - 1] = mailbox[i]
  <2>1. \A i \in ResultsIn(mailbox) : i \in Nat /\ i \in 1..Len(mailbox)
    BY DEF ResultsIn
  <2>2. \A i \in 1..Len(mailbox) : i # 1 =>
          i - 1 \in DOMAIN mailbox' /\ mailbox'[i - 1] = mailbox[i]
    BY HeadTaken DEF Consume
  <2> QED BY <2>1, <2>2 DEF ResultsIn
<1> QED BY <1>1, <1>2 DEF Rest

\* Events but for results of writes come and go without a change.
LEMMA MailboxShifts ==
  ASSUME mailbox \in Seq(Events),
         \/ mailbox' = mailbox
         \/ \E e : mailbox' = Append(mailbox, e) /\ e.type # "stored"
         \/ /\ mailbox # << >> /\ Event.type # "stored"
            /\ \E sends \in {<< >>, <<Drain>>} : Consume(sends)
  PROVE  \E d \in {0, 1} : Shifted(mailbox, mailbox', d)
<1>1. \A i \in ResultsIn(mailbox) : i \in Nat /\ i \in 1..Len(mailbox)
  BY DEF ResultsIn
<1>2. CASE mailbox' = mailbox
  <2>1. Shifted(mailbox, mailbox', 0)
    BY <1>1, <1>2 DEF Shifted
  <2> QED BY <2>1
<1>3. ASSUME NEW e, mailbox' = Append(mailbox, e), e.type # "stored"
      PROVE  Shifted(mailbox, mailbox', 0)
  <2>1. \A i \in ResultsIn(mailbox') : i \in ResultsIn(mailbox) /\ mailbox'[i] = mailbox[i]
    BY <1>3, MailboxMore DEF ResultsIn
  <2>2. \A i \in ResultsIn(mailbox) : i \in ResultsIn(mailbox')
    BY <1>3 DEF ResultsIn
  <2> QED BY <1>1, <2>1, <2>2 DEF Shifted
<1>4. ASSUME mailbox # << >>, Event.type # "stored", NEW sends \in {<< >>, <<Drain>>}, Consume(sends)
      PROVE  Shifted(mailbox, mailbox', 1)
  <2>1. Rest(mailbox, mailbox')
    BY <1>4, MailboxRests
  <2>2. 1 \notin ResultsIn(mailbox)
    BY <1>4 DEF ResultsIn, Event
  <2> QED BY <2>1, <2>2 DEF Rest, Shifted
<1> QED BY <1>2, <1>3, <1>4

\* A step that leaves selections alone keeps the parts.
LEMMA IdleKeeps ==
  ASSUME mailbox \in Seq(Events), Parts,
         \E d \in {0, 1} : Shifted(mailbox, mailbox', d),
         UNCHANGED <<storing, selection, seen>>, NextMode' = NextMode,
         Obliged' => Obliged /\ (PolicyDrops => PolicyDrops')
  PROVE  Parts'
<1>1. PICK d \in {0, 1} : Shifted(mailbox, mailbox', d)
  OBVIOUS
<1>2. /\ LastIn(mailbox', storing, selection)
      /\ SeenIn(mailbox', selection, NextMode, seen)
      /\ RevokedIn(mailbox', storing, selection, NextMode)
      /\ DropIn(mailbox, selection, NextMode) => DropIn(mailbox', selection, NextMode)
  BY <1>1, ShiftKeeps DEF Parts
<1> QED BY <1>2 DEF Parts

-----------------------------------------------------------------------------
\* Decisions that are not about selections

\* What a batch does to the configuration and to the approvals remembered.
LEMMA StageModes ==
  ASSUME NEW j \in JournalState, NEW input \in Inputs
  PROVE  /\ input.kind = "policy" => Stage(j, input).mode = input.mode
         /\ input.kind # "policy" => Stage(j, input).mode = j.mode
<1>1. j.mode \in Mode /\ j.phase \in Phases /\ j.left \in 0..Steps /\ j.pendingInputs \in Seq(Users)
  BY JournalFields
<1>2. /\ EndTurn(j).mode = j.mode
      /\ \A p : Run(j, p).mode = j.mode
      /\ Prepare(j).mode = j.mode
      /\ Abort(j).mode = j.mode
      /\ \A u : Queue(j, u).mode = j.mode /\ Abort(Queue(j, u)).mode = j.mode
      /\ \A r : Settle(j, r).mode = j.mode
      /\ Dequeue(j).mode = j.mode
      /\ Recover(j).mode = j.mode
  BY DEF EndTurn, Run, Prepare, Abort, Queue, Settle, Dequeue, Recover, JournalState
<1>3. input.kind # "policy" => Fold(j, input).mode = j.mode
  BY <1>2, InputFields DEF Fold
<1>4. input.kind = "policy" => Fold(j, input).mode = input.mode
  BY DEF Fold, JournalState
<1>5. Stage(j, input).mode = Fold(j, input).mode
  BY DEF Stage
<1> QED BY <1>3, <1>4, <1>5

\* A decision leaves selections to themselves.
Leaving ==
  /\ UNCHANGED <<storing, selection>> /\ NextMode' = NextMode
  /\ Obliged' => Obliged /\ (PolicyDrops => PolicyDrops')

\* ... when it leaves the writer as it is,
LEMMA IdleLeaves ==
  ASSUME UNCHANGED <<durable, pending, selection, storing, remembered>>, departed' => departed
  PROVE  Leaving
BY DEF Leaving, NextMode, Obliged, TurnRunning, PolicyDrops

\* ... when it stages a batch of any other kind,
LEMMA StagingLeaves ==
  ASSUME UNCHANGED <<durable, selection, storing, remembered>>, pending = None, pending' # None,
         pending'.input.kind # "policy", departed' = (departed /\ ~StartsTurn)
  PROVE  Leaving
<1>1. NextMode' = NextMode
  BY DEF NextMode
<1>2. Obliged' => Obliged
  BY DEF Obliged, TurnRunning, StartsTurn
<1>3. ~PolicyDrops
  BY DEF PolicyDrops
<1> QED BY <1>1, <1>2, <1>3 DEF Leaving

\* ... and when it releases one: approvals that a policy batch would drop are dropped.
LEMMA ReleaseLeaves ==
  ASSUME StorageInv, AdmissionInv, pending # None, Release, departed' => departed
  PROVE  Leaving
<1>1. /\ pending \in Pending /\ pending.input \in Inputs /\ durable \in JournalState
      /\ pending.next = Stage(durable, pending.input)
  BY PendingIsStaged
<1>2. Fit(Batch(pending)) /\ StateAt(pending.expected) = durable
  <2>1. Batch(pending) \in Underway
    BY DEF Underway
  <2>2. StateAt(pending.expected) = durable
    BY PendingIsStaged DEF StorageInv, DurableIsStored
  <2> QED BY <2>1, <2>2 DEF AdmissionInv, RequestsAreFit
<1>3. /\ Accepts(durable, pending.input) /\ Stageable(durable, pending.input)
  BY <1>2 DEF Fit, Admissible, Batch
<1>4. /\ pending.input.kind = "policy" =>
           pending.next.mode = pending.input.mode /\ pending.next.phase = durable.phase
           /\ ~Active(durable)
      /\ pending.input.kind # "policy" => pending.next.mode = durable.mode
  BY <1>1, <1>3, StageModes, OpeningStages DEF Stageable
<1>5. /\ durable' = pending.next /\ pending' = None /\ UNCHANGED <<storing, selection>>
      /\ remembered' = Remembers(durable, pending.next, pending.input)
  BY DEF Release
<1>6. NextMode' = NextMode
  BY <1>4, <1>5 DEF NextMode
<1>7. ASSUME Obliged'
      PROVE  Obliged /\ ~PolicyDrops
  <2>1. departed /\ (remembered' \/ Active(pending.next))
    BY <1>5, <1>7 DEF Obliged, TurnRunning
  <2>2. CASE Active(pending.next)
    <3>1. pending.input.kind # "policy"
      BY <1>4, <2>2 DEF Active
    <3> QED BY <2>1, <2>2, <3>1 DEF Obliged, TurnRunning, PolicyDrops
  <2>3. CASE remembered'
    <3>1. durable.mode.perm = pending.next.mode.perm
      BY <1>5, <2>3 DEF Remembers
    <3>2. ~PolicyDrops
      BY <1>4, <3>1 DEF PolicyDrops
    <3>3. remembered \/ pending.input.kind = "child"
      BY <1>5, <2>3 DEF Remembers
    <3>4. remembered \/ Active(durable)
      BY <1>3, <3>3 DEF Accepts
    <3> QED BY <2>1, <3>2, <3>4 DEF Obliged, TurnRunning
  <2> QED BY <2>1, <2>2, <2>3
<1> QED BY <1>5, <1>6, <1>7 DEF Leaving

\* The decisions about selections.
SelectsNow ==
  Select \/ Reselect \/ StoredCurrent \/ StoredSuperseded \/ DrainSelection

\* Every other one leaves them to themselves, unless it ends the writer.
LEMMA OthersLeave ==
  ASSUME StorageInv, AdmissionInv, WriterDecides, ~Dead, ~Dead', ~SelectsNow
  PROVE  Leaving /\ Event.type # "stored"
<1>1. Decide /\ departed' = (departed /\ ~StartsTurn)
  BY DEF WriterDecides
<1>2. \A end \in {"failed", "closed"} : \A also : ~Stop(end, also)
  BY DEF Stop, Dead
<1>3. ASSUME NEW s, s.input.kind # "policy", NEW rest, NEW again, status = "ready",
             Admit(s, rest, again)
      PROVE  Leaving
  <2>1. CASE StageAppend(s, rest) /\ UNCHANGED <<selection, remembered>>
    <3>1. pending = None
      BY <1>3 DEF StorageInv, TypeOK, WriterTypeOK
    <3>2. pending' # None /\ pending'.input.kind # "policy"
      <4>1. StorageInv'
        BY StorageStep DEF Next
      <4>2. status' = "committing"
        BY <2>1 DEF StageAppend
      <4>3. pending' # None
        BY <4>1, <4>2 DEF StorageInv, TypeOK, WriterTypeOK
      <4> QED BY <1>3, <2>1, <4>3 DEF StageAppend
    <3> QED BY <1>1, <2>1, <3>1, <3>2, StagingLeaves DEF StageAppend
  <2>2. CASE UNCHANGED <<durable, pending, selection, storing, remembered>>
    BY <1>1, <2>2, IdleLeaves
  <2> QED BY <1>2, <1>3, <2>1, <2>2 DEF Admit
<1>4. CASE SubmitBusy \/ SubmitQueued \/ DrainNothing \/ StorageIgnored \/ AppendIndeterminate
  <2>1. UNCHANGED <<durable, pending, selection, storing, remembered>>
    BY <1>4 DEF SubmitBusy, SubmitQueued, DrainNothing, StorageIgnored, AppendIndeterminate,
                effectVars
  <2>2. Event.type # "stored"
    BY <1>4 DEF SubmitBusy, SubmitQueued, DrainNothing, StorageIgnored, AppendIndeterminate,
                Deciding, Event
  <2> QED BY <1>1, <2>1, <2>2, IdleLeaves
<1>5. mailbox # << >> /\ Event = mailbox[1] /\ mailbox \in Seq(Events) /\ EventIsOwn(Event)
      /\ queue \in Seq(Submission)
  <2>1. mailbox # << >> /\ Event = mailbox[1]
    BY <1>1, DecideConsumes DEF StorageInv, TypeOK
  <2>2. mailbox \in Seq(Events) /\ queue \in Seq(Submission)
    BY DEF StorageInv, TypeOK, WriterTypeOK
  <2> QED BY <2>1, <2>2 DEF AdmissionInv, IdsAreOwn
<1>6. CASE SubmitAdmitted
  <2> DEFINE s == [id |-> Event.id, input |-> Event.input]
  <2>1. Event.type = "submit" /\ status = "ready" /\ Admit(s, << >>, << >>)
    BY <1>6 DEF SubmitAdmitted, MustQueue, Deciding, Event
  <2>2. s.input.kind # "policy"
    BY <1>5, <2>1 DEF EventIsOwn, SubmissionIsOwn
  <2> HIDE DEF s
  <2> QED BY <1>3, <2>1, <2>2
<1>7. CASE DrainDequeue
  <2> DEFINE u == Head(durable.pendingInputs)
             s == [id |-> DequeueId(u), input |-> DequeuedInput(u)]
  <2>1. Event.type # "stored" /\ status = "ready" /\ Admit(s, queue, << >>)
    BY <1>7 DEF DrainDequeue, Deciding, Event
  <2>2. s.input.kind # "policy"
    BY DEF DequeuedInput
  <2> HIDE DEF s
  <2> QED BY <1>3, <2>1, <2>2
<1>8. CASE DrainQueue
  <2>1. /\ Event.type # "stored" /\ status = "ready" /\ queue # << >>
        /\ Admit(Head(queue), Tail(queue), <<Drain>>)
    BY <1>8 DEF DrainQueue, Deciding, Event
  <2>2. Head(queue) = queue[1] /\ 1 \in DOMAIN queue
    BY <1>5, <2>1, TailCases
  <2>3. Head(queue).input.kind # "policy"
    BY <1>5, <2>2 DEF AdmissionInv, IdsAreOwn, SubmissionIsOwn
  <2> QED BY <1>3, <2>1, <2>3
<1>9. CASE LoadedAbsent
  <2>1. /\ UNCHANGED <<durable, selection, storing, remembered>> /\ Event.type # "stored"
        /\ pending # None /\ pending' = [pending EXCEPT !.attempts = @ + 1]
    BY <1>9 DEF LoadedAbsent, InFlight, Deciding, Event
  <2>2. pending \in Pending
    BY <2>1 DEF StorageInv, TypeOK, WriterTypeOK
  <2>3. pending'.input = pending.input /\ pending'.next = pending.next
    BY <2>1, <2>2 DEF Pending
  <2>4. pending' # None
    <3>1. StorageInv' /\ status' = "committing"
      BY <1>9, StorageStep DEF Next, LoadedAbsent
    <3> QED BY <3>1 DEF StorageInv, TypeOK, WriterTypeOK
  <2>5. departed' => departed
    BY <1>1
  <2>6. NextMode' = NextMode /\ (PolicyDrops => PolicyDrops')
    BY <2>1, <2>3, <2>4 DEF NextMode, PolicyDrops
  <2>7. Obliged' => Obliged
    BY <2>1, <2>3, <2>4, <2>5 DEF Obliged, TurnRunning
  <2> QED BY <2>1, <2>6, <2>7 DEF Leaving
<1>10. CASE AppendCommitted \/ LoadedCommitted
  <2>1. Release /\ pending # None /\ Event.type # "stored"
    BY <1>2, <1>10 DEF AppendCommitted, LoadedCommitted, InFlight, Deciding, Event
  <2> QED BY <1>1, <2>1, ReleaseLeaves
<1>11. ~SubmitToDead /\ ~SelectToDead /\ ~AppendRefused /\ ~LoadedUnusable /\ ~Close
  BY <1>2 DEF SubmitToDead, SelectToDead, AppendRefused, LoadedUnusable, Close
<1>12. /\ SubmitAdmitted => Event.type # "stored"
       /\ DrainDequeue \/ DrainQueue \/ LoadedAbsent => Event.type # "stored"
       /\ AppendCommitted \/ LoadedCommitted => Event.type # "stored"
  BY DEF SubmitAdmitted, DrainDequeue, DrainQueue, LoadedAbsent, AppendCommitted,
         LoadedCommitted, Deciding, Event
<1>13. \/ SubmitAdmitted \/ DrainDequeue \/ DrainQueue \/ LoadedAbsent
       \/ AppendCommitted \/ LoadedCommitted
       \/ SubmitBusy \/ SubmitQueued \/ DrainNothing \/ StorageIgnored \/ AppendIndeterminate
  BY <1>1, <1>11, Zenon DEF Decide, SelectsNow
<1>14. CASE SubmitBusy \/ SubmitQueued \/ DrainNothing \/ StorageIgnored \/ AppendIndeterminate
  <2>1. Event.type # "stored"
    BY <1>14 DEF SubmitBusy, SubmitQueued, DrainNothing, StorageIgnored, AppendIndeterminate,
                Deciding, Event
  <2> QED BY <1>4, <1>14, <2>1
<1> QED BY <1>6, <1>7, <1>8, <1>9, <1>10, <1>12, <1>13, <1>14, Zenon

-----------------------------------------------------------------------------
\* Decisions about selections

\* Every write of the configuration store is of a selection of its own.
LEMMA WritesAreOnce ==
  ASSUME StorageInv, AdmissionInv, PlacesAreOwn
  PROVE  OnceStored(mailbox, storing)
<1>1. SelectionIds \subseteq Tracked
  BY DEF SelectionIds, Tracked, Requests
<1>2. \A i \in ResultsIn(mailbox) : mailbox[i].id \in Tracked /\ Carries(mailbox[i]) /\ i \in DOMAIN mailbox
  <2>1. \A i \in DOMAIN mailbox : EventIsOwn(mailbox[i])
    BY DEF AdmissionInv, IdsAreOwn
  <2> QED BY <1>1, <2>1 DEF ResultsIn, Carries, EventIsOwn
<1>3. \A i \in DOMAIN storing : storing[i].id \in Tracked
  BY <1>1 DEF AdmissionInv, IdsAreOwn
<1>4. \A i, j \in ResultsIn(mailbox) : mailbox[i].id = mailbox[j].id => i = j
  BY <1>2 DEF PlacesAreOwn
<1>5. \A i, j \in DOMAIN storing : storing[i].id = storing[j].id => i = j
  BY <1>3 DEF PlacesAreOwn
<1>6. \A i \in ResultsIn(mailbox), j \in DOMAIN storing : mailbox[i].id # storing[j].id
  <2>1. ASSUME NEW i \in ResultsIn(mailbox), NEW j \in DOMAIN storing,
               mailbox[i].id = storing[j].id
        PROVE  FALSE
    <3>1. InMailbox(mailbox[i].id) /\ InStoring(mailbox[i].id) /\ mailbox[i].id \in Tracked
      BY <1>2, <2>1 DEF InMailbox, InStoring
    <3> QED BY <3>1, Elsewhere
  <2> QED BY <2>1
<1> QED BY <1>4, <1>5, <1>6 DEF OnceStored

\* What a policy batch carries, once it is staged.
LEMMA PolicyStages ==
  ASSUME StorageInv, StorageInv', NEW sel, sel.mode \in Mode,
         StageAppend([id |-> sel.id, input |-> PolicyInput(sel.mode)], queue)
  PROVE  /\ pending' # None /\ pending'.input.kind = "policy" /\ pending'.input.mode = sel.mode
         /\ NextMode' = sel.mode
         /\ ~Active(durable) => ~Active(pending'.next)
<1> DEFINE input == PolicyInput(sel.mode)
<1>1. input \in Inputs /\ input.kind = "policy" /\ input.mode = sel.mode
  BY DEF PolicyInput, Inputs
<1>2. durable \in JournalState
  BY DEF StorageInv, TypeOK, WriterTypeOK
<1>3. Stage(durable, input).phase = durable.phase
  BY <1>1, <1>2, OpeningStages
<1>4. pending'.input = input /\ pending'.next = Stage(durable, input)
  BY DEF StageAppend
<1> HIDE DEF input
<1>5. pending' # None
  BY DEF StageAppend, StorageInv, TypeOK, WriterTypeOK
<1> QED BY <1>1, <1>3, <1>4, <1>5 DEF NextMode, Active

\* A stored selection waits for the boundary, or is applied there.
LEMMA StoredSettles ==
  ASSUME StorageInv, StorageInv', NEW sel, NEW known, SettleStored(sel, known),
         sel # None, sel.stored, sel.mode \in Mode, departed' => departed, seen' = seen,
         storing = << >>, ResultsIn(mailbox') = {}, seen = sel.mode,
         sel.fallback # None /\ DropsFrom(sel.fallback, NextMode) => sel.revokes,
         Obliged => PolicyDrops \/ DropsFrom(sel, NextMode)
  PROVE  Parts'
<1>1. storing' = << >> /\ WrittenIn(mailbox') = {}
  BY SelectionKept DEF WrittenIn
<1>2. CASE ~AtBoundary(sel)
  <2>1. selection' = sel /\ UNCHANGED <<durable, pending, remembered>>
    BY <1>2 DEF SettleStored
  <2>2. NextMode' = NextMode /\ (PolicyDrops => PolicyDrops')
    BY <2>1 DEF NextMode, PolicyDrops
  <2>3. Obliged' => Obliged
    BY <2>1 DEF Obliged, TurnRunning
  <2>4. LastIn(mailbox', << >>, sel) /\ SeenIn(mailbox', sel, NextMode, seen)
        /\ RevokedIn(mailbox', << >>, sel, NextMode)
    BY <1>1 DEF LastIn, SeenIn, StandsIn, RevokedIn
  <2>5. DropsFrom(sel, NextMode) => DropIn(mailbox', sel, NextMode)
    BY DEF DropIn
  <2> QED BY <1>1, <2>1, <2>2, <2>3, <2>4, <2>5 DEF Parts
<1>3. CASE AtBoundary(sel)
  <2>1. pending = None /\ ~Active(durable) /\ NextMode = durable.mode /\ ~PolicyDrops
    BY <1>3 DEF AtBoundary, NextMode, PolicyDrops, StorageInv, TypeOK, WriterTypeOK
  <2>2. /\ selection' = None /\ durable' = durable
        /\ NextMode' = sel.mode
        /\ ~TurnRunning'
        /\ Obliged' => PolicyDrops'
    <3>1. CASE /\ sel.mode = durable.mode /\ selection' = None /\ UNCHANGED <<durable, pending>>
               /\ remembered' = (remembered /\ ~sel.revokes)
      <4>1. NextMode' = sel.mode /\ ~TurnRunning'
        BY <2>1, <3>1 DEF NextMode, TurnRunning
      <4>2. ~Obliged'
        BY <2>1, <3>1, <4>1 DEF Obliged, DropsFrom
      <4> QED BY <3>1, <4>1, <4>2
    <3>2. CASE /\ sel.mode # durable.mode /\ selection' = None
               /\ remembered' = (remembered /\ ~(sel.revokes /\ sel.mode.perm = durable.mode.perm))
               /\ StageAppend([id |-> sel.id, input |-> PolicyInput(sel.mode)], queue)
      <4>1. /\ pending' # None /\ pending'.input.kind = "policy" /\ pending'.input.mode = sel.mode
            /\ NextMode' = sel.mode /\ ~Active(pending'.next) /\ durable' = durable
        BY <2>1, <3>2, PolicyStages DEF StageAppend
      <4>2. ~TurnRunning'
        BY <2>1, <4>1 DEF TurnRunning
      <4>3. Obliged' => PolicyDrops'
        BY <2>1, <3>2, <4>1, <4>2 DEF Obliged, DropsFrom, PolicyDrops
      <4> QED BY <3>2, <4>1, <4>2, <4>3
    <3> QED BY <1>3, <3>1, <3>2 DEF SettleStored, ApplySelection
  <2>3. \A next : next = sel.mode => /\ LastIn(mailbox', << >>, None) /\ SeenIn(mailbox', None, next, seen)
                                     /\ RevokedIn(mailbox', << >>, None, next)
    BY <1>1 DEF LastIn, SeenIn, StandsIn, RevokedIn
  <2> QED BY <1>1, <2>2, <2>3 DEF Parts
<1> QED BY <1>2, <1>3

\* The configuration the next boundary applies is one.
LEMMA NextModeType ==
  ASSUME StorageInv
  PROVE  NextMode \in Mode
BY InputFields, JournalFields DEF NextMode, StorageInv, TypeOK, WriterTypeOK, Pending

\* Taking an event that reports no write moves the results up, ...
LEMMA OtherShifts ==
  ASSUME StorageInv, WriterDecides, Event.type # "stored"
  PROVE  \E d \in {0, 1} : Shifted(mailbox, mailbox', d)
<1>1. mailbox # << >> /\ mailbox \in Seq(Events) /\ \E sends \in {<< >>, <<Drain>>} : Consume(sends)
  BY DecideConsumes DEF WriterDecides, StorageInv, TypeOK, WriterTypeOK
<1> QED BY <1>1, MailboxShifts

\* ... and taking the only result leaves none.
LEMMA OnlyRests ==
  ASSUME StorageInv, WriterDecides, ResultsIn(mailbox) \subseteq {1}
  PROVE  ResultsIn(mailbox') = {}
<1>1. mailbox # << >> /\ mailbox \in Seq(Events) /\ \E sends \in {<< >>, <<Drain>>} : Consume(sends)
  BY DecideConsumes DEF WriterDecides, StorageInv, TypeOK, WriterTypeOK
<1>2. Rest(mailbox, mailbox')
  BY <1>1, MailboxRests
<1> QED BY <1>2 DEF Rest

\* A client's selection replaces the one pending.
LEMMA SelectKeeps ==
  ASSUME StorageInv, AdmissionInv, PlacesAreOwn, Parts, WriterDecides, Select
  PROVE  Parts'
<1>1. /\ Event \in Events /\ Event.type = "select"
      /\ storing \in Seq([id : Ids, mode : Mode]) /\ selection \in Selection \cup {None}
  BY DecideConsumes DEF WriterDecides, Select, Deciding, Event, StorageInv, TypeOK, WriterTypeOK
<1> DEFINE base == IF selection # None THEN selection.mode ELSE NextMode
           mode == PatchMode(base, Event.patch)
           write == [id |-> Event.id, mode |-> mode]
           r == Selected(Event.id, mode, FALSE)
<1>2. /\ selection' = r /\ storing' = Append(storing, write)
      /\ UNCHANGED <<durable, pending, remembered>> /\ seen' = seen
      /\ departed' => departed
  BY DEF Select, WriterDecides
<1>3. mode \in Mode /\ write \in [id : Ids, mode : Mode]
  <2>1. Event.patch \in Patches /\ Event.id \in Ids
    BY <1>1, EventFields
  <2>2. base \in Mode
    BY <1>1, NextModeType DEF Selection
  <2>3. mode \in Mode
    BY <2>1, <2>2, PatchAssumption DEF PatchMode, Mode
  <2> QED BY <2>1, <2>3
<1>4. r \in Selection /\ r # None
  <2>1. r \in Selection
    BY <1>1, <1>3, SelectedType, EventFields DEF StorageInv, TypeOK
  <2> QED BY <2>1, NoneAssumption
<1>5. selection # None /\ selection.stored => r.fallback # None
  <2>1. ASSUME selection # None, selection.stored
        PROVE  r.fallback \in Fallback
    BY <1>1, <2>1 DEF Selected, Selection, Fallback
  <2> QED BY <2>1, NoneAssumption
<1>6. /\ ~r.stored /\ r.id = Event.id /\ r.mode = mode
      /\ r.revokes <=> selection # None /\ DropsFrom(selection, NextMode)
      /\ selection = None => r.fallback = None
      /\ selection # None /\ selection.stored =>
           r.fallback.mode = selection.mode /\ r.fallback.revokes = selection.revokes
      /\ selection # None /\ ~selection.stored => r.fallback = selection.fallback
  BY <1>1 DEF Selected, Revokes, DropsFrom, Selection
<1>7. Matches(write, r)
  BY <1>6 DEF Matches
<1> HIDE DEF mode, write, r
<1>8. OnceStored(mailbox, storing)
  BY WritesAreOnce
<1>9. /\ LastIn(mailbox, Append(storing, write), r)
      /\ SeenIn(mailbox, r, NextMode, seen)
      /\ RevokedIn(mailbox, Append(storing, write), r, NextMode)
      /\ DropIn(mailbox, selection, NextMode) => DropIn(mailbox, r, NextMode)
  BY <1>1, <1>3, <1>4, <1>5, <1>6, <1>7, <1>8, SelectReplaces DEF Parts
<1>10. PICK d \in {0, 1} : Shifted(mailbox, mailbox', d)
  BY <1>1, OtherShifts
<1>11. /\ LastIn(mailbox', storing', r)
       /\ SeenIn(mailbox', r, NextMode, seen)
       /\ RevokedIn(mailbox', storing', r, NextMode)
       /\ DropIn(mailbox, selection, NextMode) => DropIn(mailbox', r, NextMode)
  BY <1>2, <1>9, <1>10, ShiftKeeps
<1>12. NextMode' = NextMode /\ (PolicyDrops => PolicyDrops') /\ (Obliged' => Obliged)
  BY <1>2 DEF NextMode, PolicyDrops, Obliged, TurnRunning
<1> QED BY <1>2, <1>11, <1>12 DEF Parts

\* The result of a selection that was superseded: it becomes what the pending one
\* falls back to.
LEMMA SupersededKeeps ==
  ASSUME StorageInv, AdmissionInv, PlacesAreOwn, Parts, WriterDecides, StoredSuperseded
  PROVE  Parts'
<1>1. /\ mailbox # << >> /\ mailbox \in Seq(Events) /\ Event = mailbox[1] /\ Event.type = "stored"
      /\ Event.ok \in BOOLEAN /\ 1 \in ResultsIn(mailbox) /\ selection \in Selection \cup {None}
      /\ Event.id \in Ids /\ Event.mode \in Mode
      /\ \E sends \in {<< >>, <<Drain>>} : Consume(sends)
  <2>1. /\ mailbox # << >> /\ mailbox \in Seq(Events) /\ Event = mailbox[1] /\ Event.type = "stored"
        /\ Event \in Events /\ selection \in Selection \cup {None}
        /\ \E sends \in {<< >>, <<Drain>>} : Consume(sends)
    BY DecideConsumes
       DEF WriterDecides, StoredSuperseded, Deciding, Event, StorageInv, TypeOK, WriterTypeOK
  <2>2. 1 \in DOMAIN mailbox
    BY <2>1
  <2> QED BY <2>1, <2>2, EventFields DEF ResultsIn
<1>2. selection # None /\ selection.id # Event.id /\ selection \in Selection
  <2>1. selection # None
    BY <1>1 DEF Parts, LastIn
  <2> QED BY <1>1, <2>1 DEF StoredSuperseded
<1>3. /\ storing' = storing /\ UNCHANGED <<durable, pending, remembered>> /\ seen' = seen
      /\ departed' => departed
      /\ selection' = IF Event.ok THEN [selection EXCEPT !.fallback =
                                          [id |-> Event.id, mode |-> Event.mode,
                                           revokes |-> selection.revokes]]
                                  ELSE selection
  BY <1>2 DEF StoredSuperseded, WriterDecides
<1>4. PICK r : r = selection'
  OBVIOUS
<1>5. /\ r # None /\ r.id = selection.id /\ r.mode = selection.mode /\ r.stored = selection.stored
      /\ r.revokes = selection.revokes
      /\ Event.ok => r.fallback # None /\ r.fallback.mode = Event.mode
                     /\ r.fallback.revokes = selection.revokes
      /\ ~Event.ok => r.fallback = selection.fallback
  <2>1. CASE Event.ok
    <3> DEFINE f == [id |-> Event.id, mode |-> Event.mode, revokes |-> selection.revokes]
    <3>1. f \in Fallback /\ f.mode = Event.mode /\ f.revokes = selection.revokes
      BY <1>1, <1>2 DEF Selection, Fallback
    <3>2. r = [selection EXCEPT !.fallback = f]
      BY <1>3, <1>4, <2>1
    <3> HIDE DEF f
    <3>3. r \in Selection /\ r.fallback = f
      BY <1>2, <3>1, <3>2 DEF Selection
    <3>4. /\ r.id = selection.id /\ r.mode = selection.mode /\ r.stored = selection.stored
          /\ r.revokes = selection.revokes
      BY <1>2, <3>2 DEF Selection
    <3> QED BY <2>1, <3>1, <3>3, <3>4, NoneAssumption
  <2>2. CASE ~Event.ok
    BY <1>2, <1>3, <1>4, <2>2
  <2> QED BY <2>1, <2>2
<1>6. Rest(mailbox, mailbox')
  BY <1>1, MailboxRests
<1>7. /\ LastIn(mailbox', storing, r)
      /\ SeenIn(mailbox', r, NextMode, seen)
      /\ RevokedIn(mailbox', storing, r, NextMode)
      /\ DropIn(mailbox, selection, NextMode) => DropIn(mailbox', r, NextMode)
  BY <1>1, <1>2, <1>5, <1>6, SupersededSettles DEF Parts
<1>8. NextMode' = NextMode /\ (PolicyDrops => PolicyDrops') /\ (Obliged' => Obliged)
  BY <1>3 DEF NextMode, PolicyDrops, Obliged, TurnRunning
<1> QED BY <1>3, <1>4, <1>7, <1>8 DEF Parts

\* The result of the selection that is current: it is stored and applied, or what it
\* falls back to is, or nothing was selected.
LEMMA CurrentKeeps ==
  ASSUME StorageInv, StorageInv', AdmissionInv, PlacesAreOwn, Parts, WriterDecides, StoredCurrent
  PROVE  Parts'
<1>1. /\ mailbox # << >> /\ mailbox \in Seq(Events) /\ Event = mailbox[1] /\ Event.type = "stored"
      /\ Event.ok \in BOOLEAN /\ 1 \in ResultsIn(mailbox)
      /\ selection # None /\ selection \in Selection /\ Event.id = selection.id
      /\ storing \in Seq([id : Ids, mode : Mode])
  <2>1. /\ mailbox # << >> /\ mailbox \in Seq(Events) /\ Event = mailbox[1] /\ Event.type = "stored"
        /\ Event \in Events /\ selection # None /\ selection \in Selection
        /\ Event.id = selection.id /\ storing \in Seq([id : Ids, mode : Mode])
    BY DecideConsumes
       DEF WriterDecides, StoredCurrent, Deciding, Event, StorageInv, TypeOK, WriterTypeOK
  <2>2. 1 \in DOMAIN mailbox
    BY <2>1
  <2> QED BY <2>1, <2>2, EventFields DEF ResultsIn
<1>2. OnceStored(mailbox, storing)
  BY WritesAreOnce
<1>3. /\ ~selection.stored /\ storing = << >> /\ ResultsIn(mailbox) = {1}
      /\ Event.ok => seen = selection.mode
      /\ ~Event.ok => StandsIn(selection, NextMode, seen)
      /\ DropIn(mailbox, selection, NextMode) =>
           /\ DropsFrom(selection, NextMode)
           /\ ~Event.ok => selection.fallback # None /\ DropsFrom(selection.fallback, NextMode)
  BY <1>1, <1>2, CurrentSettles DEF Parts
<1>4. ResultsIn(mailbox') = {} /\ seen' = seen /\ (departed' => departed)
  BY <1>3, OnlyRests DEF WriterDecides
<1>5. selection.fallback # None /\ DropsFrom(selection.fallback, NextMode) => selection.revokes
  BY <1>1 DEF Parts, RevokedIn
<1>6. CASE Event.ok /\ SettleStored([selection EXCEPT !.stored = TRUE], answers)
  <2>1. PICK sel : sel = [selection EXCEPT !.stored = TRUE]
    OBVIOUS
  <2>2. /\ sel.stored /\ sel.mode = selection.mode /\ sel.revokes = selection.revokes
        /\ sel.fallback = selection.fallback /\ sel \in Selection /\ sel.mode \in Mode
    BY <1>1, <2>1 DEF Selection
  <2>3. sel # None
    BY <2>2, NoneAssumption
  <2>4. Obliged => PolicyDrops \/ DropsFrom(sel, NextMode)
    BY <1>3, <2>2 DEF Parts, DropsFrom
  <2>5. SettleStored(sel, answers)
    BY <1>6, <2>1
  <2> QED BY <1>3, <1>4, <1>5, <1>6, <2>2, <2>3, <2>4, <2>5, StoredSettles
<1>7. ASSUME NEW known, ~Event.ok, selection.fallback # None,
             SettleStored([id |-> selection.fallback.id, mode |-> selection.fallback.mode,
                           stored |-> TRUE, revokes |-> selection.fallback.revokes,
                           fallback |-> None], known)
      PROVE  Parts'
  <2>1. PICK sel : sel = [id |-> selection.fallback.id, mode |-> selection.fallback.mode,
                          stored |-> TRUE, revokes |-> selection.fallback.revokes,
                          fallback |-> None]
    OBVIOUS
  <2>2. selection.fallback \in Fallback
    BY <1>1, <1>7 DEF Selection
  <2>3. /\ sel.stored /\ sel.mode = selection.fallback.mode
        /\ sel.revokes = selection.fallback.revokes
        /\ sel.fallback = None /\ sel \in Selection /\ sel.mode \in Mode
    BY <2>1, <2>2 DEF Selection, Fallback
  <2>4. sel # None
    BY <2>3, NoneAssumption
  <2>5. Obliged => PolicyDrops \/ DropsFrom(sel, NextMode)
    BY <1>3, <1>7, <2>3 DEF Parts, DropsFrom
  <2>6. seen = sel.mode
    BY <1>1, <1>3, <1>7, <2>3 DEF StandsIn
  <2>7. SettleStored(sel, known)
    BY <1>7, <2>1
  <2> QED BY <1>3, <1>4, <2>3, <2>4, <2>5, <2>6, <2>7, StoredSettles
<1>8. CASE /\ ~Event.ok /\ selection.fallback = None /\ selection' = None
           /\ UNCHANGED <<durable, pending, storing, remembered>>
  <2>1. NextMode' = NextMode /\ (PolicyDrops => PolicyDrops') /\ (Obliged' => Obliged)
    BY <1>4, <1>8 DEF NextMode, PolicyDrops, Obliged, TurnRunning
  <2>2. Obliged => PolicyDrops
    BY <1>3, <1>8 DEF Parts
  <2>3. seen \in {None, NextMode}
    BY <1>1, <1>3, <1>8 DEF StandsIn
  <2>4. /\ LastIn(mailbox', << >>, None) /\ SeenIn(mailbox', None, NextMode, seen)
        /\ RevokedIn(mailbox', << >>, None, NextMode)
    BY <1>4, <2>3 DEF LastIn, SeenIn, WrittenIn, StandsIn, RevokedIn
  <2> QED BY <1>3, <1>4, <1>8, <2>1, <2>2, <2>4 DEF Parts
<1> QED BY <1>6, <1>7, <1>8 DEF StoredCurrent

\* A drain applies a selection that has been stored.
LEMMA DrainKeeps ==
  ASSUME StorageInv, StorageInv', Parts, WriterDecides, DrainSelection
  PROVE  Parts'
<1>1. /\ Event.type = "drain" /\ AtBoundary(selection) /\ ApplySelection(selection, answers)
      /\ selection # None /\ selection \in Selection /\ mailbox \in Seq(Events)
      /\ seen' = seen /\ (departed' => departed)
  BY DEF DrainSelection, Deciding, Event, AtBoundary, WriterDecides, StorageInv, TypeOK, WriterTypeOK
<1>2. \E d \in {0, 1} : Shifted(mailbox, mailbox', d)
  BY <1>1, OtherShifts
<1>3. CASE ~selection.stored
  <2>1. UNCHANGED <<durable, pending, selection, storing, remembered>>
    BY <1>1, <1>3 DEF ApplySelection
  <2>2. Leaving
    BY <1>1, <2>1, IdleLeaves
  <2> QED BY <1>1, <1>2, <2>2, IdleKeeps DEF Leaving
<1>4. CASE selection.stored
  <2>1. storing = << >> /\ ResultsIn(mailbox) = {} /\ WrittenIn(mailbox) = {}
    BY <1>4 DEF Parts, LastIn, WrittenIn
  <2>2. seen = selection.mode
    BY <1>1, <1>4, <2>1 DEF Parts, SeenIn, StandsIn
  <2>3. ResultsIn(mailbox') = {}
    BY <2>1, OnlyRests
  <2>4. selection.mode \in Mode
    BY <1>1 DEF Selection
  <2>5. selection.fallback # None /\ DropsFrom(selection.fallback, NextMode) => selection.revokes
    BY <1>1 DEF Parts, RevokedIn
  <2>6. Obliged => PolicyDrops \/ DropsFrom(selection, NextMode)
    BY <1>4 DEF Parts, DropIn
  <2>7. SettleStored(selection, answers)
    BY <1>1 DEF SettleStored
  <2> QED BY <1>1, <1>4, <2>1, <2>2, <2>3, <2>4, <2>5, <2>6, <2>7, StoredSettles
<1> QED BY <1>3, <1>4

\* Every decision keeps the selections in order, unless it ends the writer.
LEMMA PartsDecide ==
  ASSUME StorageInv, AdmissionInv, PlacesAreOwn, ReselectsAtOnce, Parts, WriterDecides,
         ~Dead, ~Dead', phase \in {"creating", "open"}
  PROVE  Parts'
<1>1. StorageInv'
  BY StorageStep DEF Next
<1>2. mailbox # << >> /\ mailbox \in Seq(Events)
  BY DecideConsumes DEF WriterDecides, StorageInv, TypeOK, WriterTypeOK
<1>3. ~Reselect
  <2>1. ASSUME Reselect
        PROVE  FALSE
    <3>1. HasEvent({"reselect"})
      BY <1>2, <2>1, EventIsHad DEF Reselect, Deciding, Event
    <3> QED BY <3>1 DEF ReselectsAtOnce
  <2> QED BY <2>1
<1>4. CASE ~SelectsNow
  <2>1. Leaving /\ Event.type # "stored" /\ seen' = seen
    BY <1>4, OthersLeave DEF WriterDecides
  <2>2. \E d \in {0, 1} : Shifted(mailbox, mailbox', d)
    BY <2>1, OtherShifts
  <2> QED BY <1>2, <2>1, <2>2, IdleKeeps DEF Leaving
<1>5. CASE Select
  BY <1>5, SelectKeeps
<1>6. CASE StoredCurrent
  BY <1>1, <1>6, CurrentKeeps
<1>7. CASE StoredSuperseded
  BY <1>7, SupersededKeeps
<1>8. CASE DrainSelection
  BY <1>1, <1>8, DrainKeeps
<1> QED BY <1>3, <1>4, <1>5, <1>6, <1>7, <1>8 DEF SelectsNow

\* ... and the selections of a runtime in any phase.
LEMMA SelectionDecides ==
  ASSUME StorageInv, AdmissionInv, PlacesAreOwn, OpeningInv, SelectionInv, WriterDecides
  PROVE  SelectionInv'
<1>1. /\ phase' = phase /\ (departed' => departed) /\ ReselectsAtOnce /\ (Dead => Dead')
      /\ Decide
  BY DeadDecides DEF WriterDecides, OpeningInv
<1>2. ASSUME ~Dead', phase \in {"creating", "open"}
      PROVE  (SelectionIsLast /\ SeenStands /\ RevocationIsKept /\ DepartureIsKept)'
  <2>1. ~Dead /\ Parts
    BY <1>1, <1>2, PartsFit DEF SelectionInv
  <2>2. Parts'
    BY <1>1, <1>2, <2>1, PartsDecide
  <2>3. Parts' <=> (SelectionIsLast /\ SeenStands /\ RevocationIsKept /\ DepartureIsKept)'
    BY PartsFit, PTL
  <2> QED BY <2>2, <2>3
<1>3. phase = "down" \/ (phase \in RestorePhases /\ ~Dead') => ~departed'
  BY <1>1 DEF SelectionInv
<1>4. RestorePhases' = RestorePhases
  BY DEF RestorePhases
<1> QED BY <1>1, <1>2, <1>3, <1>4 DEF SelectionInv

-----------------------------------------------------------------------------
\* What happens around the writer

\* The store settles the next write.
LEMMA StoresKeep ==
  ASSUME StorageInv, AdmissionInv, PlacesAreOwn, Parts, PortStores
  PROVE  Parts'
<1>1. /\ mailbox \in Seq(Events) /\ storing \in Seq([id : Ids, mode : Mode]) /\ storing # << >>
      /\ storing' = Tail(storing)
      /\ UNCHANGED <<durable, pending, selection, remembered>>
  BY DEF PortStores, unposted, StorageInv, TypeOK, WriterTypeOK
<1>2. OnceStored(mailbox, storing)
  BY WritesAreOnce
<1>3. NextMode' = NextMode /\ (PolicyDrops <=> PolicyDrops') /\ (TurnRunning' <=> TurnRunning)
  BY <1>1 DEF NextMode, PolicyDrops, TurnRunning
<1>4. PICK put : put = Head(storing)
  OBVIOUS
<1>5. ASSUME NEW ok \in BOOLEAN,
             mailbox' = Append(mailbox, [type |-> "stored", id |-> put.id, mode |-> put.mode, ok |-> ok]),
             seen' = IF ok THEN put.mode ELSE seen,
             departed' => departed \/ (ok /\ put.mode.perm # durable.mode.perm)
      PROVE  Parts'
  <2>1. PICK e : e = [type |-> "stored", id |-> put.id, mode |-> put.mode, ok |-> ok]
    OBVIOUS
  <2>2. /\ LastIn(Append(mailbox, e), Tail(storing), selection)
        /\ SeenIn(Append(mailbox, e), selection, NextMode, IF ok THEN e.mode ELSE seen)
        /\ RevokedIn(Append(mailbox, e), Tail(storing), selection, NextMode)
        /\ DropIn(mailbox, selection, NextMode) => DropIn(Append(mailbox, e), selection, NextMode)
        /\ ok /\ e.mode.perm # NextMode.perm => DropIn(Append(mailbox, e), selection, NextMode)
    <3>1. e.type = "stored" /\ e.id = Head(storing).id /\ e.mode = Head(storing).mode /\ e.ok = ok
      BY <1>4, <2>1
    <3> QED BY <1>1, <1>2, <3>1, WriteSettles DEF Parts
  <2>3. e.mode = put.mode /\ mailbox' = Append(mailbox, e)
    BY <1>5, <2>1
  <2>4. Obliged' => PolicyDrops' \/ DropIn(mailbox', selection, NextMode)
    <3>1. Obliged' => Obliged \/ (ok /\ put.mode.perm # durable.mode.perm)
      BY <1>1, <1>3, <1>5 DEF Obliged
    <3>2. ok /\ put.mode.perm # durable.mode.perm =>
            PolicyDrops \/ DropIn(mailbox', selection, NextMode)
      BY <2>2, <2>3 DEF NextMode, PolicyDrops
    <3> QED BY <1>3, <2>2, <2>3, <3>1, <3>2 DEF Parts
  <2>5. /\ LastIn(mailbox', storing', selection)
        /\ SeenIn(mailbox', selection, NextMode, seen')
        /\ RevokedIn(mailbox', storing', selection, NextMode)
    <3>1. seen' = IF ok THEN e.mode ELSE seen
      BY <1>5, <2>3
    <3> QED BY <1>1, <2>2, <2>3, <3>1
  <2> QED BY <1>1, <1>3, <2>4, <2>5 DEF Parts
<1>6. CASE /\ seen' = put.mode /\ departed' = (departed \/ put.mode.perm # durable.mode.perm)
           /\ mailbox' = Append(mailbox, [type |-> "stored", id |-> put.id, mode |-> put.mode,
                                         ok |-> TRUE])
  <2>1. TRUE \in BOOLEAN /\ (departed' => departed \/ put.mode.perm # durable.mode.perm)
    BY <1>6
  <2> QED BY <1>5, <1>6, <2>1
<1>7. CASE /\ seen' = seen /\ departed' = departed
           /\ mailbox' = Append(mailbox, [type |-> "stored", id |-> put.id, mode |-> put.mode,
                                         ok |-> FALSE])
  <2>1. FALSE \in BOOLEAN
    OBVIOUS
  <2> QED BY <1>5, <1>7, <2>1
<1> QED BY <1>4, <1>6, <1>7 DEF PortStores, Post, historyVars

\* Nothing else that happens while a session is open is about selections.
LEMMA OutsideKeeps ==
  ASSUME StorageInv, Parts,
         UNCHANGED <<durable, pending, selection, storing, remembered, seen, departed>>,
         \/ mailbox' = mailbox
         \/ \E e : mailbox' = Append(mailbox, e) /\ e.type # "stored"
  PROVE  Parts'
<1>1. mailbox \in Seq(Events)
  BY DEF StorageInv, TypeOK, WriterTypeOK
<1>2. \E d \in {0, 1} : Shifted(mailbox, mailbox', d)
  BY <1>1, MailboxShifts
<1>3. Leaving
  BY IdleLeaves
<1> QED BY <1>1, <1>2, <1>3, IdleKeeps DEF Leaving

\* A session that has just been opened has stored no selection, and is in the
\* configuration that was.
LEMMA OpenedKeeps ==
  ASSUME storing = << >>, selection = None, ~HasEvent({"stored"}), pending = None,
         seen \in {None, durable.mode}, ~departed
  PROVE  Parts
<1>1. ResultsIn(mailbox) = {} /\ WrittenIn(mailbox) = {}
  BY DEF HasEvent, ResultsIn, WrittenIn
<1>2. NextMode = durable.mode
  BY DEF NextMode
<1> QED BY <1>1, <1>2 DEF Parts, LastIn, SeenIn, StandsIn, RevokedIn, Obliged

\* The parts of a session that is open, and what is known of one that is not.
InOrder ==
  /\ ~Dead /\ phase \in {"creating", "open"} => Parts
  /\ phase = "down" \/ (phase \in RestorePhases /\ ~Dead) => ~departed

\* They are the invariant.
LEMMA OrderFits == InOrder <=> SelectionInv
BY PartsFit DEF SelectionInv, InOrder

\* A step around the writer that leaves selections alone.
LEMMA OutsideSelects ==
  ASSUME StorageInv, SelectionInv,
         UNCHANGED <<status, phase, durable, pending, selection, storing, remembered, seen, departed>>,
         \/ mailbox' = mailbox
         \/ \E e : mailbox' = Append(mailbox, e) /\ e.type # "stored"
  PROVE  SelectionInv'
<1>1. ~Dead /\ phase \in {"creating", "open"} => Parts'
  BY OutsideKeeps, OrderFits DEF InOrder
<1>2. (Dead' <=> Dead) /\ RestorePhases' = RestorePhases
  BY DEF Dead, RestorePhases
<1>3. InOrder'
  BY <1>1, <1>2, OrderFits DEF InOrder
<1> QED BY <1>3, OrderFits, PTL

\* The session is opened, or opens further.
LEMMA OpeningSelects ==
  ASSUME StorageInv, OpeningInv, SelectionInv, Opening, ~Vanish
  PROVE  SelectionInv'
<1>1. RestorePhases' = RestorePhases
  BY DEF RestorePhases
<1>2. CASE RestoreJournal \/ RestoreConfig
  <2>1. phase' \in RestorePhases /\ departed' = departed /\ (phase = "down" \/ phase \in RestorePhases)
        /\ (RestoreConfig => Dead' = Dead)
    BY <1>2 DEF RestoreJournal, RestoreConfig, RestorePhases, historyVars, unposted, Dead
  <2>2. ~Dead' => ~departed'
    BY <1>2, <2>1, OrderFits DEF InOrder, RestoreJournal, RestoreConfig
  <2>3. phase' \notin {"creating", "open", "down"}
    BY <2>1 DEF RestorePhases
  <2>4. InOrder'
    BY <2>2, <2>3 DEF InOrder
  <2> QED BY <2>4, OrderFits, PTL
<1>3. CASE CreateDone \/ RestoreRecovered \/ RestoreReselects \/ RestoreDone
  <2>1. /\ UNCHANGED <<status, durable, pending, selection, storing, remembered, seen, departed>>
        /\ \/ mailbox' = mailbox
           \/ \E e : mailbox' = Append(mailbox, e) /\ e.type # "stored"
    BY <1>3 DEF CreateDone, RestoreRecovered, RestoreReselects, RestoreDone, Opens, Post, historyVars
  <2>2. Parts => Parts'
    BY <2>1, OutsideKeeps
  <2>3. Dead' <=> Dead
    BY <2>1 DEF Dead
  <2>4. phase' # "creating" /\ phase' # "down"
    BY <1>3 DEF CreateDone, RestoreRecovered, RestoreReselects, RestoreDone, Opens
  <2>5. ASSUME ~Dead, phase' = "open"
        PROVE  Parts
    <3>1. CASE phase = "creating"
      BY <2>5, <3>1, OrderFits DEF InOrder
    <3>2. CASE phase # "creating"
      <4>1. phase \in RestorePhases /\ RestoresOnly /\ answers \in [Callers -> Answers]
        BY <1>3, <3>2 DEF CreateDone, RestoreRecovered, RestoreReselects, RestoreDone, RestorePhases,
                          OpeningInv, StorageInv, TypeOK, WriterTypeOK
      <4>2. /\ storing = << >> /\ selection = None /\ ~HasEvent({"select", "stored", "close"})
            /\ ~departed
        BY <2>5, <4>1, OrderFits DEF InOrder, RestoresOnly
      <4>3. ~HasEvent({"stored"})
        BY <4>2 DEF HasEvent
      <4>4. pending = None /\ seen \in {None, durable.mode}
        <5>1. CASE phase = "recovered"
          <6>1. ~Unapplied
            BY <1>3, <2>5, <5>1 DEF CreateDone, RestoreRecovered, RestoreReselects, RestoreDone, Opens
          <6> QED BY <2>5, <4>1, <5>1, <6>1 DEF RestoresOnly, Unapplied
        <5>2. CASE phase # "recovered"
          <6>1. phase = "reselecting" /\ answers[<<"reselect">>] # "none"
            BY <1>3, <2>5, <3>2, <5>2
               DEF CreateDone, RestoreRecovered, RestoreReselects, RestoreDone, Opens, Answered
          <6> QED BY <2>5, <4>1, <6>1 DEF RestoresOnly, ReselectUnderway
        <5> QED BY <5>1, <5>2
      <4> QED BY <4>2, <4>3, <4>4, OpenedKeeps
    <3> QED BY <3>1, <3>2
  <2>6. ASSUME ~Dead, phase' \in RestorePhases
        PROVE  ~departed'
    <3>1. phase \in RestorePhases
      BY <1>3, <2>6 DEF CreateDone, RestoreRecovered, RestoreReselects, RestoreDone, Opens,
                        RestorePhases
    <3> QED BY <2>1, <2>6, <3>1, OrderFits DEF InOrder
  <2>7. InOrder'
    BY <1>1, <2>2, <2>3, <2>4, <2>5, <2>6 DEF InOrder
  <2> QED BY <2>7, OrderFits, PTL
<1> QED BY <1>2, <1>3 DEF Opening, CreateFailed, RestoreFailed

\* Every step keeps the selections in order.
LEMMA SelectionStep ==
  StorageInv /\ AdmissionInv /\ ReceiptInv /\ OpeningInv /\ SelectionInv /\ [Next]_vars => SelectionInv'
<1> SUFFICES ASSUME StorageInv, AdmissionInv, ReceiptInv, OpeningInv, SelectionInv, [Next]_vars
             PROVE  SelectionInv'
  OBVIOUS
<1>1. PlacesAreOwn
  BY DEF ReceiptInv
<1>2. CASE WriterDecides
  BY <1>1, <1>2, SelectionDecides
<1>3. CASE Client
  <2>1. UNCHANGED <<status, phase, durable, pending, selection, storing, remembered, seen, departed>>
    BY <1>3 DEF Client, SendUser, SendSystem, SendAbort, SendSelect, SendClose, SendRequest,
                unposted, sessionVars, historyVars
  <2>2. \E e : mailbox' = Append(mailbox, e) /\ e.type # "stored"
    <3>1. CASE SendClose
      BY <3>1 DEF SendClose, Post
    <3>2. CASE ~SendClose
      <4>1. \/ \E u \in Users : mailbox' = Append(mailbox, Submit(UserId(u), UserInput(u)))
            \/ \E s \in Systems : mailbox' = Append(mailbox, Submit(<<"system", s>>, SystemInput))
            \/ \E a \in Aborts : mailbox' = Append(mailbox, Submit(<<"abort", a>>, AbortInput))
            \/ \E c \in Selects, patch \in Patches :
                 mailbox' = Append(mailbox, [type |-> "select", id |-> <<"select", c>>,
                                             patch |-> patch])
        BY <1>3, <3>2 DEF Client, SendUser, SendSystem, SendAbort, SendSelect, SendRequest, Post
      <4>2. \A id, input : Submit(id, input).type # "stored"
        BY DEF Submit
      <4>3. \A id, patch : [type |-> "select", id |-> id, patch |-> patch].type # "stored"
        OBVIOUS
      <4> QED BY <4>1, <4>2, <4>3
    <3> QED BY <3>1, <3>2
  <2> QED BY <2>1, <2>2, OutsideSelects
<1>4. CASE Host
  <2>1. PICK op \in running, r \in HostResults : ChildSettles(op, r)
    BY <1>4 DEF Host
  <2> DEFINE e == Submit(ChildId(op.turn, op.generation), ChildInput(op.turn, op.generation, r))
  <2>2. /\ mailbox' = Append(mailbox, e) /\ e.type # "stored"
        /\ UNCHANGED <<status, phase, durable, pending, selection, storing, remembered, seen, departed>>
    BY <2>1 DEF ChildSettles, Post, Submit, sessionVars, historyVars
  <2> HIDE DEF e
  <2> QED BY <2>2, OutsideSelects
<1>5. CASE PortStores
  <2>1. UNCHANGED <<status, phase>> /\ storing # << >> /\ RestorePhases' = RestorePhases
    BY <1>5 DEF PortStores, unposted, RestorePhases
  <2>2. Parts => Parts'
    BY <1>1, <1>5, StoresKeep
  <2>3. ~(phase = "down" \/ (phase \in RestorePhases /\ ~Dead))
    BY <2>1 DEF StorageInv, GoneIsQuiet, OpeningInv, RestoresOnly
  <2>4. InOrder'
    BY <2>1, <2>2, <2>3, OrderFits DEF Dead, InOrder
  <2> QED BY <2>4, OrderFits, PTL
<1>6. CASE Port /\ ~PortStores
  <2>1. /\ UNCHANGED <<status, phase, durable, pending, selection, storing, remembered, seen, departed>>
        /\ \E e : mailbox' = Append(mailbox, e) /\ e.type # "stored"
    BY <1>6 DEF Port, PortAppends, PortLosesAck, PortRejects, PortMisreports, PortCancels, PortLoads,
                Appended, Post, unposted, historyVars
  <2> QED BY <2>1, OutsideSelects
<1>7. CASE Vanish
  <2>1. phase' = "down" /\ status' = "closed" /\ ~departed'
    BY <1>7 DEF Vanish
  <2>2. InOrder'
    BY <2>1 DEF InOrder
  <2> QED BY <2>2, OrderFits, PTL
<1>8. CASE World /\ ~Vanish
  BY <1>8, OutsideSelects
     DEF World, Crash, ForeignAppends, OrphanLands, NotWriter, writerVars, effectVars, historyVars
<1>9. CASE Opening /\ ~Vanish
  BY <1>9, OpeningSelects
<1>10. CASE UNCHANGED vars
  BY <1>10, OutsideSelects DEF vars, writerVars, effectVars, sessionVars, historyVars
<1> QED BY <1>2, <1>3, <1>4, <1>5, <1>6, <1>7, <1>8, <1>9, <1>10 DEF Next

\* A session that is created has no selection.
LEMMA SelectionInit == Init => SelectionInv
<1> SUFFICES ASSUME Init
             PROVE  SelectionInv
  OBVIOUS
<1>1. ~HasEvent({"stored"})
  BY DEF Init, HasEvent, Submit
<1>2. storing = << >> /\ selection = None /\ pending = None /\ seen = None /\ ~departed
  BY DEF Init
<1> QED BY <1>1, <1>2, OpenedKeeps, OrderFits DEF InOrder

\* The selections of a session are in order, whatever is written, superseded, refused,
\* crashed or restored.
THEOREM SelectionSafe ==
  Spec => [](StorageInv /\ AdmissionInv /\ ReceiptInv /\ OpeningInv /\ SelectionInv)
<1>1. Init => StorageInv /\ AdmissionInv /\ ReceiptInv /\ OpeningInv /\ SelectionInv
  BY StorageInit, AdmissionInit, ReceiptInit, OpeningInit, SelectionInit
<1>2. StorageInv /\ AdmissionInv /\ ReceiptInv /\ OpeningInv /\ SelectionInv /\ [Next]_vars
        => StorageInv' /\ AdmissionInv' /\ ReceiptInv' /\ OpeningInv' /\ SelectionInv'
  BY StorageStep, FitStep, IdsStep, ReceiptStep, OpeningStep, SelectionStep
     DEF AdmissionInv, StorageInv
<1> QED BY <1>1, <1>2, PTL DEF Spec

-----------------------------------------------------------------------------
\* The start of a turn

\* The append in flight was staged in the state the writer is in.
StagedNow ==
  pending # None =>
    /\ pending.input \in Inputs /\ durable \in JournalState
    /\ pending.next = Stage(durable, pending.input)

\* It always was.
LEMMA PendingStages == StorageInv => StagedNow
BY PendingIsStaged DEF StagedNow

\* What never starts a turn: the creation of a session, its recovery, a configuration.
LEMMA StartsNothing ==
  ASSUME NEW j \in JournalState, NEW input \in Inputs, ~Active(j),
         input.kind \in {"created", "recovery", "policy"}
  PROVE  ~Active(Stage(j, input))
<1>1. CASE input.kind = "created"
  <2>1. Fold(j, input) = j
    BY <1>1 DEF Fold
  <2> QED BY <2>1 DEF Stage, Active, JournalState
<1> QED BY <1>1, OpeningStages DEF Active

\* Only a decision of a working writer starts a turn, and while it restores none does.
LEMMA StartsAre ==
  ASSUME StorageInv, OpeningInv, [Next]_vars, StartsTurn
  PROVE  /\ WriterDecides /\ ~Dead /\ ~Dead' /\ phase \in {"creating", "open"}
         /\ durable' = durable
         /\ pending'.input.kind \notin {"created", "recovery", "policy"}
         /\ SubmitAdmitted \/ DrainDequeue \/ DrainQueue
<1>1. pending = None /\ pending' # None /\ ~Active(durable) /\ Active(pending'.next)
  BY DEF StartsTurn
<1>2. WriterDecides
  <2>1. Client \/ Host \/ Port \/ World \/ Opening \/ UNCHANGED vars => pending' \in {pending, None}
    BY DEF Client, SendUser, SendSystem, SendAbort, SendSelect, SendClose, SendRequest, Host,
           ChildSettles, Port, PortAppends, PortLosesAck, PortRejects, PortMisreports, PortCancels,
           PortLoads, PortStores, Appended, unposted, World, ForeignAppends, OrphanLands, NotWriter,
           Crash, Vanish, Opening, CreateDone, CreateFailed, RestoreJournal, RestoreConfig,
           RestoreRecovered, RestoreFailed, RestoreReselects, RestoreDone, Opens, vars, writerVars
  <2> QED BY <1>1, <2>1 DEF Next
<1>3. Decide /\ StorageInv'
  BY <1>2, StorageStep DEF WriterDecides
<1>4. ~Dead'
  BY <1>1, <1>3 DEF StorageInv, TypeOK, WriterTypeOK, Dead
<1>5. ASSUME NEW end, NEW also, Stop(end, also)
      PROVE  FALSE
  BY <1>1, <1>5 DEF Stop
<1>6. SubmitAdmitted \/ DrainDequeue \/ DrainQueue \/ SelectsNow
  BY <1>1, <1>3, <1>5
     DEF Decide, SubmitToDead, SubmitBusy, SubmitQueued, SelectToDead, DrainNothing, AppendCommitted,
         AppendIndeterminate, AppendRefused, LoadedCommitted, LoadedAbsent, LoadedUnusable,
         StorageIgnored, Close, Release, InFlight, SelectsNow
<1>7. ~Dead
  BY <1>6 DEF SubmitAdmitted, DrainDequeue, DrainQueue, SelectsNow, Select, Reselect, StoredCurrent,
              StoredSuperseded, DrainSelection, AtBoundary, Dead
<1>8. durable' = durable
  <2>1. ASSUME NEW s, NEW rest, NEW again, Admit(s, rest, again)
        PROVE  durable' = durable
    BY <1>5, <2>1 DEF Admit, StageAppend
  <2>2. ASSUME NEW sel, NEW known, ApplySelection(sel, known) \/ SettleStored(sel, known)
        PROVE  durable' = durable
    BY <2>2 DEF ApplySelection, SettleStored, StageAppend
  <2> QED BY <1>6, <2>1, <2>2 DEF SubmitAdmitted, DrainDequeue, DrainQueue, SelectsNow, Select,
                                  Reselect, StoredCurrent, StoredSuperseded, DrainSelection
<1>9. pending'.input.kind \notin {"created", "recovery", "policy"}
  <2>1. StagedNow'
    BY <1>3, PendingStages, PTL
  <2>2. pending'.input \in Inputs /\ durable \in JournalState /\ pending'.next = Stage(durable, pending'.input)
    BY <1>1, <1>8, <2>1 DEF StagedNow
  <2> QED BY <1>1, <2>2, StartsNothing
<1>10. ~SelectsNow
  <2>1. ASSUME NEW sel, NEW known, ApplySelection(sel, known) \/ SettleStored(sel, known)
        PROVE  FALSE
    <3>1. pending' = pending \/ pending'.input = PolicyInput(sel.mode)
      BY <2>1 DEF ApplySelection, SettleStored, StageAppend
    <3> QED BY <1>1, <1>9, <3>1 DEF PolicyInput
  <2> QED BY <1>1, <2>1 DEF SelectsNow, Select, Reselect, StoredCurrent, StoredSuperseded, DrainSelection
<1>11. phase \in {"creating", "open"}
  <2>1. phase # "down"
    BY <1>7 DEF StorageInv, GoneIsQuiet
  <2>2. ASSUME phase \in RestorePhases
        PROVE  FALSE
    <3>1. Passes \/ Restages \/ (pending # None /\ Release)
      BY <1>3, <1>4, <1>7, <2>2, RestoreCases DEF OpeningInv
    <3>2. Restages
      BY <1>1, <3>1 DEF Passes
    <3>3. pending'.input.kind \in {"recovery", "policy"}
      BY <3>2 DEF Restages, StageAppend, PolicyInput
    <3> QED BY <1>9, <3>3
  <2> QED BY <2>1, <2>2 DEF StorageInv, TypeOK, AllPhases, OpenPhases, RestorePhases
<1> QED BY <1>2, <1>4, <1>6, <1>7, <1>8, <1>9, <1>10, <1>11

\* What holds of the selections when a turn starts.
LEMMA StartsSelected ==
  ASSUME StorageInv, OpeningInv, SelectionInv, [Next]_vars, StartsTurn
  PROVE  /\ selection = None /\ storing = << >> /\ seen \in {None, durable.mode}
         /\ departed => ~remembered'
<1>1. /\ WriterDecides /\ ~Dead /\ ~Dead' /\ phase \in {"creating", "open"}
      /\ pending'.input.kind \notin {"created", "recovery", "policy"}
      /\ SubmitAdmitted \/ DrainDequeue \/ DrainQueue
  BY StartsAre
<1>2. pending = None /\ pending' # None /\ ~Active(durable)
  BY DEF StartsTurn
<1>3. Parts
  BY <1>1, PartsFit DEF SelectionInv
<1>4. ASSUME NEW s, NEW rest, NEW again, Admit(s, rest, again)
      PROVE  remembered' = remembered /\ pending'.input = s.input
  BY <1>1, <1>2, <1>4 DEF Admit, StageAppend, Stop, Dead
<1>5. selection = None /\ remembered' = remembered
  <2>1. CASE SubmitAdmitted
    <3> DEFINE s == [id |-> Event.id, input |-> Event.input]
    <3>1. Admit(s, << >>, << >>) /\ ~AwaitsSelection(Event)
      BY <2>1 DEF SubmitAdmitted, MustQueue
    <3>2. remembered' = remembered /\ pending'.input = Event.input
      BY <1>4, <3>1
    <3> QED BY <1>1, <1>2, <3>1, <3>2 DEF AwaitsSelection
  <2>2. CASE DrainDequeue \/ DrainQueue
    <3>1. status = "ready" /\ ~AtBoundary(selection)
      BY <2>2 DEF DrainDequeue, DrainQueue
    <3>2. selection = None
      BY <1>2, <3>1 DEF AtBoundary
    <3> QED BY <1>4, <2>2, <3>2 DEF DrainDequeue, DrainQueue
  <2> QED BY <1>1, <2>1, <2>2
<1>6. storing = << >> /\ WrittenIn(mailbox) = {}
  BY <1>3, <1>5 DEF Parts, LastIn, WrittenIn
<1>7. seen \in {None, durable.mode}
  BY <1>2, <1>3, <1>5, <1>6 DEF Parts, SeenIn, StandsIn, NextMode
<1>8. departed => ~remembered
  BY <1>2, <1>3, <1>5 DEF Parts, Obliged, PolicyDrops, DropIn
<1> QED BY <1>5, <1>6, <1>7, <1>8

\* No turn overtakes a selection, whether it is still being written, superseded, fell
\* back or waits for the boundary: it starts under the configuration this runtime last
\* stored, or found stored.
THEOREM TurnsFollowSelections == Spec => TurnStartsUnderSelection
<1>1. ASSUME StorageInv, OpeningInv, SelectionInv, [Next]_vars
      PROVE  [StartsTurn => selection = None /\ storing = << >> /\ seen \in {None, durable.mode}]_vars
  BY <1>1, StartsSelected
<1> QED BY <1>1, SelectionSafe, PTL DEF Spec, TurnStartsUnderSelection

\* A selection of another permission mode revokes the approvals remembered before it,
\* though it is undone, superseded or dropped before the turn ends.
THEOREM SwitchesRevoke == Spec => SwitchingBackRevokes
<1>1. ASSUME StorageInv, OpeningInv, SelectionInv, [Next]_vars
      PROVE  [StartsTurn /\ departed => ~remembered']_vars
  BY <1>1, StartsSelected
<1> QED BY <1>1, SelectionSafe, PTL DEF Spec, SwitchingBackRevokes

-----------------------------------------------------------------------------
\* One lost acknowledgement

\* Staging never goes back to an earlier operation, and leaves behind the one whose report
\* it takes.
LEMMA StageGenerations ==
  ASSUME NEW j \in JournalState, NEW input \in Inputs, Admissible(j, input)
  PROVE  LET next == Stage(j, input)
         IN /\ \/ next.turn > j.turn
               \/ next.turn = j.turn /\ next.generation >= j.generation
            /\ input.kind = "child" => Precedes(input, next)
<1> DEFINE Goes(s)  == \/ s.turn = j.turn + 1
                       \/ s.turn = j.turn /\ s.generation = j.generation + 1
           Stays(s) == s.turn = j.turn /\ s.generation = j.generation
<1>1. j.turn \in Nat /\ j.generation \in Nat
  BY JournalFields
<1>2. ASSUME NEW s \in JournalState, Stays(s)
      PROVE  /\ Goes(EndTurn(s))
             /\ \A p \in Phases : Goes(Run(s, p))
             /\ Goes(Prepare(s))
             /\ Goes(Abort(s)) \/ Stays(Abort(s))
  <2>1. Goes(EndTurn(s))
    BY <1>2 DEF EndTurn, JournalState
  <2>2. ASSUME NEW t \in JournalState, Stays(t), NEW p \in Phases
        PROVE  Goes(Run(t, p))
    BY <2>2 DEF Run, JournalState
  <2>3. Goes(Prepare(s))
    <3>1. CASE s.left = 0
      BY <2>1, <3>1 DEF Prepare
    <3>2. CASE s.left # 0
      <4> DEFINE t == [s EXCEPT !.left = @ - 1]
      <4>1. Stays(t)
        BY <1>2 DEF JournalState
      <4>2. s.left - 1 \in 0..Steps
        BY <3>2, JournalFields, StepsAssumption
      <4>3. t \in JournalState
        BY <4>2, SetField
      <4>4. Prepare(s) = Run(t, "model")
        BY <3>2 DEF Prepare
      <4> HIDE DEF t
      <4>5. Goes(Run(t, "model"))
        BY <2>2, <4>1, <4>3 DEF Phases
      <4> HIDE DEF Goes
      <4> QED BY <4>4, <4>5
    <3> QED BY <3>1, <3>2
  <2>4. Goes(Abort(s)) \/ Stays(Abort(s))
    BY <1>2, <2>1 DEF Abort, JournalState
  <2> QED BY <1>2, <2>1, <2>2, <2>3, <2>4
<1>3. ASSUME NEW s \in JournalState
      PROVE  \A n : LET t == [s EXCEPT !.revision = n]
                    IN t.turn = s.turn /\ t.generation = s.generation
  BY DEF JournalState
<1>4. ASSUME NEW s \in JournalState, NEW q \in Seq(Users)
      PROVE  LET t == [s EXCEPT !.pendingInputs = q]
             IN t \in JournalState /\ t.turn = s.turn /\ t.generation = s.generation
  BY DEF JournalState
<1>5. /\ Goes(Fold(j, input)) \/ Stays(Fold(j, input))
      /\ input.kind = "child" => Goes(Fold(j, input))
  <2>1. CASE input.kind = "user" /\ ~Queues(j, input)
    BY <1>2, <2>1 DEF Fold
  <2>2. CASE input.kind = "user" /\ Queues(j, input)
    <3>1. Append(j.pendingInputs, input.user) \in Seq(Users)
      BY <2>2, InputFields, JournalFields
    <3>2. Queue(j, input.user) \in JournalState /\ Stays(Queue(j, input.user))
      BY <1>4, <3>1 DEF Queue
    <3>3. Goes(Abort(Queue(j, input.user))) \/ Stays(Abort(Queue(j, input.user)))
      BY <1>2, <3>2
    <3> QED BY <2>2, <3>2, <3>3 DEF Fold
  <2>3. CASE input.kind = "child"
    <3>1. Goes(Settle(j, input.result))
      <4>1. \A p \in Phases : Goes(Run(j, p))
        BY <1>2
      <4>2. Goes(Prepare(j)) /\ Goes(EndTurn(j))
        BY <1>2
      <4> HIDE DEF Goes
      <4> QED BY <4>1, <4>2 DEF Settle, Phases
    <3>2. Fold(j, input) = Settle(j, input.result)
      BY <2>3 DEF Fold
    <3> QED BY <2>3, <3>1, <3>2
  <2>4. CASE input.kind = "abort"
    BY <1>2, <2>4 DEF Fold
  <2>5. CASE input.kind = "policy"
    BY <2>5 DEF Fold, JournalState
  <2>6. CASE input.kind = "dequeued"
    <3>1. Tail(j.pendingInputs) \in Seq(Users)
      BY <2>6, JournalFields DEF Admissible, Stageable, DequeueStageable
    <3>2. Goes(Dequeue(j))
      BY <1>2, <1>4, <3>1 DEF Dequeue
    <3> QED BY <2>6, <3>2 DEF Fold
  <2>7. CASE input.kind = "recovery"
    <3>1. << >> \in Seq(Users) /\ EndTurn(j) \in JournalState
      BY TurnSteps
    <3>2. Goes(Recover(j)) \/ Stays(Recover(j))
      BY <1>2, <1>4, <3>1 DEF Recover
    <3> QED BY <2>7, <3>2 DEF Fold
  <2>8. CASE input.kind \notin {"user", "child", "abort", "policy", "dequeued", "recovery"}
    BY <2>8 DEF Fold
  <2> QED BY <2>1, <2>2, <2>3, <2>4, <2>5, <2>6, <2>7, <2>8
<1>6. Fold(j, input) \in JournalState
  BY FoldType DEF Admissible, Stageable, DequeueStageable
<1>7. /\ Goes(Stage(j, input)) \/ Stays(Stage(j, input))
      /\ input.kind = "child" => Goes(Stage(j, input))
  BY <1>3, <1>5, <1>6 DEF Stage
<1>8. input.kind = "child" => input.turn = j.turn /\ input.generation = j.generation
  BY DEF Admissible, Accepts
<1> QED BY <1>1, <1>7, <1>8 DEF Precedes

\* The operation of a stored report stays over.
LEMMA ChildrenStep ==
  ASSUME StorageInv, AdmissionInv, ChildrenAreOver, [Next]_vars
  PROVE  ChildrenAreOver'
<1>1. /\ journal \in Seq(Batches) /\ Len(journal) \in Nat /\ Tip \in JournalState
      /\ Tip = StateAt(Len(journal))
  BY TipIsLast
<1>2. CASE journal' = journal
  BY <1>2 DEF ChildrenAreOver, Tip
<1>3. ASSUME NEW r \in Batches, StagedOn(r), Fit(r), r.expected = Len(journal),
             journal' = Append(journal, r)
      PROVE  ChildrenAreOver'
  <2>1. r.next = Stage(Tip, r.input) /\ Admissible(Tip, r.input) /\ r.input \in Inputs
    BY <1>1, <1>3 DEF StagedOn, Fit, Batches
  <2>2. /\ \/ r.next.turn > Tip.turn
           \/ r.next.turn = Tip.turn /\ r.next.generation >= Tip.generation
        /\ r.input.kind = "child" => Precedes(r.input, r.next)
    BY <1>1, <2>1, StageGenerations
  <2>3. Tip' = r.next
    BY <1>1, <1>3 DEF Tip
  <2>4. /\ Tip.turn \in Nat /\ Tip.generation \in Nat
        /\ r.next.turn \in Nat /\ r.next.generation \in Nat
    BY <1>1, JournalFields DEF Batches
  <2>5. ASSUME NEW i \in DOMAIN journal', journal'[i].input.kind = "child"
        PROVE  Precedes(journal'[i].input, r.next)
    <3>1. CASE journal'[i] = r
      BY <2>2, <2>5, <3>1
    <3>2. CASE i \in DOMAIN journal /\ journal'[i] = journal[i]
      <4>1. Precedes(journal[i].input, Tip)
        BY <2>5, <3>2 DEF ChildrenAreOver
      <4>2. journal[i].input.turn \in Nat /\ journal[i].input.generation \in Nat
        <5>1. journal[i].input.kind = "child"
          BY <2>5, <3>2
        <5>2. journal[i] \in Batches
          BY <1>1, <3>2
        <5>3. journal[i].input \in Inputs
          BY <5>2 DEF Batches
        <5> QED BY <5>1, <5>3 DEF Inputs, Created, AbortInput, SystemInput, UserInput, DequeuedInput,
                            PolicyInput
      <4> QED BY <2>2, <2>4, <3>2, <4>1, <4>2 DEF Precedes
    <3> QED BY <1>1, <1>3, <3>1, <3>2, AppendCases
  <2> QED BY <2>3, <2>5 DEF ChildrenAreOver, Precedes
<1> QED BY <1>2, <1>3, StoreCases DEF AdmissionInv

\* Nothing is stored yet of a submission or selection that waits.
LEMMA WaitingIsNew ==
  ASSUME PlacesAreOwn, NEW c \in Tracked,
         InMailbox(c) \/ InQueue(c) \/ IsSelected(c) \/ IsFallback(c)
  PROVE  Found(journal, c) = {}
<1>1. ~IsAppended(c)
  BY Elsewhere
<1> QED BY <1>1 DEF IsAppended, Committed, Found

\* Nor of a report that the session accepts.
LEMMA ReportIsNew ==
  ASSUME StorageInv, AdmissionInv, ChildrenAreOver, durable = Tip, NEW input \in Inputs,
         input.kind = "child", Accepts(durable, input), NEW id \in IdsOf(input)
  PROVE  Found(journal, id) = {}
<1> SUFFICES ASSUME NEW i \in DOMAIN journal, journal[i].id = id
             PROVE  FALSE
  BY DEF Found
<1>1. id = ChildId(input.turn, input.generation)
  BY DEF IdsOf
<1>2. journal[i].id \in IdsOf(journal[i].input) /\ journal[i] \in Batches
  BY TipIsLast DEF AdmissionInv, RequestsAreFit, Fit
<1>3. journal[i].input \in Inputs
  BY <1>2 DEF Batches
<1>4. journal[i].input.kind = "child"
  BY <1>1, <1>2, <1>3, InputFields
     DEF IdsOf, ChildId, CreateId, UserId, DequeueId, RecoveryId, AnySelectionIds, SelectionIds
<1>5. journal[i].input.turn = Tip.turn /\ journal[i].input.generation = Tip.generation
  <2>1. journal[i].id = ChildId(journal[i].input.turn, journal[i].input.generation)
    BY <1>2, <1>4 DEF IdsOf
  <2> QED BY <1>1, <2>1 DEF ChildId, Accepts
<1>6. Precedes(journal[i].input, Tip)
  BY <1>4 DEF ChildrenAreOver
<1>7. Tip.turn \in Nat /\ Tip.generation \in Nat
  BY TipIsLast, JournalFields
<1> QED BY <1>5, <1>6, <1>7 DEF Precedes

\* Nor of the dequeueing of an input that is still queued.
LEMMA DequeueIsNew ==
  ASSUME StorageInv, AdmissionInv, QueueIsOrdered, Tip.pendingInputs # << >>
  PROVE  Found(journal, DequeueId(Head(Tip.pendingInputs))) = {}
<1> DEFINE u == Head(Tip.pendingInputs)
<1> SUFFICES ASSUME NEW d \in DOMAIN journal, journal[d].id = DequeueId(u)
             PROVE  FALSE
  BY DEF Found
<1>1. journal[d].id \in IdsOf(journal[d].input) /\ journal[d].input \in Inputs
  <2>1. journal[d] \in Batches
    BY TipIsLast
  <2> QED BY <2>1 DEF AdmissionInv, RequestsAreFit, Fit, Batches
<1>2. journal[d].input.kind = "dequeued"
  BY <1>1, InputFields
     DEF IdsOf, ChildId, CreateId, UserId, DequeueId, RecoveryId, AnySelectionIds, SelectionIds
<1>3. journal[d].input.user = u /\ d \in Dequeued
  BY <1>1, <1>2 DEF IdsOf, DequeueId, Dequeued, BatchesOf
<1>4. 1 \in DOMAIN Tip.pendingInputs /\ Tip.pendingInputs[1] = u
  BY TipIsLast, JournalFields
<1>5. PICK q \in Enqueued :
        /\ journal[q].input.user = u
        /\ \A k \in Dequeued, p \in Enqueued : SameUser(p, k) => p < q
  BY <1>4 DEF QueueIsOrdered
<1>6. q < q /\ q \in Nat
  BY <1>3, <1>5, TipIsLast DEF SameUser, Enqueued, BatchesOf
<1> QED BY <1>6

\* The step sends an append under an ID that the journal does not have.
StagesNew ==
  /\ status = "ready"
  /\ \E s \in Submission : \E rest : StageAppend(s, rest) /\ Found(journal, s.id) = {}

\* A submission that is new if it is accepted, and staged if it is one of the session's
\* own, does not fail the session.
LEMMA AdmitNew ==
  ASSUME status = "ready", NEW s \in Submission, NEW rest, NEW again \in {<< >>, <<Drain>>},
         Admit(s, rest, again),
         Accepts(durable, s.input) => Found(journal, s.id) = {},
         Internal(s) => Refusal(s) # "refused"
  PROVE  Leaves \/ StagesNew
<1>1. CASE Refusal(s) = "none" /\ StageAppend(s, rest)
  <2>1. Accepts(durable, s.input)
    BY <1>1 DEF Refusal
  <2> QED BY <1>1, <2>1 DEF StagesNew
<1>2. CASE /\ Consume(again)
           /\ UNCHANGED <<status, durable, pending, selection, io, storing, running, remembered,
                          released>>
  BY <1>2 DEF Leaves
<1> QED BY <1>1, <1>2 DEF Admit

\* What clients and well-behaved operations submit is such a submission.
LEMMA SubmissionIsNew ==
  ASSUME StorageInv, AdmissionInv, PlacesAreOwn, ChildrenAreOver, durable = Tip,
         NEW s \in Submission, SubmissionIsOwn(s), SubmitsOnce(s),
         InMailbox(s.id) \/ InQueue(s.id)
  PROVE  /\ Accepts(durable, s.input) => Found(journal, s.id) = {}
         /\ Internal(s) => Refusal(s) # "refused"
<1>1. s.input \in Inputs /\ s.id \in IdsOf(s.input)
  BY DEF Submission, SubmissionIsOwn
<1>2. CASE s.id \in Tracked
  <2>1. ~Internal(s)
    BY <1>1, <1>2 DEF Internal, IdsOf, ChildId, DequeueId, RecoveryId, Tracked, Requests, UserId,
                      CreateId
  <2> QED BY <1>2, <2>1, WaitingIsNew
<1>3. CASE s.input.kind = "child" /\ s.input.result # "unpermitted"
  <2>1. Stageable(durable, s.input)
    BY <1>3 DEF Stageable
  <2> QED BY <1>1, <1>3, <2>1, ReportIsNew DEF Refusal
<1> QED BY <1>2, <1>3 DEF SubmitsOnce

\* A selection at a boundary stages a configuration that is new.
LEMMA SelectionIsNew ==
  ASSUME WriterTypeOK, PlacesAreOwn, NEW sel \in Selection, NEW known,
         \/ SettleStored(sel, known)
         \/ AtBoundary(sel) /\ ApplySelection(sel, known),
         sel.stored => /\ sel.id \in SelectionIds
                       /\ InMailbox(sel.id) \/ IsSelected(sel.id) \/ IsFallback(sel.id)
  PROVE  Leaves \/ StagesNew
<1>1. CASE AtBoundary(sel) /\ ApplySelection(sel, known)
  <2>1. CASE /\ sel.stored /\ sel.mode # durable.mode
             /\ StageAppend([id |-> sel.id, input |-> PolicyInput(sel.mode)], queue)
    <3> DEFINE s == [id |-> sel.id, input |-> PolicyInput(sel.mode)]
    <3>1. PolicyInput(sel.mode) \in Inputs
      BY DEF Inputs, PolicyInput, Selection
    <3>2. s \in Submission
      BY <3>1 DEF Submission, Selection
    <3>3. Found(journal, s.id) = {}
      BY <2>1, WaitingIsNew DEF SelectionIds, Tracked, Requests
    <3> HIDE DEF s
    <3>4. StageAppend(s, queue) /\ status = "ready"
      BY <1>1, <2>1 DEF s, AtBoundary
    <3> QED BY <3>2, <3>3, <3>4 DEF StagesNew
  <2> QED BY <1>1, <2>1 DEF ApplySelection, Leaves
<1>2. CASE SettleStored(sel, known) /\ ~AtBoundary(sel)
  BY <1>2 DEF SettleStored, Leaves
<1> QED BY <1>1, <1>2 DEF SettleStored

\* A writer that works alone: it serves clients, and no one else writes its journal.
Alone ==
  /\ StorageInv /\ AdmissionInv /\ QueueIsOrdered /\ PlacesAreOwn
  /\ ReselectsAtOnce /\ phase \in {"creating", "open"} /\ ~Dead
  /\ ChildrenAreOver /\ SubmittedOnce /\ WritesAlone /\ FaultsAreCounted

\* Between two appends it works from the end of the journal.
LEMMA AloneIsCurrent ==
  ASSUME Alone, status = "ready"
  PROVE  pending = None /\ durable = Tip /\ Len(journal) = durable.revision
<1>1. pending = None
  BY DEF Alone, StorageInv, TypeOK, WriterTypeOK
<1>2. Len(journal) = durable.revision /\ durable = StateAt(durable.revision)
  BY <1>1 DEF Alone, WritesAlone, StorageInv, DurableIsStored
<1> QED BY <1>1, <1>2, TipIsLast DEF Alone

\* What the decisions of such a writer do to its storage: they fail it by a result of
\* storage only, and stage nothing that is stored.
LEMMA AloneDecides ==
  ASSUME Alone, Decide
  PROVE  \/ Leaves \/ StagesNew \/ Close
         \/ AppendCommitted \/ AppendIndeterminate \/ AppendRefused
         \/ LoadedCommitted \/ LoadedAbsent \/ LoadedUnusable
<1>1. /\ StorageInv /\ AdmissionInv /\ QueueIsOrdered /\ PlacesAreOwn /\ ReselectsAtOnce
      /\ phase # "reselecting" /\ ~Dead /\ ChildrenAreOver /\ WriterTypeOK
      /\ \A i \in DOMAIN mailbox : mailbox[i].type = "submit" => SubmitsOnce(mailbox[i])
      /\ \A i \in DOMAIN queue : SubmitsOnce(queue[i])
  BY DEF Alone, StorageInv, TypeOK, SubmittedOnce
<1>2. /\ mailbox # << >> /\ Event = mailbox[1] /\ Event \in Events /\ EventIsOwn(Event)
      /\ 1 \in DOMAIN mailbox /\ queue \in Seq(Submission)
      /\ Event.type = "submit" => SubmitsOnce(Event)
  <2>1. mailbox # << >> /\ Event = mailbox[1] /\ Event \in Events
    BY <1>1, DecideConsumes
  <2>2. 1 \in DOMAIN mailbox /\ queue \in Seq(Submission)
    BY <1>1, <2>1 DEF WriterTypeOK
  <2>3. EventIsOwn(Event) /\ (Event.type = "submit" => SubmitsOnce(Event))
    BY <1>1, <2>1, <2>2 DEF AdmissionInv, IdsAreOwn
  <2> QED BY <2>1, <2>2, <2>3
<1>3. Carries(Event) => InMailbox(Event.id)
  BY <1>2 DEF InMailbox
<1>4. CASE SubmitToDead \/ SubmitBusy \/ SubmitQueued \/ SelectToDead \/ Select
           \/ StoredSuperseded \/ DrainNothing \/ StorageIgnored
  BY <1>4 DEF SubmitToDead, SubmitBusy, SubmitQueued, SelectToDead, Select, StoredSuperseded,
              DrainNothing, StorageIgnored, effectVars, Leaves
<1>5. CASE SubmitAdmitted
  <2> DEFINE s == [id |-> Event.id, input |-> Event.input]
  <2>1. Event.type = "submit" /\ status = "ready" /\ Admit(s, << >>, << >>)
    BY <1>1, <1>5 DEF SubmitAdmitted, Deciding, Event, MustQueue
  <2>2. s \in Submission /\ SubmissionIsOwn(s) /\ SubmitsOnce(s)
    BY <1>2, <2>1, EventFields DEF Submission, EventIsOwn, SubmissionIsOwn, SubmitsOnce
  <2>3. InMailbox(s.id)
    BY <1>3, <2>1 DEF Carries
  <2> HIDE DEF s
  <2>4. /\ Accepts(durable, s.input) => Found(journal, s.id) = {}
        /\ Internal(s) => Refusal(s) # "refused"
    BY <1>1, <2>1, <2>2, <2>3, AloneIsCurrent, SubmissionIsNew
  <2> QED BY <2>1, <2>2, <2>4, AdmitNew
<1>6. CASE DrainQueue
  <2> DEFINE s == Head(queue)
  <2>1. status = "ready" /\ queue # << >> /\ Admit(s, Tail(queue), <<Drain>>)
    BY <1>6 DEF DrainQueue
  <2>2. s = queue[1] /\ 1 \in DOMAIN queue
    BY <1>2, <2>1, TailCases
  <2>3. s \in Submission /\ SubmissionIsOwn(s) /\ SubmitsOnce(s) /\ InQueue(s.id)
    BY <1>1, <1>2, <2>2 DEF AdmissionInv, IdsAreOwn, InQueue
  <2> HIDE DEF s
  <2>4. /\ Accepts(durable, s.input) => Found(journal, s.id) = {}
        /\ Internal(s) => Refusal(s) # "refused"
    BY <1>1, <2>1, <2>3, AloneIsCurrent, SubmissionIsNew
  <2> QED BY <2>1, <2>3, <2>4, AdmitNew
<1>7. CASE DrainDequeue
  <2> DEFINE u == Head(durable.pendingInputs)
             s == [id |-> DequeueId(u), input |-> DequeuedInput(u)]
  <2>1. /\ status = "ready" /\ Admit(s, queue, << >>)
        /\ durable.pendingInputs # << >> /\ ~Active(durable)
    BY <1>7 DEF DrainDequeue, DequeueDue
  <2>2. u \in Users
    BY <1>1, <2>1, JournalFields DEF WriterTypeOK
  <2>3. DequeueId(u) \in Ids /\ DequeuedInput(u) \in Inputs
    BY <2>2, IdTypes DEF Inputs
  <2>4. s \in Submission
    BY <2>3 DEF Submission
  <2>5. Found(journal, s.id) = {}
    BY <1>1, <2>1, AloneIsCurrent, DequeueIsNew
  <2>6. Refusal(s) # "refused"
    BY <2>1 DEF Refusal, Stageable, DequeueStageable, DequeuedInput
  <2> HIDE DEF s
  <2> QED BY <2>1, <2>4, <2>5, <2>6, AdmitNew
<1>8. ~Reselect
  BY <1>1, <1>2 DEF Reselect, Deciding, Event, ReselectsAtOnce, HasEvent
<1>9. CASE StoredCurrent
  <2>1. /\ selection # None /\ selection \in Selection /\ selection.id \in SelectionIds
        /\ selection.fallback # None => selection.fallback.id \in SelectionIds
    BY <1>1, <1>9 DEF StoredCurrent, ReselectsAtOnce, WriterTypeOK
  <2>2. InMailbox(selection.id)
    BY <1>3, <1>9 DEF StoredCurrent, Deciding, Event, Carries
  <2>3. ASSUME NEW known, SettleStored([selection EXCEPT !.stored = TRUE], known)
        PROVE  Leaves \/ StagesNew
    <3> DEFINE sel == [selection EXCEPT !.stored = TRUE]
    <3>1. sel \in Selection /\ sel.id = selection.id
      BY <2>1 DEF Selection
    <3>2. SettleStored(sel, known)
      BY <2>3
    <3> HIDE DEF sel
    <3> QED BY <1>1, <2>1, <2>2, <3>1, <3>2, SelectionIsNew
  <2>4. ASSUME NEW known, selection.fallback # None,
               SettleStored([id |-> selection.fallback.id, mode |-> selection.fallback.mode,
                             stored |-> TRUE, revokes |-> selection.fallback.revokes,
                             fallback |-> None], known)
        PROVE  Leaves \/ StagesNew
    <3> DEFINE sel == [id |-> selection.fallback.id, mode |-> selection.fallback.mode,
                       stored |-> TRUE, revokes |-> selection.fallback.revokes,
                       fallback |-> None]
    <3>1. sel \in Selection
      BY <2>1, <2>4 DEF Selection, Fallback
    <3>2. sel.id \in SelectionIds /\ IsFallback(sel.id)
      BY <2>1, <2>4 DEF IsFallback
    <3>3. SettleStored(sel, known)
      BY <2>4
    <3> HIDE DEF sel
    <3> QED BY <1>1, <3>1, <3>2, <3>3, SelectionIsNew
  <2>5. CASE selection' = None /\ Consume(<<Drain>>)
             /\ UNCHANGED <<status, durable, queue, pending, io, storing, running, remembered,
                            waits, released>>
    BY <2>5 DEF Leaves
  <2> QED BY <1>9, <2>3, <2>4, <2>5 DEF StoredCurrent
<1>10. CASE DrainSelection
  <2>1. /\ selection # None /\ selection \in Selection /\ selection.id \in SelectionIds
        /\ AtBoundary(selection) /\ ApplySelection(selection, answers)
    BY <1>1, <1>10 DEF DrainSelection, AtBoundary, ReselectsAtOnce, WriterTypeOK
  <2>2. selection.stored => IsSelected(selection.id)
    BY <2>1 DEF IsSelected
  <2> QED BY <1>1, <2>1, <2>2, SelectionIsNew
<1> QED BY <1>4, <1>5, <1>6, <1>7, <1>8, <1>9, <1>10 DEF Decide

\* Its parts.
LEMMA AloneParts ==
  ASSUME Alone
  PROVE  /\ StorageInv /\ WritesAlone /\ FaultsAreCounted /\ ~Dead /\ WriterTypeOK
         /\ journal \in Seq(Batches) /\ faults \in Nat /\ mailbox \in Seq(Events)
         /\ pending \in Pending \cup {None}
BY DEF Alone, StorageInv, TypeOK, WriterTypeOK

\* Storage never refuses such a writer, nor contradicts it, and it gives up on two faults.
LEMMA AloneFails ==
  ASSUME Alone, mailbox # << >>
  PROVE  /\ AppendCommitted => Release
         /\ ~AppendRefused
         /\ LoadedUnusable => faults > 1
<1>1. /\ StorageInv /\ WritesAlone /\ FaultsAreCounted /\ mailbox \in Seq(Events)
      /\ journal \in Seq(Batches) /\ faults \in Nat /\ pending \in Pending \cup {None}
  BY AloneParts
<1>2. 1 \in DOMAIN mailbox /\ Event = mailbox[1]
  BY <1>1 DEF Event
<1>3. CASE Event.type = "appended"
  <2>1. \/ Event.result = "committed" /\ Event.revision = pending.next.revision
        \/ Event.result = "indeterminate"
    BY <1>1, <1>2, <1>3 DEF FaultsAreCounted, StorageResults
  <2> QED BY <1>3, <2>1 DEF AppendCommitted, AppendRefused, LoadedUnusable, Deciding, Event
<1>4. ASSUME Event.type = "loaded", LoadedUnusable
      PROVE  faults > 1
  <2>1. /\ Event.ok => Event.batches = journal
        /\ ~Event.ok => faults > 1
        /\ status = "reconciling" => pending.attempts < faults
    BY <1>1, <1>2, <1>4 DEF FaultsAreCounted, StorageResults
  <2>2. status = "reconciling" /\ pending # None
    BY <1>4 DEF LoadedUnusable, InFlight
  <2>3. CASE ~Event.ok
    BY <2>1, <2>3
  <2>4. CASE Event.ok /\ Found(journal, pending.id) = {}
    <3>1. Len(journal) = pending.expected
      <4>1. ASSUME Len(journal) = pending.expected + 1, journal[Len(journal)] = Batch(pending)
            PROVE  FALSE
        <5>1. Len(journal) \in DOMAIN journal
          BY <1>1, <2>2, <4>1 DEF Pending
        <5>2. Len(journal) \in Found(journal, pending.id)
          BY <4>1, <5>1 DEF Found, Batch
        <5> QED BY <2>4, <5>2
      <4> QED BY <1>1, <2>2, <4>1 DEF WritesAlone
    <3>2. pending.attempts # 0
      <4>1. ~Retryable
        BY <1>4, <2>4 DEF LoadedUnusable
      <4>2. Event.batches = journal
        BY <2>1, <2>4
      <4> QED BY <2>4, <3>1, <4>1, <4>2 DEF Retryable
    <3> QED BY <1>1, <2>1, <2>2, <3>2 DEF Pending
  <2>5. CASE Event.ok /\ Found(journal, pending.id) # {}
    <3>1. Len(journal) = pending.expected + 1 /\ journal[Len(journal)] = Batch(pending)
      BY <1>1, <2>2, <2>5 DEF WritesAlone
    <3>2. Len(journal) \in Found(journal, pending.id)
      BY <1>1, <2>2, <3>1 DEF Found, Batch, Pending
    <3>3. /\ journal[Len(journal)].expected = pending.expected
          /\ journal[Len(journal)].input = pending.input
      BY <3>1 DEF Batch
    <3> QED BY <1>4, <2>1, <2>5, <3>2, <3>3 DEF LoadedUnusable
  <2> QED BY <2>3, <2>4, <2>5
<1> QED
  BY <1>3, <1>4 DEF AppendCommitted, AppendRefused, LoadedUnusable, Deciding, Event

\* Its decisions keep it so.
LEMMA AloneKeeps ==
  ASSUME Alone, StorageInv', WriterDecides, ~Dead'
  PROVE  WritesAlone' /\ FaultsAreCounted'
<1>1. /\ StorageInv /\ WritesAlone /\ FaultsAreCounted /\ ~Dead /\ WriterTypeOK
      /\ journal \in Seq(Batches) /\ faults \in Nat /\ mailbox \in Seq(Events)
  BY AloneParts
<1>2. Decide /\ UNCHANGED <<journal, orphans, faults>>
  BY DEF WriterDecides, storeVars, lostVars, budgetVars
<1>3. /\ mailbox # << >> /\ Event = mailbox[1]
      /\ \E sends \in {<< >>, <<Drain>>} : Consume(sends)
  BY <1>1, <1>2, DecideConsumes
<1>4. /\ \A i \in StorageResults' : i + 1 \in StorageResults /\ mailbox'[i] = mailbox[i + 1]
      /\ 1 \in StorageResults => StorageResults' = {}
  BY <1>1, <1>3, ResultsLeft
<1>5. CASE Leaves
  <2>1. UNCHANGED <<status, durable, pending, io>>
    BY <1>5 DEF Leaves
  <2>2. WritesAlone'
    BY <1>1, <1>2, <2>1 DEF WritesAlone, Found, Batch
  <2>3. FaultsAreCounted'
    BY <1>1, <1>2, <1>4, <2>1 DEF FaultsAreCounted
  <2> QED BY <2>2, <2>3
<1>6. CASE StagesNew
  <2>0. PICK s \in Submission : \E rest : StageAppend(s, rest) /\ Found(journal, s.id) = {}
    BY <1>6 DEF StagesNew
  <2>1. PICK rest : StageAppend(s, rest) /\ Found(journal, s.id) = {}
    BY <2>0
  <2>2. pending = None /\ Len(journal) = durable.revision
    BY <1>6, AloneIsCurrent DEF StagesNew
  <2>3. /\ status' = "committing" /\ pending' # None /\ pending'.id = s.id
        /\ pending'.expected = durable.revision /\ pending'.attempts = 0
        /\ io' # None /\ io'.op = "append"
    <3>1. /\ status' = "committing" /\ pending'.id = s.id
          /\ pending'.expected = durable.revision /\ pending'.attempts = 0
          /\ io'.op = "append"
      BY <2>1 DEF StageAppend
    <3>2. WriterTypeOK'
      BY DEF StorageInv, TypeOK
    <3>3. pending' # None
      BY <3>1, <3>2 DEF WriterTypeOK
    <3>4. io' # None
      <4>1. io' = [op |-> "append", request |-> io'.request]
        BY <2>1 DEF StageAppend
      <4>2. io'.request \in Batches
        BY <2>1, <3>2, <3>3 DEF StageAppend, WriterTypeOK, Pending, Batches, Submission
      <4> QED BY <4>1, <4>2, NoneAssumption DEF StorageCall
    <3> QED BY <3>1, <3>3, <3>4
  <2>4. StorageResults' = {}
    BY <1>1, <1>4, <2>2 DEF StorageInv, OneStorageCall
  <2>5. WritesAlone'
    BY <1>1, <1>2, <2>1, <2>2, <2>3 DEF WritesAlone, Found
  <2>6. FaultsAreCounted'
    BY <1>1, <1>2, <2>3, <2>4 DEF FaultsAreCounted
  <2> QED BY <2>5, <2>6
<1>7. CASE AppendCommitted \/ LoadedCommitted
  <2>1. pending # None /\ pending \in Pending /\ status # "ready"
    BY <1>1, <1>7 DEF AppendCommitted, LoadedCommitted, InFlight, WriterTypeOK
  <2>0. Release
    BY <1>3, <1>7, AloneFails DEF LoadedCommitted
  <2>10. Releases
    <3>1. CASE LoadedCommitted
      BY <2>0, <3>1 DEF Releases
    <3>2. CASE AppendCommitted
      <4>1. ~Stop("failed", {})
        BY DEF Stop, Dead
      <4> QED BY <2>0, <3>2, <4>1 DEF AppendCommitted, Releases
    <3> QED BY <1>7, <3>1, <3>2
  <2>2. /\ pending.next.revision \in DOMAIN journal
        /\ journal[pending.next.revision] = Batch(pending)
    BY <1>1, <1>2, <2>10, ReleasedStored
  <2>3. pending.next.revision = pending.expected + 1
    BY <1>1, <2>1, PendingIsStaged
  <2>4. Len(journal) = pending.next.revision
    BY <1>1, <2>1, <2>2, <2>3 DEF WritesAlone, Pending
  <2>5. status' = "ready" /\ durable' = pending.next /\ pending' = None /\ io' = io
    BY <2>0 DEF Release
  <2>6. 1 \in StorageResults
    BY <1>1, <1>3, <1>7
       DEF StorageResults, AppendCommitted, LoadedCommitted, Deciding, Event
  <2>7. WritesAlone'
    BY <1>1, <1>2, <2>4, <2>5 DEF WritesAlone
  <2>8. io = None
    BY <1>1, <2>6 DEF StorageInv, OneStorageCall
  <2>9. FaultsAreCounted'
    BY <1>4, <2>5, <2>6, <2>8 DEF FaultsAreCounted
  <2> QED BY <2>7, <2>9
<1>8. CASE AppendIndeterminate
  <2>1. /\ status' = "reconciling" /\ io'.op = "load" /\ UNCHANGED <<durable, pending>>
        /\ Event.type = "appended" /\ Event.result = "indeterminate" /\ pending # None
    BY <1>8 DEF AppendIndeterminate, Deciding, Event, InFlight
  <2>2. 1 \in StorageResults
    BY <1>1, <1>3, <2>1 DEF StorageResults
  <2>3. pending.attempts < faults
    BY <1>1, <1>3, <2>1, <2>2 DEF FaultsAreCounted
  <2>4. WritesAlone'
    BY <1>1, <1>2, <2>1 DEF WritesAlone, Found, Batch
  <2>5. FaultsAreCounted'
    BY <1>1, <1>2, <1>4, <2>1, <2>2, <2>3 DEF FaultsAreCounted
  <2> QED BY <2>4, <2>5
<1>9. CASE LoadedAbsent
  <2>1. /\ status = "reconciling" /\ status' = "committing" /\ io'.op = "append"
        /\ UNCHANGED durable /\ pending # None /\ pending \in Pending
        /\ pending' = [pending EXCEPT !.attempts = @ + 1] /\ Event.type = "loaded"
    BY <1>1, <1>9 DEF LoadedAbsent, Deciding, Event, InFlight, WriterTypeOK
  <2>2. /\ pending'.attempts = pending.attempts + 1 /\ pending' # None
        /\ pending'.id = pending.id /\ pending'.expected = pending.expected
        /\ pending'.input = pending.input /\ pending'.next = pending.next
    <3>1. WriterTypeOK'
      BY DEF StorageInv, TypeOK
    <3> QED BY <2>1, <3>1 DEF Pending, WriterTypeOK
  <2>3. 1 \in StorageResults
    BY <1>1, <1>3, <2>1 DEF StorageResults
  <2>4. pending.attempts < faults
    BY <1>1, <2>1 DEF FaultsAreCounted
  <2>5. WritesAlone'
    BY <1>1, <1>2, <2>1, <2>2 DEF WritesAlone, Found, Batch
  <2>6. FaultsAreCounted'
    BY <1>1, <1>2, <1>4, <2>1, <2>2, <2>3, <2>4 DEF FaultsAreCounted, Pending
  <2> QED BY <2>5, <2>6
<1>10. ~(Close \/ LoadedUnusable)
  BY DEF Close, LoadedUnusable, Stop, Dead
<1> QED
  BY <1>2, <1>3, <1>5, <1>6, <1>7, <1>8, <1>9, <1>10, AloneDecides, AloneFails

\* Whatever a decision leaves in the queue was in it, or in the event decided.
LEMMA DecideQueues ==
  ASSUME WriterTypeOK, Decide, NEW i \in DOMAIN queue'
  PROVE  \/ \E k \in DOMAIN queue : queue'[i] = queue[k]
         \/ Event.type = "submit" /\ queue'[i] = [id |-> Event.id, input |-> Event.input]
<1>1. queue \in Seq(Submission)
  BY DEF WriterTypeOK
<1>2. CASE queue' \in {queue, << >>}
  BY <1>2
<1>3. CASE SubmitQueued
  <2>1. queue' = Append(queue, [id |-> Event.id, input |-> Event.input]) /\ Event.type = "submit"
    BY <1>3 DEF SubmitQueued, Deciding, Event
  <2> QED BY <1>1, <2>1, AppendCases
<1>4. CASE DrainQueue
  <2>1. queue' \in {Tail(queue), << >>} /\ queue # << >>
    BY <1>4, AdmitKept DEF DrainQueue
  <2>2. \A k \in DOMAIN Tail(queue) : k + 1 \in DOMAIN queue /\ Tail(queue)[k] = queue[k + 1]
    BY <1>1, <2>1, TailCases
  <2> QED BY <1>2, <2>1, <2>2
<1>5. CASE SubmitAdmitted \/ DrainDequeue
  BY <1>2, <1>5, AdmitKept DEF SubmitAdmitted, DrainDequeue
<1>6. CASE Reselect \/ StoredCurrent \/ DrainSelection
  BY <1>2, <1>6, SelectionKept DEF Reselect, StoredCurrent, DrainSelection
<1>7. CASE \/ SubmitToDead \/ SubmitBusy \/ SelectToDead \/ Select \/ StoredSuperseded
           \/ DrainNothing \/ AppendCommitted \/ AppendIndeterminate \/ AppendRefused
           \/ LoadedCommitted \/ LoadedAbsent \/ LoadedUnusable \/ StorageIgnored \/ Close
  BY <1>2, <1>7
     DEF SubmitToDead, SubmitBusy, SelectToDead, Select, StoredSuperseded, DrainNothing,
         AppendCommitted, AppendIndeterminate, AppendRefused, LoadedCommitted, LoadedAbsent,
         LoadedUnusable, StorageIgnored, Close, Stop, Release, effectVars
<1> QED BY <1>3, <1>4, <1>5, <1>6, <1>7 DEF Decide

\* No decision submits anything that is not its own.
LEMMA SubmittedKeeps ==
  ASSUME WriterTypeOK, SubmittedOnce, Decide
  PROVE  SubmittedOnce'
<1>1. /\ mailbox \in Seq(Events) /\ mailbox # << >> /\ Event = mailbox[1]
      /\ \E sends \in {<< >>, <<Drain>>} : Consume(sends)
  BY DecideConsumes DEF WriterTypeOK
<1>2. Event.type = "submit" => SubmitsOnce(Event)
  <2>1. 1 \in DOMAIN mailbox
    BY <1>1
  <2> QED BY <1>1, <2>1 DEF SubmittedOnce
<1>3. ASSUME NEW i \in DOMAIN queue'
      PROVE  SubmitsOnce(queue'[i])
  <2>1. CASE \E k \in DOMAIN queue : queue'[i] = queue[k]
    BY <2>1 DEF SubmittedOnce
  <2>2. CASE Event.type = "submit" /\ queue'[i] = [id |-> Event.id, input |-> Event.input]
    BY <1>2, <2>2 DEF SubmitsOnce
  <2> QED BY <2>1, <2>2, DecideQueues
<1>4. ASSUME NEW i \in DOMAIN mailbox', mailbox'[i].type = "submit"
      PROVE  SubmitsOnce(mailbox'[i])
  <2>1. \/ i + 1 \in DOMAIN mailbox /\ mailbox'[i] = mailbox[i + 1]
        \/ mailbox'[i] = Drain
    BY <1>1, MailboxLeft
  <2>2. Drain.type # "submit"
    BY DEF Drain
  <2> QED BY <1>4, <2>1, <2>2 DEF SubmittedOnce
<1> QED BY <1>3, <1>4 DEF SubmittedOnce, SubmitsOnce

\* Nor does anyone who posts nothing else.
LEMMA SubmittedPosts ==
  ASSUME mailbox \in Seq(Events), SubmittedOnce, queue' = queue,
         \/ mailbox' = mailbox
         \/ \E e : mailbox' = Append(mailbox, e) /\ (e.type = "submit" => SubmitsOnce(e))
  PROVE  SubmittedOnce'
<1>1. CASE mailbox' = mailbox
  BY <1>1 DEF SubmittedOnce, SubmitsOnce
<1>2. ASSUME NEW e, mailbox' = Append(mailbox, e), e.type = "submit" => SubmitsOnce(e)
      PROVE  SubmittedOnce'
  <2>1. ASSUME NEW i \in DOMAIN mailbox', mailbox'[i].type = "submit"
        PROVE  SubmitsOnce(mailbox'[i])
    <3>1. \/ i \in DOMAIN mailbox /\ mailbox'[i] = mailbox[i]
          \/ mailbox'[i] = e
      BY <1>2, MailboxMore
    <3> QED BY <1>2, <2>1, <3>1 DEF SubmittedOnce
  <2> QED BY <2>1 DEF SubmittedOnce, SubmitsOnce
<1> QED BY <1>1, <1>2

\* Events that are no storage results change nothing that storage has to answer.
LEMMA PostsKeep ==
  ASSUME mailbox \in Seq(Events), faults \in Nat, pending \in Pending \cup {None},
         WritesAlone, FaultsAreCounted, ~Dead,
         pending = None <=> status \notin {"committing", "reconciling"},
         UNCHANGED <<status, durable, pending, io, journal, orphans>>,
         faults' \in {faults, faults + 1},
         \/ mailbox' = mailbox
         \/ \E e : mailbox' = Append(mailbox, e) /\ e.type \notin {"appended", "loaded"}
  PROVE  WritesAlone' /\ FaultsAreCounted'
<1>1. \A i \in StorageResults' : i \in StorageResults /\ mailbox'[i] = mailbox[i]
  <2>1. CASE mailbox' = mailbox
    BY <2>1 DEF StorageResults
  <2>2. ASSUME NEW e, mailbox' = Append(mailbox, e), e.type \notin {"appended", "loaded"},
               NEW i \in StorageResults'
        PROVE  i \in StorageResults /\ mailbox'[i] = mailbox[i]
    <3>1. i \in DOMAIN mailbox' /\ mailbox'[i].type \in {"appended", "loaded"}
      BY <2>2 DEF StorageResults
    <3>2. \/ i \in DOMAIN mailbox /\ mailbox'[i] = mailbox[i]
          \/ mailbox'[i] = e
      BY <2>2, <3>1, MailboxMore
    <3> QED BY <2>2, <3>1, <3>2 DEF StorageResults
  <2> QED BY <2>1, <2>2
<1>2. WritesAlone'
  BY DEF WritesAlone, Found, Batch
<1>3. FaultsAreCounted'
  <2>1. pending = None \/ pending.attempts \in {0, 1}
    BY DEF Pending
  <2>2. status' = status /\ pending' = pending /\ io' = io /\ journal' = journal
    OBVIOUS
  <2>3. /\ pending' # None => pending'.attempts <= faults'
        /\ status' = "reconciling" => pending'.attempts < faults'
        /\ io' # None => (io'.op = "load" <=> status' = "reconciling")
    BY <2>1, <2>2 DEF FaultsAreCounted
  <2>4. ASSUME NEW i \in StorageResults'
        PROVE  /\ mailbox'[i].type = "appended" =>
                    /\ status' = "committing"
                    /\ \/ /\ mailbox'[i].result = "committed"
                          /\ mailbox'[i].revision = pending'.next.revision
                       \/ /\ mailbox'[i].result = "indeterminate"
                          /\ pending'.attempts < faults'
               /\ mailbox'[i].type = "loaded" =>
                    /\ status' = "reconciling"
                    /\ mailbox'[i].ok => mailbox'[i].batches = journal'
                    /\ ~mailbox'[i].ok => faults' > 1
    <3>1. i \in StorageResults /\ mailbox'[i] = mailbox[i]
      BY <1>1
    <3>2. mailbox[i].type = "appended" => status = "committing"
      BY <3>1 DEF FaultsAreCounted
    <3>3. mailbox[i].type = "appended" => pending # None
      BY <3>2
    <3> QED BY <2>1, <2>2, <3>1, <3>3 DEF FaultsAreCounted
  <2> QED BY <2>3, <2>4 DEF FaultsAreCounted
<1> QED BY <1>2, <1>3

\* The append of such a writer is asked for once at a time: no result of it waits.
LEMMA AloneAsks ==
  ASSUME Alone, io # None
  PROVE  /\ StorageResults = {} /\ pending # None /\ pending \in Pending
         /\ IF io.op = "load" THEN status = "reconciling" ELSE status = "committing"
         /\ Appending => io.request = Batch(pending)
<1>1. StorageResults = {} /\ pending # None /\ (Appending => io.request = Batch(pending))
  BY AloneParts DEF StorageInv, OneStorageCall
<1>2. status \in {"committing", "reconciling"} /\ pending \in Pending
  BY <1>1, AloneParts DEF WriterTypeOK
<1>3. io.op = "load" <=> status = "reconciling"
  BY AloneParts DEF FaultsAreCounted
<1> QED BY <1>1, <1>2, <1>3

\* What it asks for is written once, and its receipt says so.
LEMMA AloneWrites ==
  ASSUME Alone, Appending
  PROVE  /\ AppendResult(io.request) = "committed"
         /\ ReceiptRevision(io.request) = pending.next.revision
         /\ Write(io.request) /\ UNCHANGED <<pending, durable, orphans>> => WritesAlone'
<1>1. /\ io # None /\ io.request = Batch(pending) /\ pending # None /\ pending \in Pending
      /\ journal \in Seq(Batches) /\ Len(journal) \in Nat /\ WritesAlone /\ StorageInv
  BY AloneAsks, AloneParts DEF Appending
<1> DEFINE r == Batch(pending)
<1>2. /\ Batch(r) = r /\ r.id = pending.id /\ r.expected = pending.expected
      /\ pending.expected \in Nat /\ pending.next.revision = pending.expected + 1
  BY <1>1, PendingIsStaged DEF Batch, Pending
<1> HIDE DEF r
<1>3. CASE Len(journal) = pending.expected /\ Found(journal, pending.id) = {}
  <2>1. Writable(r) /\ Stored(journal, r) = {}
    BY <1>2, <1>3 DEF Writable, Stored
  <2>2. AppendResult(r) = "committed" /\ ReceiptRevision(r) = pending.next.revision
    BY <1>2, <1>3, <2>1 DEF AppendResult, ReceiptRevision
  <2>3. ASSUME Write(r), UNCHANGED <<pending, durable, orphans>>
        PROVE  WritesAlone'
    <3>1. journal' = Append(journal, r)
      BY <1>2, <2>1, <2>3 DEF Write
    <3>2. Len(journal') = pending.expected + 1 /\ journal'[Len(journal')] = r
      BY <1>1, <1>3, <3>1
    <3>3. Batch(pending)' = r
      BY <2>3 DEF Batch, r
    <3> QED BY <1>1, <2>3, <3>2, <3>3 DEF WritesAlone
  <2> QED BY <1>1, <2>2, <2>3 DEF r
<1>4. CASE Len(journal) = pending.expected + 1 /\ journal[Len(journal)] = r
  <2>1. Len(journal) \in DOMAIN journal
    BY <1>1, <1>2, <1>4
  <2>2. Found(journal, r.id) = {Len(journal)}
    BY <1>1, <1>4, <2>1 DEF Found, StorageInv, JournalIsIndexed
  <2>3. Len(journal) \in Stored(journal, r)
    BY <1>2, <1>4, <2>2 DEF Stored
  <2>4. AppendResult(r) = "committed"
    <3>1. Stored(journal, r) # {} /\ Found(journal, r.id) # {}
      BY <2>2, <2>3
    <3> QED BY <3>1 DEF AppendResult
  <2>5. ReceiptRevision(r) = pending.next.revision
    BY <1>2, <1>4, <2>2 DEF ReceiptRevision
  <2>6. ASSUME Write(r), UNCHANGED <<pending, durable, orphans>>
        PROVE  WritesAlone'
    <3>1. journal' = journal
      BY <2>2, <2>6 DEF Write, Writable
    <3> QED BY <1>1, <2>6, <3>1 DEF WritesAlone, Found, Batch
  <2> QED BY <1>1, <2>4, <2>5, <2>6 DEF r
<1> QED BY <1>1, <1>3, <1>4 DEF WritesAlone, r

\* A result of storage that fits keeps what is said of results.
LEMMA ResultKeeps ==
  ASSUME Alone, io # None, io' = None, NEW e, mailbox' = Append(mailbox, e),
         UNCHANGED <<status, pending>>, faults' \in {faults, faults + 1},
         e.type \in {"appended", "loaded"},
         e.type = "appended" =>
           /\ status = "committing"
           /\ \/ e.result = "committed" /\ e.revision = pending.next.revision
              \/ e.result = "indeterminate" /\ faults' = faults + 1,
         e.type = "loaded" =>
           /\ status = "reconciling"
           /\ e.ok => e.batches = journal'
           /\ ~e.ok => faults' = faults + 1
  PROVE  FaultsAreCounted'
<1>1. /\ FaultsAreCounted /\ mailbox \in Seq(Events) /\ faults \in Nat
      /\ StorageResults = {} /\ pending # None /\ pending.attempts \in {0, 1}
  BY AloneAsks, AloneParts DEF Pending
<1>2. ASSUME NEW i \in StorageResults'
      PROVE  mailbox'[i] = e
  <2>1. \/ i \in DOMAIN mailbox /\ mailbox'[i] = mailbox[i]
        \/ mailbox'[i] = e
    BY <1>1, <1>2, MailboxMore DEF StorageResults
  <2> QED BY <1>1, <1>2, <2>1 DEF StorageResults
<1>3. /\ pending.attempts <= faults
      /\ status = "reconciling" => pending.attempts < faults
  BY <1>1 DEF FaultsAreCounted
<1>4. e.type = "loaded" /\ ~e.ok => faults' > 1
  BY <1>1, <1>3
<1>5. /\ pending' # None => pending'.attempts <= faults'
      /\ status' = "reconciling" => pending'.attempts < faults'
  BY <1>1, <1>3
<1>6. e.type = "appended" /\ e.result = "indeterminate" =>
        e.result = "committed" \/ pending'.attempts < faults'
  BY <1>1, <1>3
<1>7. ASSUME NEW i \in StorageResults'
      PROVE  /\ mailbox'[i].type = "appended" =>
                  /\ status' = "committing"
                  /\ \/ /\ mailbox'[i].result = "committed"
                        /\ mailbox'[i].revision = pending'.next.revision
                     \/ /\ mailbox'[i].result = "indeterminate"
                        /\ pending'.attempts < faults'
             /\ mailbox'[i].type = "loaded" =>
                  /\ status' = "reconciling"
                  /\ mailbox'[i].ok => mailbox'[i].batches = journal'
                  /\ ~mailbox'[i].ok => faults' > 1
  <2>1. mailbox'[i] = e
    BY <1>2, <1>7
  <2>2. status' = status /\ pending' = pending
    OBVIOUS
  <2>3. e.type = "appended" =>
          /\ status = "committing"
          /\ \/ e.result = "committed" /\ e.revision = pending.next.revision
             \/ e.result = "indeterminate" /\ pending.attempts < faults'
    BY <1>1, <1>3
  <2> QED BY <1>4, <2>1, <2>2, <2>3
<1> QED BY <1>5, <1>7 DEF FaultsAreCounted

\* A session that one runtime works on, with storage that refuses and misreports nothing
\* and operations that report nothing they may not.
Undisturbed ==
  /\ MaxForeign = 0 /\ MaxRestores = 0
  /\ FaultKinds \cap {"reject", "badReceipt"} = {}
  /\ "unpermitted" \notin HostResults

\* The port keeps it undisturbed.
LEMMA PortHarmless ==
  ASSUME Undisturbed, Alone, Port
  PROVE  WritesAlone' /\ FaultsAreCounted' /\ SubmittedOnce'
<1>1. /\ mailbox \in Seq(Events) /\ faults \in Nat /\ SubmittedOnce /\ WritesAlone
      /\ FaultsAreCounted /\ ~Dead /\ pending \in Pending \cup {None}
      /\ pending = None <=> status \notin {"committing", "reconciling"}
  BY AloneParts DEF Alone, WriterTypeOK
<1>2. ASSUME NEW request, NEW result, NEW revision, Appended(request, result, revision)
      PROVE  /\ UNCHANGED <<status, durable, queue, pending, orphans>> /\ io' = None
             /\ LET e == [type |-> "appended", id |-> request.id, result |-> result,
                          revision |-> revision]
                IN mailbox' = Append(mailbox, e)
  BY <1>2 DEF Appended, Post, unposted, lostVars
<1>3. CASE PortAppends
  <2> DEFINE e == [type |-> "appended", id |-> io.request.id, result |-> AppendResult(io.request),
                   revision |-> ReceiptRevision(io.request)]
  <2>1. /\ UNCHANGED <<status, durable, queue, pending, orphans, faults>> /\ io' = None
        /\ Appending /\ Write(io.request) /\ mailbox' = Append(mailbox, e)
    BY <1>2, <1>3 DEF PortAppends
  <2>2. io # None /\ io.op = "append"
    BY <2>1 DEF Appending
  <2>3. /\ e.type = "appended" /\ e.result = "committed" /\ e.revision = pending.next.revision
        /\ WritesAlone'
    BY <2>1, AloneWrites
  <2> HIDE DEF e
  <2>4. FaultsAreCounted'
    BY <2>1, <2>2, <2>3, AloneAsks, ResultKeeps
  <2>5. SubmittedOnce'
    BY <1>1, <2>1, <2>3, SubmittedPosts
  <2> QED BY <2>3, <2>4, <2>5
<1>4. CASE PortLosesAck
  <2> DEFINE e == [type |-> "appended", id |-> io.request.id, result |-> "indeterminate",
                   revision |-> 0]
  <2>1. /\ UNCHANGED <<status, durable, queue, pending, orphans>> /\ io' = None
        /\ Appending /\ faults' = faults + 1 /\ mailbox' = Append(mailbox, e)
        /\ Write(io.request) \/ UNCHANGED journal
    BY <1>2, <1>4 DEF PortLosesAck, Fault
  <2>2. io # None /\ io.op = "append"
    BY <2>1 DEF Appending
  <2>3. e.type = "appended" /\ e.result = "indeterminate"
    OBVIOUS
  <2> HIDE DEF e
  <2>4. WritesAlone'
    <3>1. CASE UNCHANGED journal
      BY <1>1, <2>1, <3>1 DEF WritesAlone, Found, Batch
    <3> QED BY <2>1, <3>1, AloneWrites
  <2>5. FaultsAreCounted'
    BY <2>1, <2>2, <2>3, AloneAsks, ResultKeeps
  <2>6. SubmittedOnce'
    BY <1>1, <2>1, <2>3, SubmittedPosts
  <2> QED BY <2>4, <2>5, <2>6
<1>5. ~(PortRejects \/ PortMisreports \/ PortCancels)
  BY <1>1 DEF Undisturbed, PortRejects, PortMisreports, PortCancels, Fault
<1>6. CASE PortLoads
  <2>1. /\ UNCHANGED <<status, durable, queue, pending, orphans, journal>> /\ io' = None
        /\ io # None /\ io.op = "load"
    BY <1>6 DEF PortLoads, unposted, storeVars, lostVars
  <2>2. PICK e : /\ mailbox' = Append(mailbox, e) /\ e.type = "loaded"
                 /\ \/ e.ok /\ e.batches = journal /\ faults' = faults
                    \/ ~e.ok /\ faults' = faults + 1
    <3>1. CASE /\ Post([type |-> "loaded", id |-> io.id, ok |-> TRUE, batches |-> journal])
               /\ UNCHANGED faults
      BY <3>1 DEF Post
    <3>2. CASE /\ Fault("loadFails")
               /\ Post([type |-> "loaded", id |-> io.id, ok |-> FALSE, batches |-> << >>])
      BY <3>2 DEF Post, Fault
    <3> QED BY <1>6, <3>1, <3>2 DEF PortLoads
  <2>3. WritesAlone'
    BY <1>1, <2>1 DEF WritesAlone, Found, Batch
  <2>4. FaultsAreCounted'
    BY <2>1, <2>2, AloneAsks, ResultKeeps
  <2>5. SubmittedOnce'
    BY <1>1, <2>1, <2>2, SubmittedPosts
  <2> QED BY <2>3, <2>4, <2>5
<1>7. CASE PortStores
  <2>1. UNCHANGED <<status, durable, queue, pending, io, orphans, journal>>
    BY <1>7 DEF PortStores, unposted, lostVars
  <2>2. /\ \E e : mailbox' = Append(mailbox, e) /\ e.type = "stored"
        /\ faults' \in {faults, faults + 1}
    BY <1>7 DEF PortStores, Post, Fault
  <2> QED BY <1>1, <2>1, <2>2, PostsKeep, SubmittedPosts
<1> QED BY <1>3, <1>4, <1>5, <1>6, <1>7 DEF Port

\* So do clients, the host and the end of the opening sequence.
LEMMA OthersHarmless ==
  ASSUME Undisturbed, Alone, Client \/ Host \/ CreateDone \/ OrphanLands \/ UNCHANGED vars
  PROVE  WritesAlone' /\ FaultsAreCounted' /\ SubmittedOnce'
<1>1. /\ mailbox \in Seq(Events) /\ faults \in Nat /\ SubmittedOnce /\ WritesAlone
      /\ FaultsAreCounted /\ ~Dead /\ pending \in Pending \cup {None}
      /\ pending = None <=> status \notin {"committing", "reconciling"}
  BY AloneParts DEF Alone, WriterTypeOK
<1>2. ASSUME UNCHANGED <<status, durable, queue, pending, io, orphans, journal, faults>>,
             \/ mailbox' = mailbox
             \/ \E e : /\ mailbox' = Append(mailbox, e) /\ e.type \notin {"appended", "loaded"}
                       /\ e.type = "submit" => SubmitsOnce(e)
      PROVE  WritesAlone' /\ FaultsAreCounted' /\ SubmittedOnce'
  BY <1>1, <1>2, PostsKeep, SubmittedPosts
<1>3. CASE Client
  <2>1. UNCHANGED <<status, durable, queue, pending, io, orphans, journal, faults>>
    BY <1>3 DEF Client, SendUser, SendSystem, SendAbort, SendSelect, SendClose, SendRequest,
       unposted, sessionVars, storeVars, lostVars, budgetVars
  <2>2. \E e : /\ mailbox' = Append(mailbox, e) /\ e.type \notin {"appended", "loaded"}
               /\ e.type = "submit" => SubmitsOnce(e)
    <3> DEFINE Harmless(e) == /\ e.type \notin {"appended", "loaded"}
                              /\ e.type = "submit" => SubmitsOnce(e)
    <3>1. ASSUME NEW id \in Tracked, NEW input, SendRequest(id, Submit(id, input))
          PROVE  \E e : mailbox' = Append(mailbox, e) /\ Harmless(e)
      BY <3>1 DEF SendRequest, Post, Submit, SubmitsOnce
    <3>2. ASSUME NEW u \in Users, SendUser(u)
          PROVE  \E e : mailbox' = Append(mailbox, e) /\ Harmless(e)
      BY <3>1, <3>2, IdTypes DEF SendUser, Tracked
    <3>3. ASSUME NEW s \in Systems, SendSystem(s)
          PROVE  \E e : mailbox' = Append(mailbox, e) /\ Harmless(e)
      BY <3>1, <3>3, IdTypes DEF SendSystem, Tracked
    <3>4. ASSUME NEW a \in Aborts, SendAbort(a)
          PROVE  \E e : mailbox' = Append(mailbox, e) /\ Harmless(e)
      BY <3>1, <3>4, IdTypes DEF SendAbort, Tracked
    <3>5. ASSUME NEW c \in Selects, NEW patch \in Patches, SendSelect(c, patch)
          PROVE  \E e : mailbox' = Append(mailbox, e) /\ Harmless(e)
      BY <3>5 DEF SendSelect, SendRequest, Post
    <3>6. CASE SendClose
      BY <3>6 DEF SendClose, Post
    <3> QED BY <1>3, <3>2, <3>3, <3>4, <3>5, <3>6 DEF Client
  <2> QED BY <1>2, <2>1, <2>2
<1>4. CASE Host
  <2>1. PICK op \in running : \E r \in HostResults \cap ResultsOf(op.kind) : ChildSettles(op, r)
    BY <1>4 DEF Host
  <2>2. PICK r \in HostResults : ChildSettles(op, r)
    BY <2>1
  <2> DEFINE e == Submit(ChildId(op.turn, op.generation), ChildInput(op.turn, op.generation, r))
  <2>3. e.type = "submit" /\ SubmitsOnce(e)
    BY DEF Undisturbed, Submit, ChildInput, SubmitsOnce
  <2>4. /\ UNCHANGED <<status, durable, queue, pending, io, orphans, journal, faults>>
        /\ mailbox' = Append(mailbox, e)
    BY <2>2 DEF ChildSettles, Post, sessionVars, storeVars, lostVars, budgetVars
  <2> HIDE DEF e
  <2> QED BY <1>2, <2>3, <2>4
<1>5. CASE CreateDone
  BY <1>2, <1>5 DEF CreateDone, Opens, storeVars, lostVars, budgetVars
<1>6. CASE OrphanLands
  <2>1. journal' = journal /\ UNCHANGED <<orphans, faults>>
    BY <1>1, <1>6 DEF OrphanLands, WritesAlone, budgetVars
  <2>2. UNCHANGED <<status, durable, queue, pending, io, mailbox>>
    BY <1>6 DEF OrphanLands, NotWriter, writerVars, effectVars
  <2> QED BY <1>2, <2>1, <2>2
<1>7. CASE UNCHANGED vars
  <2>1. UNCHANGED <<status, durable, queue, pending, io, mailbox>>
    BY <1>7 DEF vars, writerVars, effectVars
  <2>2. UNCHANGED <<orphans, journal, faults>>
    BY <1>7 DEF vars, sessionVars, storeVars, lostVars, budgetVars
  <2> QED BY <1>2, <2>1, <2>2
<1> QED BY <1>3, <1>4, <1>5, <1>6, <1>7

\* A writer that was closed does not fail any more.
LEMMA ClosedStays ==
  ASSUME WriterTypeOK, status = "closed", Decide
  PROVE  status' = "closed"
<1>1. /\ Dead /\ status \notin {"ready", "committing", "reconciling"}
  BY DEF Dead
<1>2. CASE SubmitToDead \/ SelectToDead \/ DrainNothing \/ StorageIgnored
  BY <1>2 DEF SubmitToDead, SelectToDead, DrainNothing, StorageIgnored
<1>3. CASE Close
  BY <1>3 DEF Close, Stop
<1>4. ~(SubmitBusy \/ SubmitQueued \/ SubmitAdmitted \/ Select \/ Reselect \/ StoredCurrent
          \/ StoredSuperseded)
  BY <1>1 DEF SubmitBusy, SubmitQueued, SubmitAdmitted, Select, Reselect, StoredCurrent,
              StoredSuperseded
<1>5. ~(DrainSelection \/ DrainDequeue \/ DrainQueue)
  BY <1>1 DEF DrainSelection, DrainDequeue, DrainQueue, AtBoundary
<1>6. ~(AppendCommitted \/ AppendIndeterminate \/ AppendRefused \/ LoadedCommitted
          \/ LoadedAbsent \/ LoadedUnusable)
  BY <1>1 DEF AppendCommitted, AppendIndeterminate, AppendRefused, LoadedCommitted, LoadedAbsent,
              LoadedUnusable
<1> QED BY <1>2, <1>3, <1>4, <1>5, <1>6 DEF Decide

\* What the other theorems show of a session.
SessionInvs == StorageInv /\ AdmissionInv /\ QueueInv /\ ReceiptInv /\ OpeningInv

\* Every step of an undisturbed session keeps the invariant of its failures.
LEMMA HarmlessStep ==
  ASSUME Undisturbed, SessionInvs, HarmlessInv, [Next]_vars
  PROVE  HarmlessInv'
<1>1. /\ StorageInv /\ AdmissionInv /\ QueueIsOrdered /\ PlacesAreOwn /\ ReselectsAtOnce
      /\ DeadIsEmpty /\ WriterTypeOK /\ GoneIsQuiet /\ faults \in Nat /\ restores \in Nat
      /\ foreign \in Nat
  BY BoundsAssumption
     DEF SessionInvs, StorageInv, QueueInv, ReceiptInv, OpeningInv, TypeOK, WriterTypeOK
<1>2. /\ status = "failed" => faults > 1
      /\ ChildrenAreOver /\ phase \in {"creating", "open", "down"}
      /\ ~Dead => SubmittedOnce /\ WritesAlone /\ FaultsAreCounted
  BY DEF HarmlessInv, OneLostAckIsHarmless
<1>3. ~Dead => Alone
  BY <1>1, <1>2 DEF Alone, GoneIsQuiet
<1>4. ChildrenAreOver' /\ StorageInv'
  BY <1>1, <1>2, ChildrenStep, StorageStep
<1>5. \/ WriterDecides \/ Client \/ Host \/ Port \/ OrphanLands \/ CreateDone
      \/ CreateFailed \/ UNCHANGED vars
  <2>1. ~ForeignAppends /\ ~Crash /\ ~RestoreJournal
    BY <1>1 DEF Undisturbed, ForeignAppends, Crash, RestoreJournal
  <2>2. ~(RestoreConfig \/ RestoreRecovered \/ RestoreFailed \/ RestoreReselects \/ RestoreDone)
    BY <1>2 DEF RestoreConfig, RestoreRecovered, RestoreFailed, RestoreReselects, RestoreDone
  <2> QED BY <2>1, <2>2 DEF Next, World, Opening
<1>6. CASE WriterDecides
  <2>1. Decide /\ UNCHANGED <<phase, faults>>
    BY <1>6 DEF WriterDecides, budgetVars
  <2>2. Dead => Dead'
    BY <1>1, <2>1, DeadDecides
  <2>3. mailbox # << >>
    BY <1>1, <2>1, DecideConsumes
  <2>4. status' = "failed" => faults' > 1
    <3>1. CASE status = "failed"
      BY <1>2, <2>1, <3>1
    <3>2. CASE status = "closed"
      BY <1>1, <2>1, <3>2, ClosedStays
    <3>3. ASSUME ~Dead, status' = "failed"
          PROVE  faults > 1
      <4>1. /\ Alone
            /\ LoadedUnusable => faults > 1
            /\ AppendCommitted => Release
            /\ ~AppendRefused
        BY <1>3, <2>3, <3>3, AloneFails
      <4>2. ~(Leaves \/ StagesNew \/ Close \/ Release)
        BY <3>3 DEF Leaves, StagesNew, StageAppend, Close, Stop, Release, Dead
      <4>3. ~(AppendIndeterminate \/ LoadedCommitted \/ LoadedAbsent)
        BY <3>3 DEF AppendIndeterminate, LoadedCommitted, LoadedAbsent, Release
      <4> QED BY <2>1, <4>1, <4>2, <4>3, AloneDecides
    <3> QED BY <2>1, <3>1, <3>2, <3>3 DEF Dead
  <2>5. ASSUME ~Dead'
        PROVE  SubmittedOnce' /\ WritesAlone' /\ FaultsAreCounted'
    BY <1>1, <1>2, <1>3, <1>4, <1>6, <2>1, <2>2, <2>5, AloneKeeps, SubmittedKeeps
  <2>6. phase' \in {"creating", "open", "down"}
    BY <1>2, <2>1
  <2> QED BY <1>4, <2>4, <2>5, <2>6 DEF HarmlessInv, OneLostAckIsHarmless
<1>7. CASE Client \/ Host \/ Port \/ OrphanLands \/ CreateDone \/ UNCHANGED vars
  <2>1. status' = status
    BY <1>7
       DEF Client, SendUser, SendSystem, SendAbort, SendSelect, SendClose, SendRequest, Host,
           ChildSettles, Port, PortAppends, PortLosesAck, PortRejects, PortMisreports, PortCancels,
           PortLoads, PortStores, Appended, OrphanLands, NotWriter, CreateDone, Opens, unposted,
           vars, writerVars
  <2>2. phase' \in {phase, "open"}
    BY <1>7
       DEF Client, SendUser, SendSystem, SendAbort, SendSelect, SendClose, SendRequest, Host,
           ChildSettles, Port, PortAppends, PortLosesAck, PortRejects, PortMisreports, PortCancels,
           PortLoads, PortStores, Appended, OrphanLands, NotWriter, CreateDone, Opens,
           vars, sessionVars
  <2>3. faults' \in {faults, faults + 1}
    BY <1>7
       DEF Client, SendUser, SendSystem, SendAbort, SendSelect, SendClose, SendRequest, Host,
           ChildSettles, Port, PortAppends, PortLosesAck, PortRejects, PortMisreports, PortCancels,
           PortLoads, PortStores, Fault, OrphanLands, CreateDone, Opens,
           vars, sessionVars, budgetVars
  <2>4. ASSUME ~Dead'
        PROVE  SubmittedOnce' /\ WritesAlone' /\ FaultsAreCounted'
    BY <1>3, <1>7, <2>1, <2>4, PortHarmless, OthersHarmless DEF Dead
  <2>5. status' = "failed" => faults' > 1
    BY <1>1, <1>2, <2>1, <2>3
  <2>6. phase' \in {"creating", "open", "down"}
    BY <1>2, <2>2
  <2> QED BY <1>4, <2>4, <2>5, <2>6 DEF HarmlessInv, OneLostAckIsHarmless
<1>8. CASE CreateFailed
  <2>1. status' = "closed" /\ phase' = "down"
    BY <1>8 DEF CreateFailed, Vanish
  <2> QED BY <1>4, <2>1 DEF HarmlessInv, OneLostAckIsHarmless, Dead
<1> QED BY <1>5, <1>6, <1>7, <1>8

\* A session begins with the record of its creation to submit.
LEMMA HarmlessInit == Init => HarmlessInv
<1> SUFFICES ASSUME Init
             PROVE  HarmlessInv
  OBVIOUS
<1>1. /\ status = "ready" /\ phase = "creating" /\ journal = << >> /\ queue = << >>
      /\ pending = None /\ io = None /\ orphans = {} /\ durable = EmptyJournal
      /\ mailbox = <<Submit(CreateId, Created)>>
  BY DEF Init
<1>2. \A i \in DOMAIN mailbox : mailbox[i] = Submit(CreateId, Created)
  BY <1>1
<1>3. SubmittedOnce
  BY <1>1, <1>2 DEF SubmittedOnce, SubmitsOnce, Submit, Tracked
<1>4. WritesAlone
  BY <1>1 DEF WritesAlone, EmptyJournal
<1>5. FaultsAreCounted
  BY <1>1, <1>2 DEF FaultsAreCounted, StorageResults, Submit
<1>6. ChildrenAreOver /\ OneLostAckIsHarmless
  BY <1>1 DEF ChildrenAreOver, OneLostAckIsHarmless
<1> QED BY <1>1, <1>3, <1>4, <1>5, <1>6 DEF HarmlessInv

\* While no other process writes the journal, storage may lose one acknowledgement, of a
\* batch it stored or not, or fail one write of a configuration, and the session goes on: it
\* takes a second fault, of an append or of the load that reconciles the first, to fail it
\* (reconciliation and retry of session-fsm.ts).  Recovery submits under the ID it had before the restart, so this
\* is said of the first runtime of a session.
THEOREM OneFaultIsSurvived ==
  ASSUME MaxForeign = 0, MaxRestores = 0,
         FaultKinds \cap {"reject", "badReceipt"} = {},
         "unpermitted" \notin HostResults
  PROVE  Spec => []OneLostAckIsHarmless
<1>1. Undisturbed
  BY DEF Undisturbed
<1>2. Init => SessionInvs /\ HarmlessInv
  BY StorageInit, AdmissionInit, QueueInit, ReceiptInit, OpeningInit, HarmlessInit DEF SessionInvs
<1>3. SessionInvs /\ HarmlessInv /\ [Next]_vars => (SessionInvs /\ HarmlessInv)'
  <2> SUFFICES ASSUME SessionInvs, HarmlessInv, [Next]_vars
               PROVE  SessionInvs' /\ HarmlessInv'
    OBVIOUS
  <2>1. StorageInv' /\ QueueInv' /\ ReceiptInv' /\ OpeningInv'
    BY StorageStep, QueueStep, ReceiptStep, OpeningStep DEF SessionInvs
  <2>2. AdmissionInv'
    BY FitStep, IdsStep DEF SessionInvs, AdmissionInv, StorageInv
  <2>3. HarmlessInv'
    BY <1>1, HarmlessStep
  <2> QED BY <2>1, <2>2, <2>3 DEF SessionInvs
<1>4. HarmlessInv => OneLostAckIsHarmless
  BY DEF HarmlessInv
<1> QED BY <1>2, <1>3, <1>4, PTL DEF Spec

==============================================================================

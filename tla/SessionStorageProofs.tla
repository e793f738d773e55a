------------------------- MODULE SessionStorageProofs -------------------------
(***************************************************************************)
(* Type correctness and storage safety of a session, for every value of    *)
(* the constants: the stored journal folds, the writer works from a stored *)
(* prefix of it, and every batch is dispatched at most once, in order and  *)
(* after it is stored.  The argument is the inductive invariant            *)
(* StorageInv; the lemmas about the operators of Journal and SessionWriter *)
(* come first, on which this and the later proofs rest.                    *)
(***************************************************************************)
EXTENDS SessionInvariant, SequenceTheorems, TLAPS

-----------------------------------------------------------------------------
\* Staging

\* The fields an input has, by its kind.
LEMMA InputFields ==
  ASSUME NEW input \in Inputs
  PROVE  /\ input.kind \in {"created", "abort", "system", "user", "dequeued", "policy", "child",
                            "recovery"}
         /\ input.kind \in {"user", "dequeued"} => input.user \in Users
         /\ input.kind = "policy" => input.mode \in Mode
         /\ input.kind = "child" => input.result \in ChildResults
BY DEF Inputs, Created, AbortInput, SystemInput, UserInput, DequeuedInput, PolicyInput

\* Each field of the folded state can be set by itself.
LEMMA SetField ==
  ASSUME NEW j \in JournalState
  PROVE  /\ \A n \in Nat : [j EXCEPT !.revision = n] \in JournalState
         /\ \A n \in Nat : [j EXCEPT !.turn = n] \in JournalState
         /\ \A p \in Phases : [j EXCEPT !.phase = p] \in JournalState
         /\ \A n \in 0..Steps : [j EXCEPT !.left = n] \in JournalState
         /\ \A n \in Nat : [j EXCEPT !.generation = n] \in JournalState
         /\ \A s \in Seq(Users) : [j EXCEPT !.pendingInputs = s] \in JournalState
         /\ \A m \in Mode : [j EXCEPT !.mode = m] \in JournalState
<1>1. \A n \in Nat : [j EXCEPT !.revision = n] \in JournalState
  BY DEF JournalState
<1>2. \A n \in Nat : [j EXCEPT !.turn = n] \in JournalState
  BY DEF JournalState
<1>3. \A p \in Phases : [j EXCEPT !.phase = p] \in JournalState
  BY DEF JournalState
<1>4. \A n \in 0..Steps : [j EXCEPT !.left = n] \in JournalState
  BY DEF JournalState
<1>5. \A n \in Nat : [j EXCEPT !.generation = n] \in JournalState
  BY DEF JournalState
<1>6. \A s \in Seq(Users) : [j EXCEPT !.pendingInputs = s] \in JournalState
  BY DEF JournalState
<1>7. \A m \in Mode : [j EXCEPT !.mode = m] \in JournalState
  BY DEF JournalState
<1> QED BY <1>1, <1>2, <1>3, <1>4, <1>5, <1>6, <1>7

\* The types of the fields of a folded state.
LEMMA JournalFields ==
  ASSUME NEW j \in JournalState
  PROVE  /\ j.revision \in Nat /\ j.turn \in Nat /\ j.generation \in Nat
         /\ j.phase \in Phases /\ j.left \in 0..Steps /\ j.mode \in Mode
         /\ j.pendingInputs \in Seq(Users)
BY DEF JournalState

\* A journal begins in a state of its own.
LEMMA EmptyType == EmptyJournal \in JournalState
<1>1. Steps \in 0..Steps /\ FirstMode \in Mode /\ << >> \in Seq(Users)
  BY StepsAssumption, ModeAssumption
<1> QED BY <1>1 DEF EmptyJournal, JournalState, Phases

\* The turn machine stays within its states.
LEMMA TurnSteps ==
  ASSUME NEW j \in JournalState
  PROVE  /\ EndTurn(j) \in JournalState
         /\ \A p \in Phases : Run(j, p) \in JournalState
         /\ Prepare(j) \in JournalState
         /\ Abort(j) \in JournalState
         /\ \A r : Settle(j, r) \in JournalState
<1>1. EndTurn(j) \in JournalState
  <2>1. [j EXCEPT !.turn = @ + 1] \in JournalState
    BY DEF JournalState
  <2>2. [j EXCEPT !.turn = @ + 1, !.phase = "idle"] \in JournalState
    BY <2>1, SetField DEF Phases
  <2>3. [j EXCEPT !.turn = @ + 1, !.phase = "idle", !.left = Steps] \in JournalState
    <3>1. Steps \in 0..Steps
      BY StepsAssumption
    <3> QED BY <2>2, <3>1, SetField
  <2> QED BY <2>3, SetField DEF EndTurn
<1>2. ASSUME NEW k \in JournalState, NEW p \in Phases
      PROVE  Run(k, p) \in JournalState
  <2>1. [k EXCEPT !.phase = p] \in JournalState
    BY SetField
  <2>2. k.generation + 1 \in Nat
    BY JournalFields
  <2> QED BY <2>1, <2>2, SetField DEF Run
<1>3. Prepare(j) \in JournalState
  <2>1. CASE j.left = 0
    BY <1>1, <2>1 DEF Prepare
  <2>2. CASE j.left # 0
    <3>1. j.left - 1 \in 0..Steps
      BY <2>2, StepsAssumption, JournalFields
    <3>2. [j EXCEPT !.left = @ - 1] \in JournalState
      BY <3>1, SetField
    <3> QED BY <1>2, <2>2, <3>2 DEF Prepare, Phases
  <2> QED BY <2>1, <2>2
<1>4. Abort(j) \in JournalState
  BY <1>1 DEF Abort, JournalState, Phases
<1>5. \A r : Settle(j, r) \in JournalState
  BY <1>1, <1>2, <1>3 DEF Settle, Phases
<1> QED BY <1>1, <1>2, <1>3, <1>4, <1>5

\* Folding an input yields a state of the journal.
LEMMA FoldType ==
  ASSUME NEW j \in JournalState, NEW input \in Inputs,
         input.kind = "dequeued" => j.pendingInputs # << >>
  PROVE  Fold(j, input) \in JournalState
<1>1. CASE input.kind = "user"
  <2>1. Append(j.pendingInputs, input.user) \in Seq(Users)
    BY <1>1, InputFields, JournalFields
  <2>2. Queue(j, input.user) \in JournalState
    BY <2>1, SetField DEF Queue
  <2> QED BY <1>1, <2>2, TurnSteps DEF Fold
<1>2. CASE input.kind = "child"
  BY <1>2, TurnSteps DEF Fold
<1>3. CASE input.kind = "abort"
  BY <1>3, TurnSteps DEF Fold
<1>4. CASE input.kind = "policy"
  <2>1. [j EXCEPT !.mode = input.mode] \in JournalState
    BY <1>4, InputFields, SetField
  <2> QED BY <1>4, <2>1 DEF Fold
<1>5. CASE input.kind = "dequeued"
  <2>1. Tail(j.pendingInputs) \in Seq(Users)
    BY <1>5, JournalFields
  <2>2. [j EXCEPT !.pendingInputs = Tail(@)] \in JournalState
    BY <2>1, SetField
  <2> QED BY <1>5, <2>2, TurnSteps DEF Fold, Dequeue
<1>6. CASE input.kind = "recovery"
  <2>1. \A k \in JournalState : [k EXCEPT !.pendingInputs = << >>] \in JournalState
    BY SetField, EmptySeq
  <2> QED BY <1>6, <2>1, TurnSteps DEF Fold, Recover
<1>7. CASE input.kind \in {"created", "system"}
  BY <1>7 DEF Fold
<1> QED BY <1>1, <1>2, <1>3, <1>4, <1>5, <1>6, <1>7, InputFields

\* stage proposes a state of the journal, one revision further.
LEMMA StageType ==
  ASSUME NEW j \in JournalState, NEW input \in Inputs,
         input.kind = "dequeued" => j.pendingInputs # << >>
  PROVE  /\ Stage(j, input) \in JournalState
         /\ Stage(j, input).revision = j.revision + 1
<1>1. Fold(j, input) \in JournalState
  BY FoldType
<1>2. j.revision + 1 \in Nat
  BY JournalFields
<1> QED BY <1>1, <1>2, SetField DEF Stage, JournalState

-----------------------------------------------------------------------------
\* Identifiers, answers and settlement promises

\* The append IDs the session makes for itself, and those of its callers, are IDs.
LEMMA IdTypes ==
  /\ CreateId \in Ids
  /\ Requests \subseteq Ids
  /\ \A u \in Users : UserId(u) \in Requests /\ DequeueId(u) \in Ids
  /\ \A n \in Nat : RecoveryId(n) \in Ids /\ <<"reselect", n>> \in Ids /\ <<"foreign", n>> \in Ids
  /\ \A t, n \in Nat : ChildId(t, n) \in Ids
  /\ \A n \in Systems : <<"system", n>> \in Requests
  /\ \A n \in Aborts : <<"abort", n>> \in Requests
  /\ \A n \in Selects : <<"select", n>> \in Requests
BY DEF Ids, Requests, CreateId, UserId, DequeueId, RecoveryId, ChildId

\* Telling is a change of known answers to another.
LEMMA ToldType ==
  ASSUME NEW ids, NEW answer \in Answers, NEW known \in [Callers -> Answers]
  PROVE  Told(ids, answer, known) \in [Callers -> Answers]
BY DEF Told

\* The promises keep their type however a decision moves or settles them.
LEMMA WaitTypes ==
  ASSUME waits \in [Users -> [at : WaitStates, turn : Nat]]
  PROVE  /\ \A end \in {"failed", "closed"} :
              StopWaits(end) \in [Users -> [at : WaitStates, turn : Nat]]
         /\ \A id : RefuseWaits(id) \in [Users -> [at : WaitStates, turn : Nat]]
         /\ \A input : \A j, next \in JournalState :
              ReleaseWaits(input, j, next) \in [Users -> [at : WaitStates, turn : Nat]]
<1> DEFINE W == [at : WaitStates, turn : Nat]
<1>1. \A at \in WaitStates, t \in Nat : Waiting(at, t) \in W
  BY DEF Waiting
<1>2. \A end \in {"failed", "closed"} : StopWaits(end) \in [Users -> W]
  BY <1>1 DEF StopWaits, WaitStates
<1>3. \A id : RefuseWaits(id) \in [Users -> W]
  BY <1>1 DEF RefuseWaits, WaitStates
<1>4. ASSUME NEW input, NEW j \in JournalState, NEW next \in JournalState
      PROVE  ReleaseWaits(input, j, next) \in [Users -> W]
  <2>1. JoinedTurn(j, next) \in Nat /\ j.turn \in Nat
    BY JournalFields DEF JoinedTurn
  <2>2. /\ Waiting("turn", JoinedTurn(j, next)) \in W
        /\ Waiting("queued", 0) \in W
        /\ Waiting("terminal", j.turn) \in W
    BY <1>1, <2>1 DEF WaitStates, Unsettled
  <2> QED BY <2>2 DEF ReleaseWaits
<1> QED BY <1>2, <1>3, <1>4

-----------------------------------------------------------------------------
\* Events

\* The fields an event has, by its type.
LEMMA EventFields ==
  ASSUME NEW e \in Events
  PROVE  /\ e.type \in {"submit", "select", "reselect", "stored", "appended", "loaded"} =>
              e.id \in Ids
         /\ e.type = "submit" => e.input \in Inputs
         /\ e.type = "select" => e.patch \in Patches
         /\ e.type \in {"reselect", "stored"} => e.mode \in Mode
         /\ e.type = "stored" => e.ok \in BOOLEAN
         /\ e.type = "appended" => e.revision \in Nat
         /\ e.type = "loaded" => e.ok \in BOOLEAN /\ e.batches \in Seq(Batches)
BY DEF Events

\* What is left of a mailbox once an event is decided, and one more is posted.
LEMMA MailboxType ==
  ASSUME mailbox \in Seq(Events)
  PROVE  /\ mailbox # << >> => Event \in Events /\ Tail(mailbox) \in Seq(Events)
         /\ mailbox # << >> => Tail(mailbox) \o << >> \in Seq(Events)
         /\ mailbox # << >> => Tail(mailbox) \o <<Drain>> \in Seq(Events)
         /\ \A e \in Events : Append(mailbox, e) \in Seq(Events)
<1>1. << >> \in Seq(Events) /\ <<Drain>> \in Seq(Events)
  BY DEF Drain, Events
<1>2. mailbox # << >> => Event \in Events /\ Tail(mailbox) \in Seq(Events)
  BY DEF Event
<1>3. \A s, t \in Seq(Events) : s \o t \in Seq(Events)
  BY ConcatProperties
<1> QED BY <1>1, <1>2, <1>3

-----------------------------------------------------------------------------
\* Steps of the writer

\* A writer that stops, by close or failure, keeps the writer's type.
LEMMA StopType ==
  ASSUME WriterTypeOK, mailbox # << >>,
         NEW end \in {"failed", "closed"}, NEW also, Stop(end, also)
  PROVE  WriterTypeOK'
<1>1. LastAnswers(end, also) \in [Callers -> Answers]
  BY ToldType DEF LastAnswers, WriterTypeOK, Answers
<1>2. StopWaits(end) \in [Users -> [at : WaitStates, turn : Nat]]
  BY WaitTypes DEF WriterTypeOK
<1>3. Tail(mailbox) \o << >> \in Seq(Events)
  BY MailboxType DEF WriterTypeOK
<1>4. << >> \in Seq(Submission)
  OBVIOUS
<1> QED BY <1>1, <1>2, <1>3, <1>4 DEF Stop, WriterTypeOK, Consume

\* Staging an accepted submission leaves a well-formed append in flight.
LEMMA StageAppendType ==
  ASSUME WriterTypeOK, mailbox # << >>,
         NEW s \in Submission, NEW rest \in Seq(Submission),
         s.input.kind = "dequeued" => durable.pendingInputs # << >>,
         StageAppend(s, rest),
         selection' \in Selection \cup {None},
         remembered' \in BOOLEAN,
         answers' \in [Callers -> Answers],
         waits' = waits
  PROVE  WriterTypeOK'
<1> DEFINE next    == Stage(durable, s.input)
           request == [id |-> s.id, expected |-> durable.revision, input |-> s.input,
                       next |-> next]
           append  == [id |-> s.id, input |-> s.input, next |-> next,
                       expected |-> durable.revision, attempts |-> 0]
<1>1. s.id \in Ids /\ s.input \in Inputs
  BY DEF Submission
<1>2. next \in JournalState
  BY <1>1, StageType DEF WriterTypeOK
<1>3. durable.revision \in Nat
  BY JournalFields DEF WriterTypeOK
<1>4. append \in Pending
  BY <1>1, <1>2, <1>3 DEF Pending
<1>5. request \in Batches
  BY <1>1, <1>2, <1>3 DEF Batches
<1>6. [op |-> "append", request |-> request] \in StorageCall
  BY <1>5 DEF StorageCall
<1>7. Tail(mailbox) \o << >> \in Seq(Events)
  BY MailboxType DEF WriterTypeOK
<1>8. pending' = append /\ io' = [op |-> "append", request |-> request]
  BY DEF StageAppend
<1>9. append # None
  BY <1>4, NoneAssumption
<1> HIDE DEF next, request, append
<1> QED
  BY <1>4, <1>6, <1>7, <1>8, <1>9 DEF StageAppend, WriterTypeOK, Consume

\* A submission that reaches a ready writer keeps the writer's type, whether it is
\* staged, refused, or fails the session.
LEMMA AdmitType ==
  ASSUME WriterTypeOK, mailbox # << >>,
         NEW s \in Submission, NEW rest \in Seq(Submission),
         NEW again \in {<< >>, <<Drain>>}, Admit(s, rest, again)
  PROVE  WriterTypeOK'
<1>1. CASE /\ Refusal(s) = "none"
           /\ StageAppend(s, rest)
           /\ UNCHANGED <<selection, remembered, answers, waits>>
  <2>1. s.input.kind = "dequeued" => durable.pendingInputs # << >>
    <3>1. Stageable(durable, s.input)
      BY <1>1 DEF Refusal
    <3> QED BY <3>1 DEF Stageable, DequeueStageable
  <2> QED BY <1>1, <2>1, StageAppendType DEF WriterTypeOK
<1>2. CASE Stop("failed", {s.id})
  BY <1>2, StopType
<1>3. CASE /\ Refusal(s) # "none"
           /\ answers' = Told({s.id}, Refusal(s), answers)
           /\ waits' = RefuseWaits(s.id)
           /\ queue' = rest
           /\ Consume(again)
           /\ UNCHANGED <<status, durable, pending, selection, io, storing, running, remembered,
                          released>>
  <2>1. Refusal(s) \in Answers
    BY DEF Refusal, Answers
  <2>2. answers' \in [Callers -> Answers]
    BY <1>3, <2>1, ToldType DEF WriterTypeOK
  <2>3. waits' \in [Users -> [at : WaitStates, turn : Nat]]
    BY <1>3, WaitTypes DEF WriterTypeOK
  <2>4. mailbox' \in Seq(Events)
    BY <1>3, MailboxType DEF WriterTypeOK, Consume
  <2> QED BY <1>3, <2>2, <2>3, <2>4 DEF WriterTypeOK
<1> QED BY <1>1, <1>2, <1>3 DEF Admit

\* So does every decision about a submission (submit of decideSession).
LEMMA SubmitTypes ==
  ASSUME WriterTypeOK, SubmitToDead \/ SubmitBusy \/ SubmitQueued \/ SubmitAdmitted
  PROVE  WriterTypeOK'
<1>1. mailbox # << >> /\ Event \in Events /\ Event.type = "submit"
  BY MailboxType
     DEF WriterTypeOK, SubmitToDead, SubmitBusy, SubmitQueued, SubmitAdmitted, Deciding, Event
<1>2. Event.id \in Ids /\ Event.input \in Inputs
  BY <1>1, EventFields
<1>3. [id |-> Event.id, input |-> Event.input] \in Submission
  BY <1>2 DEF Submission
<1>4. Tail(mailbox) \o << >> \in Seq(Events) /\ Tail(mailbox) \o <<Drain>> \in Seq(Events)
  BY <1>1, MailboxType DEF WriterTypeOK
<1>5. CASE SubmitToDead
  <2>1. Told({Event.id}, status, answers) \in [Callers -> Answers]
    BY <1>5, ToldType DEF SubmitToDead, Dead, WriterTypeOK, Answers
  <2>2. RefuseWaits(Event.id) \in [Users -> [at : WaitStates, turn : Nat]]
    BY WaitTypes DEF WriterTypeOK
  <2> QED BY <1>4, <1>5, <2>1, <2>2 DEF SubmitToDead, WriterTypeOK, Consume
<1>6. CASE SubmitBusy
  <2>1. Told({Event.id}, "busy", answers) \in [Callers -> Answers]
    BY ToldType DEF WriterTypeOK, Answers
  <2> QED BY <1>4, <1>6, <2>1 DEF SubmitBusy, WriterTypeOK, Consume
<1>7. CASE SubmitQueued
  <2>1. Append(queue, [id |-> Event.id, input |-> Event.input]) \in Seq(Submission)
    BY <1>3 DEF WriterTypeOK
  <2>2. mailbox' \in Seq(Events)
    BY <1>4, <1>7 DEF SubmitQueued, Consume
  <2> QED BY <1>7, <2>1, <2>2 DEF SubmitQueued, WriterTypeOK, effectVars
<1>8. CASE SubmitAdmitted
  <2>1. << >> \in Seq(Submission)
    OBVIOUS
  <2> QED BY <1>1, <1>3, <1>8, <2>1, AdmitType DEF SubmitAdmitted
<1> QED BY <1>5, <1>6, <1>7, <1>8

\* Applying a selection, or keeping it for the boundary.
LEMMA SelectionTypes ==
  ASSUME WriterTypeOK, mailbox # << >>,
         NEW sel \in Selection, NEW known \in [Callers -> Answers],
         ApplySelection(sel, known) \/ SettleStored(sel, known)
  PROVE  WriterTypeOK'
<1>1. sel.id \in Ids /\ sel.mode \in Mode /\ sel.stored \in BOOLEAN /\ sel.revokes \in BOOLEAN
  BY DEF Selection
<1>2. Tail(mailbox) \o << >> \in Seq(Events) /\ Tail(mailbox) \o <<Drain>> \in Seq(Events)
  BY MailboxType DEF WriterTypeOK
<1>3. \A a \in {"ignored", "selected"} : Told({sel.id}, a, known) \in [Callers -> Answers]
  BY ToldType DEF Answers
<1>4. CASE ApplySelection(sel, known)
  <2>1. CASE /\ selection' = sel
             /\ answers' = known
             /\ Consume(<< >>)
             /\ UNCHANGED <<status, durable, queue, pending, io, storing, running, remembered,
                            waits, released>>
    BY <1>2, <2>1 DEF WriterTypeOK, Consume
  <2>2. CASE /\ selection' = None
             /\ answers' = Told({sel.id}, "ignored", known)
             /\ remembered' = (remembered /\ ~sel.revokes)
             /\ Consume(<<Drain>>)
             /\ UNCHANGED <<status, durable, queue, pending, io, storing, running, waits,
                            released>>
    BY <1>2, <1>3, <2>2 DEF WriterTypeOK, Consume
  <2>3. CASE /\ selection' = None
             /\ answers' = known
             /\ remembered' = (remembered /\ ~(sel.revokes /\ sel.mode.perm = durable.mode.perm))
             /\ StageAppend([id |-> sel.id, input |-> PolicyInput(sel.mode)], queue)
             /\ UNCHANGED waits
    <3> DEFINE s == [id |-> sel.id, input |-> PolicyInput(sel.mode)]
    <3>1. PolicyInput(sel.mode) \in Inputs /\ PolicyInput(sel.mode).kind = "policy"
      BY <1>1 DEF Inputs, PolicyInput
    <3>2. s \in Submission /\ s.input.kind # "dequeued"
      BY <1>1, <3>1 DEF Submission
    <3>3. remembered' \in BOOLEAN
      BY <2>3
    <3>4. queue \in Seq(Submission)
      BY DEF WriterTypeOK
    <3> HIDE DEF s
    <3>5. StageAppend(s, queue)
      BY <2>3 DEF s
    <3> QED BY <2>3, <3>2, <3>3, <3>4, <3>5, StageAppendType
  <2> QED BY <1>4, <2>1, <2>2, <2>3 DEF ApplySelection
<1>5. CASE SettleStored(sel, known) /\ ~ApplySelection(sel, known)
  BY <1>2, <1>3, <1>5 DEF SettleStored, WriterTypeOK, Consume
<1> QED BY <1>4, <1>5

\* The selection that replaces the pending one is a selection, and so is its fallback.
LEMMA SelectedType ==
  ASSUME WriterTypeOK, NEW id \in Ids, NEW mode \in Mode, NEW stored \in BOOLEAN
  PROVE  Selected(id, mode, stored) \in Selection
<1>1. Revokes \in BOOLEAN
  BY DEF Revokes, WriterTypeOK, Selection
<1>2. selection # None =>
        /\ [id |-> selection.id, mode |-> selection.mode, revokes |-> selection.revokes]
             \in Fallback
        /\ selection.fallback \in Fallback \cup {None}
  BY DEF WriterTypeOK, Selection, Fallback
<1> QED BY <1>1, <1>2 DEF Selected, Selection

\* Decisions about a new selection keep the writer's type (select, reselect).
LEMMA SelectTypes ==
  ASSUME WriterTypeOK, SelectToDead \/ Select \/ Reselect
  PROVE  WriterTypeOK'
<1>1. mailbox # << >> /\ Event \in Events
  BY MailboxType DEF WriterTypeOK, SelectToDead, Select, Reselect, Deciding
<1>2. Tail(mailbox) \o << >> \in Seq(Events)
  BY <1>1, MailboxType DEF WriterTypeOK
<1>3. Superseded \in [Callers -> Answers]
  BY ToldType DEF Superseded, WriterTypeOK, Answers
<1>4. CASE SelectToDead
  <2>1. Told({Event.id}, status, answers) \in [Callers -> Answers]
    BY <1>4, ToldType DEF SelectToDead, Dead, WriterTypeOK, Answers
  <2> QED BY <1>2, <1>4, <2>1 DEF SelectToDead, WriterTypeOK, Consume
<1>5. CASE Select
  <2> DEFINE base == IF selection # None THEN selection.mode ELSE NextMode
             mode == PatchMode(base, Event.patch)
  <2>1. Event.id \in Ids /\ Event.patch \in Patches
    BY <1>1, <1>5, EventFields DEF Select, Deciding, Event
  <2>2. NextMode \in Mode
    BY InputFields, JournalFields DEF NextMode, WriterTypeOK, Pending
  <2>3. base \in Mode
    BY <2>2 DEF WriterTypeOK, Selection
  <2>4. mode \in Mode
    BY <2>1, <2>3, PatchAssumption DEF PatchMode, Mode
  <2>5. Selected(Event.id, mode, FALSE) \in Selection
    BY <2>1, <2>4, SelectedType
  <2>6. Append(storing, [id |-> Event.id, mode |-> mode]) \in Seq([id : Ids, mode : Mode])
    BY <2>1, <2>4 DEF WriterTypeOK
  <2>7. /\ selection' = Selected(Event.id, mode, FALSE)
        /\ storing' = Append(storing, [id |-> Event.id, mode |-> mode])
    BY <1>5 DEF Select
  <2> HIDE DEF mode
  <2> QED BY <1>2, <1>3, <1>5, <2>5, <2>6, <2>7 DEF Select, WriterTypeOK, Consume
<1>6. CASE Reselect
  <2>1. Event.id \in Ids /\ Event.mode \in Mode
    BY <1>1, <1>6, EventFields DEF Reselect, Deciding, Event
  <2>2. Selected(Event.id, Event.mode, TRUE) \in Selection
    BY <2>1, SelectedType
  <2> QED BY <1>1, <1>3, <1>6, <2>2, SelectionTypes DEF Reselect
<1> QED BY <1>4, <1>5, <1>6

\* So do those about a settled write of one (stored).
LEMMA StoredTypes ==
  ASSUME WriterTypeOK, StoredCurrent \/ StoredSuperseded
  PROVE  WriterTypeOK'
<1>1. /\ mailbox # << >> /\ Event \in Events
      /\ Event.id \in Ids /\ Event.mode \in Mode /\ Event.ok \in BOOLEAN
  BY MailboxType, EventFields
     DEF WriterTypeOK, StoredCurrent, StoredSuperseded, Deciding, Event
<1>2. Tail(mailbox) \o << >> \in Seq(Events) /\ Tail(mailbox) \o <<Drain>> \in Seq(Events)
  BY <1>1, MailboxType DEF WriterTypeOK
<1>3. \A a \in {"refused", "selected"} : Told({Event.id}, a, answers) \in [Callers -> Answers]
  BY ToldType DEF WriterTypeOK, Answers
<1>4. CASE StoredCurrent
  <2>1. selection \in Selection
    BY <1>4 DEF StoredCurrent, WriterTypeOK
  <2>2. [selection EXCEPT !.stored = TRUE] \in Selection
    BY <2>1 DEF Selection
  <2>3. CASE Event.ok
    BY <1>1, <1>4, <2>2, <2>3, SelectionTypes DEF StoredCurrent, WriterTypeOK
  <2>4. CASE ~Event.ok /\ selection.fallback # None
    <3> DEFINE sel == [id |-> selection.fallback.id, mode |-> selection.fallback.mode,
                       stored |-> TRUE, revokes |-> selection.fallback.revokes,
                       fallback |-> None]
    <3>1. selection.fallback \in Fallback
      BY <2>1, <2>4 DEF Selection
    <3>2. sel \in Selection
      BY <3>1 DEF Fallback, Selection
    <3>3. SettleStored(sel, Told({Event.id}, "refused", answers))
      BY <1>4, <2>4 DEF StoredCurrent
    <3> HIDE DEF sel
    <3> QED BY <1>1, <1>3, <3>2, <3>3, SelectionTypes
  <2>5. CASE ~Event.ok /\ selection.fallback = None
    BY <1>2, <1>3, <1>4, <2>5 DEF StoredCurrent, WriterTypeOK, Consume
  <2> QED BY <2>3, <2>4, <2>5
<1>5. CASE StoredSuperseded
  <2> DEFINE fallback == [id |-> Event.id, mode |-> Event.mode, revokes |-> selection.revokes]
  <2>1. ASSUME selection # None
        PROVE  [selection EXCEPT !.fallback = fallback] \in Selection
    <3>1. selection \in Selection
      BY <2>1 DEF WriterTypeOK
    <3>2. fallback \in Fallback
      BY <1>1, <3>1 DEF Selection, Fallback
    <3> QED BY <3>1, <3>2 DEF Selection
  <2>2. selection' \in Selection \cup {None}
    BY <1>5, <2>1 DEF StoredSuperseded, WriterTypeOK
  <2>3. answers' \in [Callers -> Answers]
    BY <1>1, <1>3, <1>5 DEF StoredSuperseded
  <2> QED BY <1>2, <1>5, <2>2, <2>3 DEF StoredSuperseded, WriterTypeOK, Consume
<1> QED BY <1>4, <1>5

\* Draining keeps the writer's type, whichever of the three it stages.
LEMMA DrainTypes ==
  ASSUME WriterTypeOK, DrainSelection \/ DrainDequeue \/ DrainQueue \/ DrainNothing
  PROVE  WriterTypeOK'
<1>1. mailbox # << >>
  BY DEF DrainSelection, DrainDequeue, DrainQueue, DrainNothing, Deciding
<1>2. CASE DrainSelection
  BY <1>1, <1>2, SelectionTypes DEF DrainSelection, AtBoundary, WriterTypeOK
<1>3. CASE DrainDequeue
  <2> DEFINE u == Head(durable.pendingInputs)
             s == [id |-> DequeueId(u), input |-> DequeuedInput(u)]
  <2>1. u \in Users
    BY <1>3, JournalFields DEF DrainDequeue, DequeueDue, WriterTypeOK
  <2>2. DequeueId(u) \in Ids
    BY <2>1, IdTypes
  <2>3. DequeuedInput(u) \in Inputs
    BY <2>1 DEF Inputs
  <2>4. s \in Submission
    BY <2>2, <2>3 DEF Submission
  <2>5. Admit(s, queue, << >>)
    BY <1>3 DEF DrainDequeue
  <2>6. queue \in Seq(Submission)
    BY DEF WriterTypeOK
  <2> HIDE DEF s
  <2> QED BY <1>1, <2>4, <2>5, <2>6, AdmitType
<1>4. CASE DrainQueue
  <2>1. Head(queue) \in Submission /\ Tail(queue) \in Seq(Submission)
    BY <1>4 DEF DrainQueue, WriterTypeOK
  <2> QED BY <1>1, <1>4, <2>1, AdmitType DEF DrainQueue
<1>5. CASE DrainNothing
  BY <1>1, <1>5, MailboxType DEF DrainNothing, WriterTypeOK, Consume, effectVars
<1> QED BY <1>2, <1>3, <1>4, <1>5

\* Releasing a committed batch keeps the writer's type.
LEMMA ReleaseType ==
  ASSUME WriterTypeOK, mailbox # << >>, pending # None, Release
  PROVE  WriterTypeOK'
<1>1. pending.id \in Ids /\ pending.next \in JournalState
  BY DEF WriterTypeOK, Pending
<1>2. running' \subseteq [turn : Nat, generation : Nat, kind : Phases \ {"idle"}]
  <2>1. Starts(durable, pending.next) =>
          Operation(pending.next) \in [turn : Nat, generation : Nat, kind : Phases \ {"idle"}]
    BY <1>1, JournalFields DEF Starts, Active, Operation
  <2> QED BY <2>1 DEF Release, WriterTypeOK
<1>3. remembered' \in BOOLEAN
  BY DEF Release, Remembers, WriterTypeOK
<1>4. answers' \in [Callers -> Answers]
  BY ToldType DEF Release, ReleaseAnswers, WriterTypeOK, Answers
<1>5. waits' \in [Users -> [at : WaitStates, turn : Nat]]
  <2>1. waits \in [Users -> [at : WaitStates, turn : Nat]] /\ durable \in JournalState
    BY DEF WriterTypeOK
  <2>2. waits' = ReleaseWaits(pending.input, durable, pending.next)
    BY DEF Release
  <2> QED BY <1>1, <2>1, <2>2, WaitTypes
<1>6. released' \in Seq(Ids)
  <2>1. released \in Seq(Ids)
    BY DEF WriterTypeOK
  <2>2. released' = Append(released, pending.id)
    BY DEF Release
  <2> QED BY <1>1, <2>1, <2>2
<1>7. mailbox' \in Seq(Events)
  BY MailboxType DEF Release, ReleaseSends, Consume, WriterTypeOK
<1> QED
  BY <1>1, <1>2, <1>3, <1>4, <1>5, <1>6, <1>7 DEF Release, WriterTypeOK

\* Decisions about results of storage keep the writer's type; the retry of an append
\* needs that it was tried once (appended, loaded).
LEMMA StorageTypes ==
  ASSUME WriterTypeOK,
         \/ AppendCommitted \/ AppendIndeterminate \/ AppendRefused
         \/ LoadedCommitted \/ LoadedAbsent \/ LoadedUnusable \/ StorageIgnored
  PROVE  WriterTypeOK'
<1>1. mailbox # << >> /\ Event \in Events
  BY MailboxType
     DEF WriterTypeOK, AppendCommitted, AppendIndeterminate, AppendRefused, LoadedCommitted,
         LoadedAbsent, LoadedUnusable, StorageIgnored, Deciding
<1>2. Tail(mailbox) \o << >> \in Seq(Events)
  BY <1>1, MailboxType DEF WriterTypeOK
<1>3. CASE AppendCommitted
  <2>1. CASE Release
    BY <1>1, <1>3, <2>1, ReleaseType DEF AppendCommitted, InFlight
  <2>2. CASE Stop("failed", {})
    BY <1>1, <2>2, StopType
  <2> QED BY <1>3, <2>1, <2>2 DEF AppendCommitted
<1>4. CASE LoadedCommitted
  BY <1>1, <1>4, ReleaseType DEF LoadedCommitted, InFlight
<1>5. CASE AppendRefused \/ LoadedUnusable
  BY <1>1, <1>5, StopType DEF AppendRefused, LoadedUnusable
<1>6. CASE AppendIndeterminate
  <2>1. Event.id \in Ids
    BY <1>1, <1>6, EventFields DEF AppendIndeterminate, Deciding, Event
  <2>2. [op |-> "load", id |-> Event.id] \in StorageCall
    BY <2>1 DEF StorageCall
  <2>3. pending # None
    BY <1>6 DEF AppendIndeterminate, InFlight
  <2> QED BY <1>2, <1>6, <2>2, <2>3 DEF AppendIndeterminate, WriterTypeOK, Consume
<1>7. CASE LoadedAbsent
  <2> DEFINE request == [id |-> pending.id, expected |-> pending.expected,
                         input |-> pending.input, next |-> pending.next]
  <2>1. pending \in Pending /\ pending.attempts = 0
    BY <1>7 DEF LoadedAbsent, Retryable, InFlight, WriterTypeOK
  <2>2. request \in Batches
    BY <2>1 DEF Pending, Batches
  <2>3. io' \in StorageCall
    BY <1>7, <2>2 DEF LoadedAbsent, StorageCall
  <2>4. pending' \in Pending
    <3>1. [pending EXCEPT !.attempts = 1] \in Pending
      BY <2>1 DEF Pending
    <3>2. pending' = [pending EXCEPT !.attempts = 1]
      BY <1>7, <2>1 DEF LoadedAbsent
    <3> QED BY <3>1, <3>2
  <2>5. pending' # None
    BY <2>4, NoneAssumption
  <2>6. status' = "committing" /\ mailbox' \in Seq(Events)
    BY <1>2, <1>7 DEF LoadedAbsent, Consume
  <2> QED BY <1>7, <2>3, <2>4, <2>5, <2>6 DEF LoadedAbsent, WriterTypeOK
<1>8. CASE StorageIgnored
  BY <1>2, <1>8 DEF StorageIgnored, WriterTypeOK, Consume, effectVars
<1> QED BY <1>3, <1>4, <1>5, <1>6, <1>7, <1>8

\* Every decision of the session actor keeps the writer's type.
LEMMA DecideType == WriterTypeOK /\ Decide => WriterTypeOK'
<1> SUFFICES ASSUME WriterTypeOK, Decide
             PROVE  WriterTypeOK'
  OBVIOUS
<1>1. CASE Close
  BY <1>1, StopType DEF Close, Deciding
<1> QED
  BY <1>1, SubmitTypes, SelectTypes, StoredTypes, DrainTypes, StorageTypes DEF Decide

-----------------------------------------------------------------------------
\* Steps of the session around the writer

\* A session about to be created has its type.
LEMMA InitType == Init => TypeOK
<1> SUFFICES ASSUME Init
             PROVE  TypeOK
  OBVIOUS
<1>1. EmptyJournal \in JournalState
  BY EmptyType
<1>2. mailbox \in Seq(Events)
  <2>1. Created \in Inputs /\ CreateId \in Ids
    BY IdTypes DEF Inputs
  <2>2. Submit(CreateId, Created) \in Events
    BY <2>1 DEF Submit, Events
  <2> QED BY <2>2 DEF Init
<1>3. waits \in [Users -> [at : WaitStates, turn : Nat]]
  BY DEF Init, Waiting, WaitStates
<1>4. answers \in [Callers -> Answers]
  BY DEF Init, Answers
<1>5. WriterTypeOK
  <2>1. /\ << >> \in Seq(Submission) /\ << >> \in Seq([id : Ids, mode : Mode])
        /\ << >> \in Seq(Ids)
    OBVIOUS
  <2> QED BY <1>1, <1>2, <1>3, <1>4, <2>1 DEF Init, WriterTypeOK
<1>6. journal \in Seq(Batches) /\ orphanPuts \in Seq(Mode)
  BY DEF Init
<1>7. restores \in 0..MaxRestores /\ faults \in 0..MaxFaults /\ foreign \in 0..MaxForeign
  BY BoundsAssumption DEF Init
<1>8. phase \in AllPhases
  BY DEF Init, AllPhases, OpenPhases
<1> QED BY <1>5, <1>6, <1>7, <1>8 DEF Init, TypeOK

\* Requests of clients keep the type.
LEMMA ClientTypes == TypeOK /\ Client => TypeOK'
<1> SUFFICES ASSUME TypeOK, Client
             PROVE  TypeOK'
  OBVIOUS
<1>1. mailbox \in Seq(Events) /\ sent \subseteq Requests
  BY DEF TypeOK, WriterTypeOK
<1>2. ASSUME NEW id \in Requests, NEW event \in Events, SendRequest(id, event),
             waits' \in [Users -> [at : WaitStates, turn : Nat]]
      PROVE  TypeOK'
  <2>1. mailbox' \in Seq(Events)
    BY <1>1, <1>2, MailboxType DEF SendRequest, Post
  <2>2. sent' \subseteq Requests
    BY <1>1, <1>2 DEF SendRequest
  <2>3. WriterTypeOK'
    BY <1>2, <2>1 DEF SendRequest, TypeOK, WriterTypeOK
  <2> QED
    BY <1>2, <2>2, <2>3
       DEF SendRequest, TypeOK, storeVars, lostVars, budgetVars, historyVars
<1>3. waits \in [Users -> [at : WaitStates, turn : Nat]]
  BY DEF TypeOK, WriterTypeOK
<1>4. ASSUME NEW u \in Users, SendUser(u)
      PROVE  TypeOK'
  <2>1. UserInput(u) \in Inputs /\ UserId(u) \in Ids /\ UserId(u) \in Requests
    BY IdTypes DEF Inputs
  <2>2. Submit(UserId(u), UserInput(u)) \in Events
    BY <2>1 DEF Submit, Events
  <2>3. Waiting("admission", 0) \in [at : WaitStates, turn : Nat]
    BY DEF Waiting, WaitStates, Unsettled
  <2>4. waits' \in [Users -> [at : WaitStates, turn : Nat]]
    BY <1>3, <1>4, <2>3 DEF SendUser
  <2> QED BY <1>2, <1>4, <2>1, <2>2, <2>4 DEF SendUser
<1>5. ASSUME NEW s \in Systems, SendSystem(s)
      PROVE  TypeOK'
  <2>1. SystemInput \in Inputs /\ <<"system", s>> \in Ids /\ <<"system", s>> \in Requests
    BY IdTypes DEF Inputs
  <2>2. Submit(<<"system", s>>, SystemInput) \in Events
    BY <2>1 DEF Submit, Events
  <2> QED BY <1>2, <1>3, <1>5, <2>1, <2>2 DEF SendSystem
<1>6. ASSUME NEW a \in Aborts, SendAbort(a)
      PROVE  TypeOK'
  <2>1. AbortInput \in Inputs /\ <<"abort", a>> \in Ids /\ <<"abort", a>> \in Requests
    BY IdTypes DEF Inputs
  <2>2. Submit(<<"abort", a>>, AbortInput) \in Events
    BY <2>1 DEF Submit, Events
  <2> QED BY <1>2, <1>3, <1>6, <2>1, <2>2 DEF SendAbort
<1>7. ASSUME NEW c \in Selects, NEW patch \in Patches, SendSelect(c, patch)
      PROVE  TypeOK'
  <2>1. <<"select", c>> \in Ids /\ <<"select", c>> \in Requests
    BY IdTypes
  <2>2. [type |-> "select", id |-> <<"select", c>>, patch |-> patch] \in Events
    BY <2>1 DEF Events
  <2> QED BY <1>2, <1>3, <1>7, <2>1, <2>2 DEF SendSelect
<1>8. ASSUME SendClose
      PROVE  TypeOK'
  <2>1. [type |-> "close"] \in Events
    BY DEF Events
  <2>2. mailbox' \in Seq(Events)
    BY <1>1, <1>8, <2>1, MailboxType DEF SendClose, Post
  <2> QED
    BY <1>8, <2>2
       DEF SendClose, TypeOK, WriterTypeOK, unposted, sessionVars, storeVars, lostVars,
           budgetVars, historyVars
<1> QED BY <1>4, <1>5, <1>6, <1>7, <1>8 DEF Client

\* The report of an operation keeps the type: it is the event of a turn and generation.
LEMMA HostTypes == TypeOK /\ Host => TypeOK'
<1> SUFFICES ASSUME TypeOK,
                    NEW op \in running, NEW r \in HostResults, ChildSettles(op, r)
             PROVE  TypeOK'
  BY DEF Host
<1>1. op.turn \in Nat /\ op.generation \in Nat
  BY DEF TypeOK, WriterTypeOK
<1>2. ChildInput(op.turn, op.generation, r) \in Inputs
  BY <1>1, BoundsAssumption DEF ChildInput, Inputs
<1>3. ChildId(op.turn, op.generation) \in Ids
  BY <1>1, IdTypes
<1>4. Submit(ChildId(op.turn, op.generation), ChildInput(op.turn, op.generation, r)) \in Events
  BY <1>2, <1>3 DEF Submit, Events
<1>5. mailbox' \in Seq(Events)
  BY <1>4, MailboxType DEF ChildSettles, Post, TypeOK, WriterTypeOK
<1> QED
  BY <1>5 DEF ChildSettles, TypeOK, WriterTypeOK, sessionVars, storeVars, lostVars, budgetVars,
              historyVars

\* The batch a request writes, and the answers of the port to it.
LEMMA WriteType ==
  ASSUME journal \in Seq(Batches), NEW request \in Batches, Write(request)
  PROVE  journal' \in Seq(Batches)
<1>1. Batch(request) \in Batches
  BY DEF Batch, Batches
<1> QED BY <1>1 DEF Write

\* Every answer of the persistence port, faults included, keeps the type.
LEMMA PortTypes == TypeOK /\ Port => TypeOK'
<1> SUFFICES ASSUME TypeOK, Port
             PROVE  TypeOK'
  OBVIOUS
<1>1. /\ journal \in Seq(Batches) /\ mailbox \in Seq(Events) /\ faults \in 0..MaxFaults
      /\ Len(journal) \in Nat
  BY DEF TypeOK, WriterTypeOK
<1>2. Appending => io.request \in Batches /\ io.request.id \in Ids
  BY DEF TypeOK, WriterTypeOK, StorageCall, Appending, Batches
<1>3. ASSUME NEW kind, Fault(kind)
      PROVE  faults' \in 0..MaxFaults
  BY <1>1, <1>3, BoundsAssumption DEF Fault
<1>4. ASSUME Appending, NEW result \in {"committed", "indeterminate", "conflict", "rejected"},
             NEW revision \in Nat, Appended(io.request, result, revision),
             journal' \in Seq(Batches), faults' \in 0..MaxFaults
      PROVE  TypeOK'
  <2>1. [type |-> "appended", id |-> io.request.id, result |-> result, revision |-> revision]
          \in Events
    BY <1>2, <1>4 DEF Events
  <2>2. mailbox' \in Seq(Events)
    BY <1>1, <1>4, <2>1, MailboxType DEF Appended, Post
  <2>3. WriterTypeOK'
    BY <1>4, <2>2 DEF Appended, TypeOK, WriterTypeOK, unposted
  <2> QED BY <1>4, <2>3 DEF Appended, TypeOK, lostVars, historyVars
<1>5. CASE PortAppends
  <2>1. AppendResult(io.request) \in {"committed", "indeterminate", "conflict", "rejected"}
    BY DEF AppendResult
  <2>2. ReceiptRevision(io.request) \in Nat
    BY <1>1 DEF ReceiptRevision, Found
  <2> QED BY <1>1, <1>2, <1>4, <1>5, <2>1, <2>2, WriteType DEF PortAppends
<1>6. CASE PortLosesAck
  <2>1. journal' \in Seq(Batches)
    BY <1>1, <1>2, <1>6, WriteType DEF PortLosesAck
  <2> QED BY <1>3, <1>4, <1>6, <2>1 DEF PortLosesAck
<1>7. CASE PortRejects \/ PortCancels
  BY <1>1, <1>3, <1>4, <1>7 DEF PortRejects, PortCancels
<1>8. CASE PortMisreports
  BY <1>1, <1>2, <1>3, <1>4, <1>8, WriteType DEF PortMisreports
<1>9. CASE PortLoads
  <2>1. io.id \in Ids
    BY <1>9 DEF PortLoads, TypeOK, WriterTypeOK, StorageCall
  <2>2. /\ [type |-> "loaded", id |-> io.id, ok |-> TRUE, batches |-> journal] \in Events
        /\ [type |-> "loaded", id |-> io.id, ok |-> FALSE, batches |-> << >>] \in Events
    BY <1>1, <2>1 DEF Events
  <2>3. mailbox' \in Seq(Events)
    BY <1>1, <1>9, <2>2, MailboxType DEF PortLoads, Post
  <2>4. faults' \in 0..MaxFaults
    BY <1>1, <1>3, <1>9 DEF PortLoads
  <2>5. WriterTypeOK'
    BY <1>9, <2>3 DEF PortLoads, TypeOK, WriterTypeOK, unposted
  <2> QED BY <1>9, <2>4, <2>5 DEF PortLoads, TypeOK, storeVars, lostVars, historyVars
<1>10. CASE PortStores
  <2> DEFINE put == Head(storing)
  <2>1. /\ put \in [id : Ids, mode : Mode]
        /\ storing' \in Seq([id : Ids, mode : Mode])
    <3> DEFINE Put == [id : Ids, mode : Mode]
    <3>1. storing \in Seq(Put) /\ storing # << >>
      BY <1>10 DEF PortStores, TypeOK, WriterTypeOK
    <3>2. storing' = Tail(storing)
      BY <1>10 DEF PortStores
    <3> HIDE DEF Put
    <3>3. Head(storing) \in Put /\ Tail(storing) \in Seq(Put)
      BY <3>1
    <3> QED BY <3>2, <3>3 DEF Put
  <2>2. \A ok \in BOOLEAN :
          [type |-> "stored", id |-> put.id, mode |-> put.mode, ok |-> ok] \in Events
    BY <2>1 DEF Events
  <2>3. mailbox' \in Seq(Events)
    BY <1>1, <1>10, <2>2, MailboxType DEF PortStores, Post
  <2>4. faults' \in 0..MaxFaults
    BY <1>1, <1>3, <1>10 DEF PortStores
  <2>5. config' \in Mode \cup {None} /\ seen' \in Mode \cup {None} /\ departed' \in BOOLEAN
    <3>1. put.mode \in Mode
      BY <2>1
    <3>2. (departed \/ put.mode.perm # durable.mode.perm) \in BOOLEAN
      OBVIOUS
    <3> QED BY <1>10, <3>1, <3>2 DEF PortStores, TypeOK, historyVars
  <2>6. WriterTypeOK'
    BY <1>10, <2>1, <2>3 DEF PortStores, TypeOK, WriterTypeOK, unposted
  <2> QED BY <1>10, <2>4, <2>5, <2>6 DEF PortStores, TypeOK, lostVars
<1> QED BY <1>5, <1>6, <1>7, <1>8, <1>9, <1>10 DEF Port

\* The folded state of the stored journal is a folded state.
LEMMA TipType == journal \in Seq(Batches) => Tip \in JournalState
<1>1. EmptyJournal \in JournalState
  BY EmptyType
<1>2. ASSUME journal \in Seq(Batches), journal # << >>
      PROVE  journal[Len(journal)].next \in JournalState
  <2>1. journal[Len(journal)] \in Batches
    BY <1>2
  <2> QED BY <2>1 DEF Batches
<1> QED BY <1>1, <1>2 DEF Tip

\* Batches of other processes, and requests of gone ones, keep the type.
LEMMA WorldTypes == TypeOK /\ (ForeignAppends \/ OrphanLands) => TypeOK'
<1> SUFFICES ASSUME TypeOK, ForeignAppends \/ OrphanLands
             PROVE  TypeOK'
  OBVIOUS
<1>1. journal \in Seq(Batches) /\ Len(journal) \in Nat /\ Tip \in JournalState
  BY TipType DEF TypeOK
<1>2. NotWriter => /\ WriterTypeOK' /\ phase' \in AllPhases /\ sent' \subseteq Requests
                   /\ seen' \in Mode \cup {None} /\ departed' \in BOOLEAN
  BY DEF NotWriter, TypeOK, WriterTypeOK, writerVars, effectVars, historyVars
<1>3. CASE ForeignAppends
  <2> DEFINE interrupted == Active(Tip) \/ Tip.pendingInputs # << >>
             input == IF interrupted THEN RecoveryInput(Tip.turn) ELSE SystemInput
             id    == IF interrupted THEN RecoveryId(Tip.turn) ELSE <<"foreign", foreign>>
             request == [id |-> id, expected |-> Len(journal), input |-> input,
                         next |-> Stage(Tip, input)]
  <2>1. foreign \in Nat /\ foreign' \in 0..MaxForeign
    BY <1>3, BoundsAssumption DEF ForeignAppends, TypeOK
  <2>2. Tip.turn \in Nat
    BY <1>1, JournalFields
  <2>3. input \in Inputs /\ input.kind # "dequeued"
    BY <2>2 DEF Inputs, RecoveryInput, SystemInput
  <2>4. id \in Ids
    BY <2>1, <2>2, IdTypes
  <2>5. Stage(Tip, input) \in JournalState
    BY <1>1, <2>3, StageType
  <2>6. request \in Batches
    BY <1>1, <2>3, <2>4, <2>5 DEF Batches
  <2>7. Write(request)
    BY <1>3 DEF ForeignAppends
  <2> HIDE DEF request
  <2>8. journal' \in Seq(Batches)
    BY <1>1, <2>6, <2>7, WriteType
  <2> QED BY <1>2, <1>3, <2>1, <2>8 DEF ForeignAppends, TypeOK, lostVars
<1>4. CASE \E request \in orphans :
             /\ orphans' = orphans \ {request}
             /\ Write(request)
             /\ NotWriter
             /\ UNCHANGED <<config, orphanPuts, budgetVars>>
  BY <1>1, <1>2, <1>4, WriteType DEF TypeOK, budgetVars
<1>5. CASE \E i \in DOMAIN orphanPuts :
             /\ config' = orphanPuts[i]
             /\ orphanPuts' = SubSeq(orphanPuts, i + 1, Len(orphanPuts))
             /\ NotWriter
             /\ UNCHANGED <<journal, orphans, budgetVars>>
  <2>1. orphanPuts' \in Seq(Mode) /\ config' \in Mode
    <3>1. PICK i \in DOMAIN orphanPuts :
            /\ config' = orphanPuts[i]
            /\ orphanPuts' = SubSeq(orphanPuts, i + 1, Len(orphanPuts))
      BY <1>5
    <3>2. orphanPuts \in Seq(Mode)
      BY DEF TypeOK
    <3>3. i \in 1..Len(orphanPuts) /\ Len(orphanPuts) \in Nat
      BY <3>2
    <3>4. SubSeq(orphanPuts, i + 1, Len(orphanPuts)) \in Seq(Mode)
      BY <3>2, <3>3, SubSeqProperties
    <3> QED BY <3>1, <3>2, <3>3, <3>4
  <2> QED BY <1>2, <1>5, <2>1 DEF TypeOK, budgetVars
<1> QED BY <1>3, <1>4, <1>5 DEF OrphanLands

\* The end of a runtime keeps the type; its requests become orphans.
LEMMA VanishType == TypeOK /\ Vanish => TypeOK'
<1> SUFFICES ASSUME TypeOK, Vanish
             PROVE  TypeOK'
  OBVIOUS
<1>1. waits' \in [Users -> [at : WaitStates, turn : Nat]]
  <2>1. Waiting("lost", 0) \in [at : WaitStates, turn : Nat]
    BY DEF Waiting, WaitStates
  <2> QED BY <2>1 DEF Vanish, TypeOK, WriterTypeOK
<1>2. WriterTypeOK'
  <2>1. /\ << >> \in Seq(Submission) /\ << >> \in Seq(Events)
        /\ << >> \in Seq([id : Ids, mode : Mode])
    OBVIOUS
  <2> QED BY <1>1, <2>1 DEF Vanish, TypeOK, WriterTypeOK
<1>3. orphans' \subseteq Batches
  BY DEF Vanish, TypeOK, WriterTypeOK, Appending, StorageCall
<1>4. orphanPuts' \in Seq(Mode)
  <2> DEFINE n    == IF Dead \/ storing = << >> THEN Len(storing) ELSE 1
             puts == [i \in 1..n |-> storing[i].mode]
  <2>1. storing \in Seq([id : Ids, mode : Mode]) /\ orphanPuts \in Seq(Mode)
    BY DEF TypeOK, WriterTypeOK
  <2>2. n \in Nat /\ n <= Len(storing)
    BY <2>1
  <2>3. \A i \in 1..n : storing[i].mode \in Mode
    <3> DEFINE Put == [id : Ids, mode : Mode]
    <3>1. storing \in Seq(Put)
      BY <2>1
    <3> HIDE DEF Put, n
    <3>2. \A i \in 1..n : storing[i] \in Put
      BY <2>2, <3>1
    <3> QED BY <3>2 DEF Put
  <2> HIDE DEF n
  <2>4. puts \in Seq(Mode)
    BY <2>2, <2>3
  <2>5. orphanPuts' = orphanPuts \o puts
    BY DEF Vanish, n
  <2> HIDE DEF puts
  <2> QED BY <2>1, <2>4, <2>5, ConcatProperties
<1>5. phase' \in AllPhases /\ seen' \in Mode \cup {None} /\ departed' \in BOOLEAN
  BY DEF Vanish, AllPhases
<1> QED BY <1>2, <1>3, <1>4, <1>5 DEF Vanish, TypeOK, storeVars, budgetVars

\* The steps of creating and restoring keep the type; a restore starts from a runtime
\* that is gone.
LEMMA OpeningTypes == TypeOK /\ GoneIsQuiet /\ Opening => TypeOK'
<1> SUFFICES ASSUME TypeOK, GoneIsQuiet, Opening
             PROVE  TypeOK'
  OBVIOUS
<1>1. mailbox \in Seq(Events) /\ journal \in Seq(Batches) /\ durable \in JournalState
  BY DEF TypeOK, WriterTypeOK
<1>2. ASSUME NEW next \in AllPhases, Opens(next), mailbox' \in Seq(Events)
      PROVE  TypeOK'
  BY <1>2 DEF Opens, TypeOK, WriterTypeOK, storeVars, lostVars, budgetVars, historyVars
<1>3. CASE CreateDone \/ RestoreRecovered \/ RestoreDone
  BY <1>1, <1>2, <1>3
     DEF CreateDone, RestoreRecovered, RestoreDone, AllPhases, OpenPhases
<1>4. CASE CreateFailed \/ RestoreFailed
  BY <1>4, VanishType DEF CreateFailed, RestoreFailed
<1>5. CASE RestoreJournal
  <2>1. durable' \in JournalState
    BY <1>1, <1>5, TipType DEF RestoreJournal, Replayed
  <2>2. answers' \in [Callers -> Answers]
    <3>1. "none" \in Answers
      BY DEF Answers
    <3> QED BY <1>5, <3>1 DEF RestoreJournal, TypeOK, WriterTypeOK
  <2>3. restores' \in 0..MaxRestores
    BY <1>5, BoundsAssumption DEF RestoreJournal, TypeOK
  <2>4. phase' \in AllPhases
    BY <1>5 DEF RestoreJournal, AllPhases, OpenPhases
  <2>5. pending = None
    BY <1>5 DEF RestoreJournal, GoneIsQuiet
  <2>6. WriterTypeOK'
    BY <1>5, <2>1, <2>2, <2>5 DEF RestoreJournal, TypeOK, WriterTypeOK
  <2> QED BY <1>5, <2>3, <2>4, <2>6 DEF RestoreJournal, TypeOK, storeVars, lostVars, historyVars
<1>6. CASE RestoreConfig
  <2>1. Submit(RecoveryId(durable.turn), RecoveryInput(durable.turn)) \in Events
    <3>1. durable.turn \in Nat
      BY <1>1, JournalFields
    <3>2. RecoveryId(durable.turn) \in Ids /\ RecoveryInput(durable.turn) \in Inputs
      BY <3>1, IdTypes DEF RecoveryInput, Inputs
    <3> QED BY <3>2 DEF Submit, Events
  <2>2. mailbox' \in Seq(Events)
    BY <1>1, <1>6, <2>1, MailboxType DEF RestoreConfig, Post
  <2>3. phase' \in AllPhases
    BY <1>6 DEF RestoreConfig, AllPhases, OpenPhases
  <2>4. WriterTypeOK'
    BY <1>6, <2>2 DEF RestoreConfig, TypeOK, WriterTypeOK, unposted
  <2> QED
    BY <1>6, <2>3, <2>4 DEF RestoreConfig, TypeOK, storeVars, lostVars, budgetVars
<1>7. CASE RestoreReselects
  <2>1. CASE Unapplied
    <3>1. seen \in Mode /\ restores \in Nat
      BY <2>1, BoundsAssumption DEF Unapplied, TypeOK
    <3>2. [type |-> "reselect", id |-> <<"reselect", restores>>, mode |-> seen] \in Events
      BY <3>1, IdTypes DEF Events
    <3>3. mailbox' \in Seq(Events)
      BY <1>1, <1>7, <2>1, <3>2, MailboxType DEF RestoreReselects, Post
    <3> QED
      BY <1>2, <1>7, <2>1, <3>3 DEF RestoreReselects, AllPhases, OpenPhases
  <2>2. CASE ~Unapplied
    BY <1>1, <1>2, <1>7, <2>2 DEF RestoreReselects, AllPhases, OpenPhases
  <2> QED BY <2>1, <2>2
<1> QED BY <1>3, <1>4, <1>5, <1>6, <1>7 DEF Opening

\* What is gone stays quiet until it is restored.
LEMMA QuietStep == TypeOK /\ GoneIsQuiet /\ [Next]_vars => GoneIsQuiet'
<1> SUFFICES ASSUME GoneIsQuiet, [Next]_vars, phase' = "down"
             PROVE  /\ pending' = None /\ mailbox' = << >> /\ io' = None
                    /\ storing' = << >> /\ running' = {} /\ Dead'
  BY DEF GoneIsQuiet
<1>1. CASE Vanish
  BY <1>1 DEF Vanish, Dead
<1>2. CASE WriterDecides
  <2>1. mailbox # << >>
    BY <1>2
       DEF WriterDecides, Decide, SubmitToDead, SubmitBusy, SubmitQueued, SubmitAdmitted,
           SelectToDead, Select, Reselect, StoredCurrent, StoredSuperseded, DrainSelection,
           DrainDequeue, DrainQueue, DrainNothing, AppendCommitted, AppendIndeterminate,
           AppendRefused, LoadedCommitted, LoadedAbsent, LoadedUnusable, StorageIgnored, Close,
           Deciding
  <2> QED BY <1>2, <2>1 DEF WriterDecides, GoneIsQuiet
<1>3. CASE Client
  BY <1>3 DEF Client, SendUser, SendSystem, SendAbort, SendSelect, SendClose, SendRequest,
              sessionVars
<1>4. CASE Host
  BY <1>4 DEF Host, ChildSettles, sessionVars, GoneIsQuiet, Dead
<1>5. CASE Port
  BY <1>5 DEF Port, PortAppends, PortLosesAck, PortRejects, PortMisreports, PortCancels,
              PortLoads, PortStores, Appending, Appended, GoneIsQuiet
<1>6. CASE ForeignAppends \/ OrphanLands
  BY <1>6 DEF ForeignAppends, OrphanLands, NotWriter, writerVars, effectVars, GoneIsQuiet, Dead
<1>7. CASE Opening /\ ~Vanish
  BY <1>7 DEF Opening, CreateDone, CreateFailed, RestoreJournal, RestoreConfig,
              RestoreRecovered, RestoreFailed, RestoreReselects, RestoreDone, Opens
<1>8. CASE UNCHANGED vars
  BY <1>8 DEF vars, writerVars, effectVars, sessionVars, GoneIsQuiet, Dead
<1> QED
  BY <1>1, <1>2, <1>3, <1>4, <1>5, <1>6, <1>7, <1>8 DEF Next, World, Crash

\* Every step of a session keeps the type.
LEMMA TypeStep == TypeOK /\ GoneIsQuiet /\ [Next]_vars => TypeOK'
<1> SUFFICES ASSUME TypeOK, GoneIsQuiet, [Next]_vars
             PROVE  TypeOK'
  OBVIOUS
<1>1. CASE WriterDecides
  <2>1. WriterTypeOK'
    BY <1>1, DecideType DEF WriterDecides, TypeOK
  <2>2. departed' \in BOOLEAN
    BY <1>1 DEF WriterDecides
  <2> QED
    BY <1>1, <2>1, <2>2 DEF WriterDecides, TypeOK, storeVars, lostVars, budgetVars
<1>2. CASE World
  BY <1>2, WorldTypes, VanishType DEF World, Crash
<1>3. CASE UNCHANGED vars
  BY <1>3 DEF vars, writerVars, effectVars, sessionVars, storeVars, lostVars, budgetVars,
              historyVars, TypeOK, WriterTypeOK
<1> QED
  BY <1>1, <1>2, <1>3, ClientTypes, HostTypes, PortTypes, OpeningTypes DEF Next

-----------------------------------------------------------------------------
\* Every state of a session is well formed: whatever clients, storage, the host
\* and other processes do, at most one append is in flight, it is retried at most
\* once, and no caller or input is in a state the code has no name for.
THEOREM TypeCorrect == Spec => []TypeOK
<1>1. Init => TypeOK /\ GoneIsQuiet
  BY InitType DEF Init, GoneIsQuiet
<1>2. TypeOK /\ GoneIsQuiet /\ [Next]_vars => TypeOK' /\ GoneIsQuiet'
  BY TypeStep, QuietStep
<1> QED BY <1>1, <1>2, PTL DEF Spec

-----------------------------------------------------------------------------
\* The journal only grows.

Grows ==
  /\ Len(journal) <= Len(journal')
  /\ \A k \in DOMAIN journal : k \in DOMAIN journal' /\ journal'[k] = journal[k]

\* A journal that only grows keeps what its earlier batches folded to, and with it
\* what requests were staged on.
LEMMA GrowsKeeps ==
  ASSUME journal \in Seq(Batches), journal' \in Seq(Batches), Grows
  PROVE  /\ \A n \in 0..Len(journal) : n \in 0..Len(journal') /\ StateAt(n)' = StateAt(n)
         /\ \A request : StagedOn(request) => StagedOn(request)'
<1>1. \A n \in 0..Len(journal) : n \in 0..Len(journal') /\ StateAt(n)' = StateAt(n)
  BY DEF Grows, StateAt
<1> QED BY <1>1 DEF StagedOn

\* A write keeps the journal well formed, whoever sends it, if its request was
\* staged against a stored prefix.
LEMMA WriteStep ==
  ASSUME journal \in Seq(Batches), JournalFolds, JournalIsIndexed,
         NEW request \in Batches, StagedOn(request), Write(request)
  PROVE  journal' \in Seq(Batches) /\ JournalFolds' /\ JournalIsIndexed' /\ Grows
<1>1. CASE journal' = journal
  BY <1>1 DEF JournalFolds, JournalIsIndexed, Grows, Before, StateAt
<1>2. CASE Writable(request) /\ journal' = Append(journal, Batch(request))
  <2> DEFINE n == Len(journal) + 1
  <2>1. n \in Nat /\ Len(journal) \in Nat /\ DOMAIN journal = 1..Len(journal)
    OBVIOUS
  <2>2. /\ journal' \in Seq(Batches) /\ Len(journal') = n
        /\ journal'[n] = Batch(request)
        /\ \A k \in 1..Len(journal) : journal'[k] = journal[k]
    <3>1. Batch(request) \in Batches
      BY DEF Batch, Batches
    <3> QED BY <1>2, <3>1
  <2>3. DOMAIN journal' = 1..n
    BY <2>2
  <2>4. Grows
    BY <2>1, <2>2, <2>3 DEF Grows
  <2>5. request.expected = Len(journal)
    BY <1>2 DEF Writable
  <2>6. JournalFolds'
    <3>1. \A i \in 1..Len(journal) : i - 1 \in 0..Len(journal)
      BY <2>1
    <3>2. \A i \in 1..n : StateAt(i - 1)' = StateAt(i - 1)
      BY <2>1, <2>2, <2>4, GrowsKeeps
    <3>3. ASSUME NEW i \in DOMAIN journal'
          PROVE  /\ journal'[i].expected = i - 1
                 /\ journal'[i].next = Stage(StateAt(i - 1)', journal'[i].input)
      <4>1. CASE i = n
        BY <2>1, <2>2, <2>5, <3>2, <4>1 DEF StagedOn, Batch
      <4>2. CASE i \in 1..Len(journal)
        BY <2>1, <2>2, <2>3, <3>2, <3>3, <4>2 DEF JournalFolds, Before
      <4> QED BY <2>1, <2>3, <3>3, <4>1, <4>2
    <3> QED BY <3>3 DEF JournalFolds, Before
  <2>7. JournalIsIndexed'
    <3>1. \A i \in 1..Len(journal) : journal[i].id # request.id
      <4>1. Found(journal, request.id) = {}
        BY <1>2 DEF Writable
      <4> QED BY <2>1, <4>1 DEF Found
    <3>2. request.next.revision = n
      BY <2>5 DEF StagedOn
    <3>3. \A i \in 1..n : journal'[i].next.revision = i
      BY <2>1, <2>2, <3>2 DEF JournalIsIndexed, Batch
    <3>4. \A i \in 1..Len(journal) : journal'[i].id = journal[i].id /\ journal'[i].id # journal'[n].id
      BY <2>2, <3>1 DEF Batch
    <3>5. \A i, j \in 1..Len(journal) : journal'[i].id = journal'[j].id => i = j
      BY <2>1, <3>4 DEF JournalIsIndexed
    <3>6. \A i \in 1..n : i = n \/ i \in 1..Len(journal)
      BY <2>1
    <3>7. \A i, j \in 1..n : journal'[i].id = journal'[j].id => i = j
      BY <3>4, <3>5, <3>6
    <3> QED BY <2>3, <3>3, <3>7 DEF JournalIsIndexed
  <2> QED BY <2>2, <2>4, <2>6, <2>7
<1> QED BY <1>1, <1>2 DEF Write

\* A journal that grows takes nothing from what the writer, its requests and the
\* dispatched batches rely on.
LEMMA GrowsSafe ==
  ASSUME journal \in Seq(Batches), journal' \in Seq(Batches), durable \in JournalState,
         Grows, JournalIsIndexed', UNCHANGED <<durable, released>>
  PROVE  /\ DurableIsStored => DurableIsStored'
         /\ ReleasedIsStored => ReleasedIsStored'
<1>1. DurableIsStored => DurableIsStored'
  BY GrowsKeeps DEF DurableIsStored
<1>2. ASSUME ReleasedIsStored
      PROVE  ReleasedIsStored'
  <2>1. \A k \in DOMAIN released :
          \E p \in DOMAIN journal : p <= durable.revision /\ journal[p].id = released[k]
    BY <1>2 DEF ReleasedIsStored
  <2>2. \A k \in DOMAIN released, p \in DOMAIN journal' :
          journal'[p].id = released[k] => p \in DOMAIN journal /\ journal[p].id = released[k]
    BY <2>1 DEF Grows, JournalIsIndexed
  <2> QED BY <1>2, <2>1, <2>2 DEF ReleasedIsStored, Grows
<1> QED BY <1>1, <1>2

-----------------------------------------------------------------------------
\* Steps that leave the storage calls alone

core == <<status, durable, pending, io, released, journal, orphans>>

\* A step that leaves journal and writer state alone keeps what is said of them.
LEMMA CoreKeeps ==
  ASSUME StorageInv, UNCHANGED core
  PROVE  /\ JournalFolds' /\ JournalIsIndexed' /\ DurableIsStored' /\ RequestsAreStaged'
         /\ ReleasedIsStored'
<1>1. JournalFolds' /\ JournalIsIndexed' /\ DurableIsStored' /\ ReleasedIsStored'
  BY DEF StorageInv, core, JournalFolds, JournalIsIndexed, DurableIsStored, ReleasedIsStored,
         Before, StateAt
<1>2. RequestsAreStaged'
  BY DEF StorageInv, core, RequestsAreStaged, StagedOn, StateAt, Appending, Batch
<1> QED BY <1>1, <1>2

\* Deciding an event shifts the storage results that are left.
LEMMA MailboxShift ==
  ASSUME mailbox \in Seq(Events), mailbox # << >>,
         NEW sends \in {<< >>, <<Drain>>}, Consume(sends)
  PROVE  \A i \in StorageResults' : i + 1 \in StorageResults /\ mailbox'[i] = mailbox[i + 1]
<1>1. Tail(mailbox) \in Seq(Events) /\ Len(Tail(mailbox)) = Len(mailbox) - 1
      /\ Len(mailbox) \in Nat \ {0}
      /\ \A i \in 1..Len(mailbox) - 1 : Tail(mailbox)[i] = mailbox[i + 1]
  OBVIOUS
<1>2. CASE sends = << >>
  BY <1>1, <1>2 DEF Consume, StorageResults
<1>3. CASE sends = <<Drain>>
  <2>1. mailbox' = Append(Tail(mailbox), Drain)
    <3>1. Drain \in Events
      BY DEF Drain, Events
    <3>2. Append(Tail(mailbox), Drain) = Tail(mailbox) \o <<Drain>>
      BY <1>1, <3>1, AppendIsConcat
    <3> QED BY <1>3, <3>2 DEF Consume
  <2>2. \A i \in DOMAIN mailbox' :
          \/ i \in 1..Len(mailbox) - 1 /\ mailbox'[i] = mailbox[i + 1]
          \/ mailbox'[i] = Drain
    BY <1>1, <2>1
  <2>3. Drain.type = "drain"
    BY DEF Drain
  <2> QED BY <1>1, <2>2, <2>3 DEF StorageResults
<1> QED BY <1>2, <1>3

\* A decision that changes nothing storage is about.
LEMMA ConsumeKeeps ==
  ASSUME StorageInv, mailbox # << >>,
         NEW sends \in {<< >>, <<Drain>>}, Consume(sends), UNCHANGED core
  PROVE  OneStorageCall' /\ ResultsStayTrue'
<1>1. \A i \in StorageResults' : i \in Nat /\ i + 1 \in StorageResults /\ mailbox'[i] = mailbox[i + 1]
  <2>1. mailbox \in Seq(Events)
    BY DEF StorageInv, TypeOK, WriterTypeOK
  <2>2. mailbox' \in Seq(Events)
    BY <2>1, MailboxType DEF Consume
  <2>3. StorageResults' \subseteq Nat
    BY <2>2 DEF StorageResults
  <2> QED BY <2>1, <2>3, MailboxShift
<1>2. OneStorageCall'
  BY <1>1 DEF StorageInv, OneStorageCall, core, Dead, Appending, Batch
<1>3. ResultsStayTrue'
  BY <1>1 DEF StorageInv, ResultsStayTrue, core, Dead, InFlight, Batch
<1> QED BY <1>2, <1>3

\* Posting an event other than a storage result, or none.
LEMMA PostKeeps ==
  ASSUME StorageInv, UNCHANGED core,
         \/ mailbox' = mailbox
         \/ \E e : mailbox' = Append(mailbox, e) /\ e.type \notin {"appended", "loaded"}
  PROVE  OneStorageCall' /\ ResultsStayTrue'
<1>1. mailbox \in Seq(Events)
  BY DEF StorageInv, TypeOK, WriterTypeOK
<1>2. \A i \in StorageResults' : i \in StorageResults /\ mailbox'[i] = mailbox[i]
  <2>1. CASE mailbox' = mailbox
    BY <2>1 DEF StorageResults
  <2>2. ASSUME NEW e, mailbox' = Append(mailbox, e), e.type \notin {"appended", "loaded"}
        PROVE  \A i \in StorageResults' : i \in StorageResults /\ mailbox'[i] = mailbox[i]
    <3> DEFINE S == Events \cup {e}
    <3>1. mailbox \in Seq(S) /\ e \in S
      BY <1>1
    <3> HIDE DEF S
    <3>2. \A i \in DOMAIN mailbox' :
            \/ i \in DOMAIN mailbox /\ mailbox'[i] = mailbox[i]
            \/ mailbox'[i] = e
      BY <2>2, <3>1
    <3> QED BY <2>2, <3>2 DEF StorageResults
  <2> QED BY <2>1, <2>2
<1>3. OneStorageCall'
  BY <1>2 DEF StorageInv, OneStorageCall, core, Dead, Appending, Batch
<1>4. ResultsStayTrue'
  BY <1>2 DEF StorageInv, ResultsStayTrue, core, Dead, InFlight, Batch
<1> QED BY <1>3, <1>4

-----------------------------------------------------------------------------
\* Decisions

\* Every decision leaves the storage calls alone, ends the writer, stages an
\* append, releases the one in flight, or asks storage about it again.
Leaves ==
  /\ \E sends \in {<< >>, <<Drain>>} : Consume(sends)
  /\ UNCHANGED <<status, durable, pending, io, released>>

Stops ==
  /\ Dead' /\ pending' = None
  /\ Consume(<< >>)
  /\ UNCHANGED <<durable, io, released>>

Stages ==
  /\ status = "ready"
  /\ \E s \in Submission, rest \in Seq(Submission) :
       /\ s.input.kind = "dequeued" => durable.pendingInputs # << >>
       /\ StageAppend(s, rest)

\* A submission that reaches a ready writer leaves storage alone, stops the writer, or
\* stages an append.
LEMMA AdmitCases ==
  ASSUME status = "ready", NEW s \in Submission, NEW rest \in Seq(Submission),
         NEW again \in {<< >>, <<Drain>>}, Admit(s, rest, again)
  PROVE  Leaves \/ Stops \/ Stages
<1>1. CASE Refusal(s) = "none" /\ StageAppend(s, rest)
  <2>1. s.input.kind = "dequeued" => durable.pendingInputs # << >>
    BY <1>1 DEF Refusal, Stageable, DequeueStageable
  <2> QED BY <1>1, <2>1 DEF Stages
<1>2. CASE Stop("failed", {s.id})
  BY <1>2 DEF Stop, Stops, Dead
<1>3. CASE /\ Consume(again)
           /\ UNCHANGED <<status, durable, pending, selection, io, storing, running, remembered,
                          released>>
  BY <1>3 DEF Leaves
<1> QED BY <1>1, <1>2, <1>3 DEF Admit

\* A selection at the boundary leaves storage alone or stages its configuration.
LEMMA SelectionCases ==
  ASSUME WriterTypeOK, NEW sel \in Selection, NEW known,
         \/ SettleStored(sel, known)
         \/ AtBoundary(sel) /\ ApplySelection(sel, known)
  PROVE  Leaves \/ Stages
<1>1. CASE AtBoundary(sel) /\ ApplySelection(sel, known)
  <2>1. CASE /\ sel.stored /\ sel.mode # durable.mode
             /\ StageAppend([id |-> sel.id, input |-> PolicyInput(sel.mode)], queue)
    <3> DEFINE s == [id |-> sel.id, input |-> PolicyInput(sel.mode)]
    <3>1. PolicyInput(sel.mode) \in Inputs /\ PolicyInput(sel.mode).kind = "policy"
      BY DEF Inputs, PolicyInput, Selection
    <3>2. s \in Submission /\ s.input.kind # "dequeued"
      BY <3>1 DEF Submission, Selection
    <3> HIDE DEF s
    <3>3. StageAppend(s, queue) /\ status = "ready" /\ queue \in Seq(Submission)
      BY <1>1, <2>1 DEF s, AtBoundary, WriterTypeOK
    <3> QED BY <3>2, <3>3 DEF Stages
  <2> QED BY <1>1, <2>1 DEF ApplySelection, Leaves
<1>2. CASE SettleStored(sel, known) /\ ~AtBoundary(sel)
  BY <1>2 DEF SettleStored, Leaves
<1> QED BY <1>1, <1>2 DEF SettleStored

\* What the decisions of the actor do to storage: most leave it alone.
LEMMA DecideCases ==
  ASSUME WriterTypeOK, Decide
  PROVE  \/ Leaves \/ Stops \/ Stages
         \/ (AppendCommitted /\ Release) \/ LoadedCommitted
         \/ AppendIndeterminate \/ LoadedAbsent
<1>1. SubmitToDead \/ SubmitBusy \/ SubmitQueued => Leaves
  BY DEF SubmitToDead, SubmitBusy, SubmitQueued, Leaves, effectVars
<1>2. ASSUME SubmitAdmitted
      PROVE  Leaves \/ Stops \/ Stages
  <2>1. Event \in Events /\ Event.type = "submit"
    BY <1>2, MailboxType DEF SubmitAdmitted, Deciding, Event, WriterTypeOK
  <2>2. [id |-> Event.id, input |-> Event.input] \in Submission
    BY <2>1, EventFields DEF Submission
  <2>3. status = "ready" /\ << >> \in Seq(Submission)
    BY <1>2 DEF SubmitAdmitted, MustQueue
  <2> QED BY <1>2, <2>2, <2>3, AdmitCases DEF SubmitAdmitted
<1>3. SelectToDead \/ Select => Leaves
  BY DEF SelectToDead, Select, Leaves
<1>4. ASSUME Reselect
      PROVE  Leaves \/ Stages
  <2>1. Selected(Event.id, Event.mode, TRUE) \in Selection
    <3>1. Event \in Events /\ Event.type = "reselect"
      BY <1>4, MailboxType DEF Reselect, Deciding, Event, WriterTypeOK
    <3> QED BY <3>1, EventFields, SelectedType
  <2> QED BY <1>4, <2>1, SelectionCases DEF Reselect
<1>5. ASSUME StoredCurrent
      PROVE  Leaves \/ Stages
  <2>1. selection \in Selection
    BY <1>5 DEF StoredCurrent, WriterTypeOK
  <2>2. Event.id \in Ids
    BY <1>5, MailboxType, EventFields DEF StoredCurrent, Deciding, Event, WriterTypeOK
  <2>3. CASE Event.ok
    <3>1. [selection EXCEPT !.stored = TRUE] \in Selection
      BY <2>1 DEF Selection
    <3> QED BY <1>5, <2>3, <3>1, SelectionCases DEF StoredCurrent
  <2>4. CASE ~Event.ok /\ selection.fallback # None
    <3> DEFINE sel == [id |-> selection.fallback.id, mode |-> selection.fallback.mode,
                       stored |-> TRUE, revokes |-> selection.fallback.revokes,
                       fallback |-> None]
    <3>1. sel \in Selection
      BY <2>1, <2>4 DEF Fallback, Selection
    <3>2. SettleStored(sel, Told({Event.id}, "refused", answers))
      BY <1>5, <2>4 DEF StoredCurrent
    <3> HIDE DEF sel
    <3> QED BY <3>1, <3>2, SelectionCases
  <2>5. CASE ~Event.ok /\ selection.fallback = None
    BY <1>5, <2>5 DEF StoredCurrent, Leaves
  <2> QED BY <2>3, <2>4, <2>5
<1>6. StoredSuperseded => Leaves
  BY DEF StoredSuperseded, Leaves
<1>7. ASSUME DrainSelection
      PROVE  Leaves \/ Stages
  BY <1>7, SelectionCases DEF DrainSelection, AtBoundary, WriterTypeOK
<1>8. ASSUME DrainDequeue
      PROVE  Leaves \/ Stops \/ Stages
  <2> DEFINE u == Head(durable.pendingInputs)
             s == [id |-> DequeueId(u), input |-> DequeuedInput(u)]
  <2>1. u \in Users
    BY <1>8, JournalFields DEF DrainDequeue, DequeueDue, WriterTypeOK
  <2>2. DequeueId(u) \in Ids /\ DequeuedInput(u) \in Inputs
    BY <2>1, IdTypes DEF Inputs
  <2>3. s \in Submission
    BY <2>2 DEF Submission
  <2>4. Admit(s, queue, << >>) /\ status = "ready" /\ queue \in Seq(Submission)
    BY <1>8 DEF DrainDequeue, WriterTypeOK
  <2> HIDE DEF s
  <2> QED BY <2>3, <2>4, AdmitCases
<1>9. ASSUME DrainQueue
      PROVE  Leaves \/ Stops \/ Stages
  <2>1. Head(queue) \in Submission /\ Tail(queue) \in Seq(Submission)
    BY <1>9 DEF DrainQueue, WriterTypeOK
  <2> QED BY <1>9, <2>1, AdmitCases DEF DrainQueue
<1>10. DrainNothing \/ StorageIgnored => Leaves
  BY DEF DrainNothing, StorageIgnored, Leaves, effectVars
<1>11. Close \/ AppendRefused \/ LoadedUnusable => Stops
  BY DEF Close, AppendRefused, LoadedUnusable, Stop, Stops, Dead
<1>12. AppendCommitted => Stops \/ Release
  BY DEF AppendCommitted, Stop, Stops, Dead
<1> QED
  BY <1>1, <1>2, <1>3, <1>4, <1>5, <1>6, <1>7, <1>8, <1>9, <1>10, <1>11, <1>12 DEF Decide

-----------------------------------------------------------------------------
\* The writer keeps the invariant

quiet == <<journal, orphans>>

\* A decision that leaves storage alone keeps the invariant.
LEMMA LeavesKeeps ==
  ASSUME StorageInv, mailbox # << >>, Leaves, UNCHANGED quiet
  PROVE  /\ JournalFolds' /\ JournalIsIndexed' /\ DurableIsStored' /\ RequestsAreStaged'
         /\ OneStorageCall' /\ ResultsStayTrue' /\ ReleasedIsStored'
<1>1. UNCHANGED core
  BY DEF Leaves, quiet, core
<1> QED BY <1>1, CoreKeeps, ConsumeKeeps DEF Leaves

\* The journal is as it was, and so is what relies on it.
LEMMA JournalKeeps ==
  ASSUME StorageInv, UNCHANGED quiet
  PROVE  /\ JournalFolds' /\ JournalIsIndexed'
         /\ \A request : StagedOn(request) => StagedOn(request)'
         /\ UNCHANGED <<durable, released>> => DurableIsStored' /\ ReleasedIsStored'
BY DEF StorageInv, quiet, JournalFolds, JournalIsIndexed, StagedOn, Before, StateAt,
       DurableIsStored, ReleasedIsStored

\* What a decision leaves of the storage results in the mailbox.
LEMMA ResultsLeft ==
  ASSUME StorageInv, mailbox # << >>,
         NEW sends \in {<< >>, <<Drain>>}, Consume(sends)
  PROVE  /\ \A i \in StorageResults' :
              i \in Nat \ {0} /\ i + 1 \in StorageResults /\ mailbox'[i] = mailbox[i + 1]
         /\ 1 \in StorageResults /\ ~Dead => StorageResults' = {}
<1>1. mailbox \in Seq(Events)
  BY DEF StorageInv, TypeOK, WriterTypeOK
<1>2. mailbox' \in Seq(Events)
  BY <1>1, MailboxType DEF Consume
<1>3. StorageResults' \subseteq Nat \ {0}
  BY <1>2 DEF StorageResults
<1>4. \A i \in StorageResults' : i + 1 \in StorageResults /\ mailbox'[i] = mailbox[i + 1]
  BY <1>1, MailboxShift
<1>5. 1 \in StorageResults /\ ~Dead => StorageResults' = {}
  <2> SUFFICES ASSUME 1 \in StorageResults, ~Dead, NEW i \in StorageResults'
               PROVE  FALSE
    OBVIOUS
  <2>1. i + 1 = 1
    BY <1>4 DEF StorageInv, OneStorageCall
  <2> QED BY <1>3, <2>1
<1> QED BY <1>3, <1>4, <1>5

\* What storage reported stays true while the journal is as it was and no append
\* is in flight, or the same one.
LEMMA LoadedStayTrue ==
  ASSUME StorageInv, mailbox # << >>,
         NEW sends \in {<< >>, <<Drain>>}, Consume(sends), UNCHANGED quiet,
         Dead' \/ StorageResults' = {}
  PROVE  ResultsStayTrue'
<1>1. \A i \in StorageResults' : i + 1 \in StorageResults /\ mailbox'[i] = mailbox[i + 1]
  BY ResultsLeft
<1> QED BY <1>1 DEF StorageInv, ResultsStayTrue, quiet

\* A writer that stops keeps it: its call may go on, but no result is awaited.
LEMMA StopsKeeps ==
  ASSUME StorageInv, mailbox # << >>, Stops, UNCHANGED quiet
  PROVE  /\ JournalFolds' /\ JournalIsIndexed' /\ DurableIsStored' /\ RequestsAreStaged'
         /\ OneStorageCall' /\ ResultsStayTrue' /\ ReleasedIsStored'
<1>1. /\ JournalFolds' /\ JournalIsIndexed' /\ DurableIsStored' /\ ReleasedIsStored'
      /\ \A request : StagedOn(request) => StagedOn(request)'
  BY JournalKeeps DEF Stops
<1>2. RequestsAreStaged'
  BY <1>1 DEF StorageInv, RequestsAreStaged, Stops, Appending, quiet
<1>3. OneStorageCall'
  BY DEF Stops, OneStorageCall
<1>4. ResultsStayTrue'
  BY LoadedStayTrue DEF Stops
<1> QED BY <1>1, <1>2, <1>3, <1>4

\* A ready writer that stages keeps it: the request is of the state it is in.
LEMMA StagesKeeps ==
  ASSUME StorageInv, mailbox # << >>, Stages, UNCHANGED quiet
  PROVE  /\ JournalFolds' /\ JournalIsIndexed' /\ DurableIsStored' /\ RequestsAreStaged'
         /\ OneStorageCall' /\ ResultsStayTrue' /\ ReleasedIsStored'
<1> PICK s \in Submission, rest \in Seq(Submission) :
           /\ s.input.kind = "dequeued" => durable.pendingInputs # << >>
           /\ StageAppend(s, rest)
  BY DEF Stages
<1> DEFINE next    == Stage(durable, s.input)
           request == [id |-> s.id, expected |-> durable.revision, input |-> s.input,
                       next |-> next]
<1>1. status = "ready" /\ pending = None /\ ~Dead /\ durable \in JournalState
  BY DEF Stages, StorageInv, TypeOK, WriterTypeOK, Dead
<1>2. StorageResults = {}
  BY <1>1 DEF StorageInv, OneStorageCall
<1>3. StorageResults' = {} /\ Consume(<< >>)
  <2>1. Consume(<< >>)
    BY DEF StageAppend
  <2> QED BY <1>2, <2>1, ResultsLeft
<1>4. /\ pending' # None
      /\ Batch(pending)' = request
      /\ io' = [op |-> "append", request |-> request]
      /\ pending'.expected = durable.revision
      /\ UNCHANGED <<durable, released>>
  <2>1. pending' = [id |-> s.id, input |-> s.input, next |-> next,
                    expected |-> durable.revision, attempts |-> 0]
    BY DEF StageAppend
  <2>2. pending' # None
    <3>1. s.id \in Ids /\ s.input \in Inputs
      BY DEF Submission
    <3>2. next \in JournalState /\ durable.revision \in Nat
      BY <1>1, <3>1, StageType, JournalFields
    <3> HIDE DEF next
    <3>3. pending' \in Pending
      BY <2>1, <3>1, <3>2 DEF Pending
    <3> QED BY <3>3, NoneAssumption
  <2> QED BY <2>1, <2>2 DEF StageAppend, Batch
<1>5. /\ JournalFolds' /\ JournalIsIndexed' /\ DurableIsStored' /\ ReleasedIsStored'
      /\ \A r : StagedOn(r) => StagedOn(r)'
  BY <1>4, JournalKeeps
<1>6. StagedOn(request)
  <2>1. durable = StateAt(durable.revision) /\ durable.revision \in 0..Len(journal)
    BY DEF StorageInv, DurableIsStored
  <2>2. s.input \in Inputs
    BY DEF Submission
  <2>3. next.revision = durable.revision + 1
    BY <1>1, <2>2, StageType
  <2> QED BY <2>1, <2>3 DEF StagedOn
<1>7. RequestsAreStaged'
  <2> PICK r0 : r0 = request
    OBVIOUS
  <2> HIDE DEF request
  <2>1. StagedOn(r0)'
    BY <1>5, <1>6
  <2>2. \A r \in orphans : StagedOn(r)'
    <3>1. \A r \in orphans : StagedOn(r)
      BY DEF StorageInv, RequestsAreStaged
    <3> QED BY <1>5, <3>1
  <2>3. Batch(pending)' = r0 /\ io'.request = r0
    BY <1>4
  <2>4. StagedOn(Batch(pending))' /\ StagedOn(io.request)'
    BY <2>1, <2>3 DEF StagedOn
  <2>5. (pending.expected = durable.revision)'
    BY <1>4
  <2> QED BY <2>2, <2>4, <2>5 DEF RequestsAreStaged, quiet
<1>8. OneStorageCall'
  BY <1>3, <1>4 DEF OneStorageCall
<1>9. ResultsStayTrue'
  BY <1>3, LoadedStayTrue
<1> QED BY <1>5, <1>7, <1>8, <1>9

\* Releasing the append in flight, once storage holds it where it was expected.
LEMMA ReleaseKeeps ==
  ASSUME StorageInv, mailbox # << >>, 1 \in StorageResults, ~Dead, pending # None, Release,
         UNCHANGED quiet,
         pending.next.revision \in DOMAIN journal,
         journal[pending.next.revision] = Batch(pending)
  PROVE  /\ JournalFolds' /\ JournalIsIndexed' /\ DurableIsStored' /\ RequestsAreStaged'
         /\ OneStorageCall' /\ ResultsStayTrue' /\ ReleasedIsStored'
<1> DEFINE n == pending.next.revision
<1>1. /\ pending \in Pending /\ journal \in Seq(Batches) /\ released \in Seq(Ids)
      /\ durable.revision \in Nat
  BY JournalFields DEF StorageInv, TypeOK, WriterTypeOK
<1>2. n = durable.revision + 1
  BY DEF StorageInv, RequestsAreStaged, StagedOn, Batch
<1>3. io = None /\ StorageResults' = {}
  <2>1. io = None
    BY DEF StorageInv, OneStorageCall
  <2>2. Consume(<<Drain>>)
    BY DEF Release, ReleaseSends
  <2> QED BY <2>1, <2>2, ResultsLeft
<1>4. /\ status' = "ready" /\ durable' = pending.next /\ pending' = None /\ io' = None
      /\ released' = Append(released, pending.id)
  BY <1>3 DEF Release
<1>5. /\ JournalFolds' /\ JournalIsIndexed'
      /\ \A request : StagedOn(request) => StagedOn(request)'
  BY JournalKeeps
<1>6. DurableIsStored'
  BY <1>1, <1>2, <1>4 DEF DurableIsStored, StateAt, Batch, quiet
<1>7. RequestsAreStaged'
  <2>1. \A request \in orphans : StagedOn(request)
    BY DEF StorageInv, RequestsAreStaged
  <2>2. \A request \in orphans : StagedOn(request)'
    BY <1>5, <2>1
  <2>3. ~Appending'
    BY <1>4 DEF Appending
  <2> QED BY <1>4, <2>2, <2>3 DEF RequestsAreStaged, quiet
<1>8. OneStorageCall'
  BY <1>3, <1>4 DEF OneStorageCall, Appending
<1>9. ResultsStayTrue'
  BY <1>3 DEF ResultsStayTrue
<1>10. ReleasedIsStored'
  <2>1. \A k \in DOMAIN released' :
          \/ k \in DOMAIN released /\ released'[k] = released[k]
          \/ k = Len(released) + 1 /\ released'[k] = pending.id
    BY <1>1, <1>4
  <2>2. \A k \in DOMAIN released : k \in Nat /\ k <= Len(released) /\ Len(released) \in Nat
    BY <1>1
  <2>3. journal[n].id = pending.id /\ n \in DOMAIN journal /\ DOMAIN journal \subseteq Nat
    BY <1>1 DEF Batch
  <2>4. \A k \in DOMAIN released :
          \E p \in DOMAIN journal : p < n /\ p <= n /\ journal[p].id = released[k]
    BY <1>1, <1>2, <2>3 DEF StorageInv, ReleasedIsStored
  <2>5. \A k \in DOMAIN released' :
          \E p \in DOMAIN journal : p <= n /\ journal[p].id = released'[k]
    <3>1. n <= n
      BY <2>3
    <3> HIDE DEF n
    <3> QED BY <2>1, <2>3, <2>4, <3>1
  <2>6. ASSUME NEW k \in DOMAIN released', NEW l \in DOMAIN released',
               NEW p \in DOMAIN journal, NEW q \in DOMAIN journal,
               k < l, journal[p].id = released'[k], journal[q].id = released'[l]
        PROVE  p < q
    <3>1. k \in DOMAIN released /\ released'[k] = released[k]
      BY <2>1, <2>2, <2>6
    <3>2. CASE l \in DOMAIN released /\ released'[l] = released[l]
      BY <2>6, <3>1, <3>2 DEF StorageInv, ReleasedIsStored
    <3>3. CASE released'[l] = pending.id
      <4>1. q = n
        BY <2>3, <2>6, <3>3 DEF StorageInv, JournalIsIndexed
      <4>2. p < n
        BY <2>4, <2>6, <3>1 DEF StorageInv, JournalIsIndexed
      <4> QED BY <4>1, <4>2
    <3> QED BY <2>1, <3>2, <3>3
  <2>7. durable'.revision = n
    BY <1>4
  <2> QED BY <2>5, <2>6, <2>7 DEF ReleasedIsStored, quiet
<1> QED BY <1>5, <1>6, <1>7, <1>8, <1>9, <1>10

\* Asking storage again keeps the append in flight.
LEMMA AsksKeeps ==
  ASSUME StorageInv, AppendIndeterminate \/ LoadedAbsent, UNCHANGED quiet
  PROVE  /\ JournalFolds' /\ JournalIsIndexed' /\ DurableIsStored' /\ RequestsAreStaged'
         /\ OneStorageCall' /\ ResultsStayTrue' /\ ReleasedIsStored'
<1>1. /\ mailbox # << >> /\ mailbox \in Seq(Events) /\ ~Dead /\ pending \in Pending
      /\ pending # None
      /\ Head(mailbox).type \in {"appended", "loaded"}
      /\ Consume(<< >>)
  BY DEF AppendIndeterminate, LoadedAbsent, InFlight, Deciding, Dead, StorageInv, TypeOK,
         WriterTypeOK
<1>2. 1 \in StorageResults
  BY <1>1 DEF StorageResults
<1>3. StorageResults' = {}
  BY <1>1, <1>2, ResultsLeft
<1>4. /\ pending' # None /\ Batch(pending') = Batch(pending)
      /\ pending'.expected = pending.expected
      /\ Appending' => io'.request = Batch(pending)
      /\ UNCHANGED <<durable, released>>
  <2>1. CASE AppendIndeterminate
    BY <1>1, <2>1 DEF AppendIndeterminate, Appending, Batch
  <2>2. CASE LoadedAbsent
    <3>1. pending' = [pending EXCEPT !.attempts = @ + 1]
      BY <2>2 DEF LoadedAbsent
    <3>2. /\ pending'.id = pending.id /\ pending'.input = pending.input
          /\ pending'.next = pending.next /\ pending'.expected = pending.expected
      BY <1>1, <3>1 DEF Pending
    <3>3. pending' # None
      <4>1. pending.attempts = 0
        BY <2>2 DEF LoadedAbsent, Retryable
      <4>2. [pending EXCEPT !.attempts = 1] \in Pending
        BY <1>1 DEF Pending
      <4>3. pending' = [pending EXCEPT !.attempts = 1]
        BY <3>1, <4>1
      <4> QED BY <4>2, <4>3, NoneAssumption
    <3>4. /\ io' = [op |-> "append",
                     request |-> [id |-> pending.id, expected |-> pending.expected,
                                  input |-> pending.input, next |-> pending.next]]
          /\ UNCHANGED <<durable, released>>
      BY <2>2 DEF LoadedAbsent
    <3>5. io'.request = Batch(pending)
      BY <3>4 DEF Batch
    <3>6. Batch(pending') = Batch(pending)
      BY <3>2 DEF Batch
    <3> QED BY <3>2, <3>3, <3>4, <3>5, <3>6
  <2> QED BY <2>1, <2>2
<1>5. /\ JournalFolds' /\ JournalIsIndexed' /\ DurableIsStored' /\ ReleasedIsStored'
      /\ \A r : StagedOn(r) => StagedOn(r)'
  BY <1>4, JournalKeeps
<1>6. RequestsAreStaged'
  <2> PICK r0 : r0 = Batch(pending)
    OBVIOUS
  <2>1. StagedOn(r0)'
    BY <1>1, <1>5 DEF StorageInv, RequestsAreStaged
  <2>2. \A r \in orphans : StagedOn(r)'
    <3>1. \A r \in orphans : StagedOn(r)
      BY DEF StorageInv, RequestsAreStaged
    <3> QED BY <1>5, <3>1
  <2>3. Batch(pending)' = r0 /\ (Appending' => io'.request = r0)
    BY <1>4
  <2>4. StagedOn(Batch(pending))' /\ (Appending' => StagedOn(io.request)')
    BY <2>1, <2>3 DEF StagedOn
  <2>5. (pending.expected = durable.revision)'
    BY <1>1, <1>4 DEF StorageInv, RequestsAreStaged
  <2> QED BY <2>2, <2>4, <2>5 DEF RequestsAreStaged, quiet
<1>7. OneStorageCall'
  BY <1>3, <1>4 DEF OneStorageCall
<1>8. ResultsStayTrue'
  BY <1>3 DEF ResultsStayTrue
<1> QED BY <1>5, <1>6, <1>7, <1>8

\* The batch that a load shows committed is the one in flight.
LEMMA LoadedIsStored ==
  ASSUME StorageInv, LoadedCommitted
  PROVE  /\ pending.next.revision \in DOMAIN journal
         /\ journal[pending.next.revision] = Batch(pending)
<1>1. /\ mailbox # << >> /\ mailbox \in Seq(Events) /\ pending \in Pending /\ pending # None
      /\ Event = mailbox[1] /\ Event.type = "loaded" /\ Event \in Events
  BY MailboxType
     DEF LoadedCommitted, Deciding, InFlight, Event, StorageInv, TypeOK, WriterTypeOK
<1>2. 1 \in StorageResults
  BY <1>1 DEF StorageResults
<1>3. /\ Event.batches \in Seq(Batches) /\ journal \in Seq(Batches)
      /\ Len(Event.batches) <= Len(journal)
      /\ \A k \in DOMAIN Event.batches : Event.batches[k] = journal[k]
  BY <1>1, <1>2, EventFields DEF StorageInv, ResultsStayTrue, TypeOK
<1>4. PICK i \in DOMAIN Event.batches :
        /\ Event.batches[i].id = pending.id
        /\ Event.batches[i].expected = pending.expected
        /\ Event.batches[i].input = pending.input
  BY DEF LoadedCommitted, Found
<1>5. i \in DOMAIN journal /\ i \in Nat \ {0} /\ Event.batches[i] = journal[i]
  BY <1>3
<1>6. /\ journal[i].expected = i - 1
      /\ journal[i].next = Stage(StateAt(i - 1), pending.input)
      /\ journal[i].next.revision = i
      /\ journal[i].id = pending.id /\ journal[i].input = pending.input
      /\ pending.expected = i - 1
  BY <1>4, <1>5 DEF StorageInv, JournalFolds, JournalIsIndexed, Before
<1>7. pending.next = journal[i].next
  BY <1>1, <1>6 DEF StorageInv, RequestsAreStaged, StagedOn, Batch
<1>8. journal[i] = Batch(pending)
  <2>1. journal[i] \in Batches
    BY <1>3, <1>5
  <2>2. journal[i] = [id |-> journal[i].id, expected |-> journal[i].expected,
                      input |-> journal[i].input, next |-> journal[i].next]
    BY <2>1 DEF Batches
  <2> QED BY <1>6, <1>7, <2>2 DEF Batch
<1> QED BY <1>5, <1>6, <1>7, <1>8

\* Every decision of the actor keeps the invariant.
LEMMA WriterStep ==
  ASSUME StorageInv, WriterDecides
  PROVE  /\ JournalFolds' /\ JournalIsIndexed' /\ DurableIsStored' /\ RequestsAreStaged'
         /\ OneStorageCall' /\ ResultsStayTrue' /\ ReleasedIsStored'
<1>1. Decide /\ UNCHANGED quiet
  BY DEF WriterDecides, storeVars, lostVars, quiet
<1>2. mailbox # << >>
  BY <1>1
     DEF Decide, SubmitToDead, SubmitBusy, SubmitQueued, SubmitAdmitted, SelectToDead, Select,
         Reselect, StoredCurrent, StoredSuperseded, DrainSelection, DrainDequeue, DrainQueue,
         DrainNothing, AppendCommitted, AppendIndeterminate, AppendRefused, LoadedCommitted,
         LoadedAbsent, LoadedUnusable, StorageIgnored, Close, Deciding
<1>3. CASE Leaves
  BY <1>1, <1>2, <1>3, LeavesKeeps
<1>4. CASE Stops
  BY <1>1, <1>2, <1>4, StopsKeeps DEF Stops
<1>5. CASE Stages
  BY <1>1, <1>2, <1>5, StagesKeeps
<1>6. CASE AppendCommitted /\ Release
  <2>1. /\ mailbox \in Seq(Events) /\ ~Dead /\ pending # None
        /\ Event = mailbox[1] /\ Event.type = "appended" /\ Event.result = "committed"
        /\ InFlight(Event.id)
    BY <1>2, <1>6
       DEF AppendCommitted, Deciding, Dead, InFlight, Event, StorageInv, TypeOK, WriterTypeOK
  <2>2. 1 \in StorageResults
    BY <1>2, <2>1 DEF StorageResults
  <2>3. Event.revision = pending.next.revision
    BY <1>6, <2>1 DEF AppendCommitted, Release, Stop
  <2>4. /\ pending.next.revision \in DOMAIN journal
        /\ journal[pending.next.revision] = Batch(pending)
    BY <2>1, <2>2, <2>3 DEF StorageInv, ResultsStayTrue
  <2> QED BY <1>1, <1>2, <1>6, <2>1, <2>2, <2>4, ReleaseKeeps
<1>7. CASE LoadedCommitted
  <2>1. /\ mailbox \in Seq(Events) /\ ~Dead /\ pending # None /\ Release
        /\ Head(mailbox).type = "loaded"
    BY <1>7 DEF LoadedCommitted, Deciding, Dead, InFlight, StorageInv, TypeOK, WriterTypeOK
  <2>2. 1 \in StorageResults
    BY <1>2, <2>1 DEF StorageResults
  <2> QED BY <1>1, <1>2, <1>7, <2>1, <2>2, LoadedIsStored, ReleaseKeeps
<1>8. CASE AppendIndeterminate \/ LoadedAbsent
  BY <1>1, <1>8, AsksKeeps
<1> QED
  BY <1>1, <1>3, <1>4, <1>5, <1>6, <1>7, <1>8, DecideCases DEF StorageInv, TypeOK

-----------------------------------------------------------------------------
\* The rest of the session keeps it

SafeParts ==
  /\ JournalFolds /\ JournalIsIndexed /\ DurableIsStored /\ RequestsAreStaged
  /\ OneStorageCall /\ ResultsStayTrue /\ ReleasedIsStored

\* Clients, the host, the configuration store and most of the opening sequence
\* at most post an event that is no storage result.
LEMMA AroundStep ==
  ASSUME StorageInv, Client \/ Host \/ PortStores \/ RestoreConfig \/ RestoreReselects
                     \/ CreateDone \/ RestoreRecovered \/ RestoreDone
  PROVE  SafeParts'
<1>1. /\ UNCHANGED core
      /\ \/ mailbox' = mailbox
         \/ \E e : mailbox' = Append(mailbox, e) /\ e.type \notin {"appended", "loaded"}
  <2>1. CASE Client
    <3>1. ASSUME NEW id, NEW event, SendRequest(id, event)
          PROVE  UNCHANGED core /\ mailbox' = Append(mailbox, event)
      BY <3>1 DEF SendRequest, Post, core, storeVars, lostVars
    <3>2. CASE SendClose
      BY <3>2 DEF SendClose, Post, core, unposted, sessionVars, storeVars, lostVars
    <3>3. \A id, input : Submit(id, input).type = "submit"
      BY DEF Submit
    <3>4. ASSUME NEW u \in Users, SendUser(u)
          PROVE  UNCHANGED core /\ \E e : mailbox' = Append(mailbox, e) /\ e.type = "submit"
      BY <3>1, <3>3, <3>4 DEF SendUser
    <3>5. ASSUME NEW s \in Systems, SendSystem(s)
          PROVE  UNCHANGED core /\ \E e : mailbox' = Append(mailbox, e) /\ e.type = "submit"
      BY <3>1, <3>3, <3>5 DEF SendSystem
    <3>6. ASSUME NEW a \in Aborts, SendAbort(a)
          PROVE  UNCHANGED core /\ \E e : mailbox' = Append(mailbox, e) /\ e.type = "submit"
      BY <3>1, <3>3, <3>6 DEF SendAbort
    <3>7. ASSUME NEW c \in Selects, NEW patch \in Patches, SendSelect(c, patch)
          PROVE  UNCHANGED core /\ \E e : mailbox' = Append(mailbox, e) /\ e.type = "select"
      <4> DEFINE e == [type |-> "select", id |-> <<"select", c>>, patch |-> patch]
      <4>1. e.type = "select"
        OBVIOUS
      <4>2. SendRequest(<<"select", c>>, e)
        BY <3>7 DEF SendSelect
      <4> HIDE DEF e
      <4> QED BY <3>1, <4>1, <4>2
    <3> QED BY <2>1, <3>2, <3>4, <3>5, <3>6, <3>7 DEF Client
  <2>2. CASE Host
    BY <2>2 DEF Host, ChildSettles, Post, Submit, core, sessionVars, storeVars, lostVars
  <2>3. CASE PortStores
    BY <2>3 DEF PortStores, Post, core, unposted, lostVars
  <2>4. CASE RestoreConfig
    BY <2>4 DEF RestoreConfig, Post, Submit, core, unposted, storeVars, lostVars
  <2>5. CASE RestoreReselects
    BY <2>5 DEF RestoreReselects, Opens, Post, core, storeVars, lostVars
  <2>6. CASE CreateDone \/ RestoreRecovered \/ RestoreDone
    BY <2>6 DEF CreateDone, RestoreRecovered, RestoreDone, Opens, core, storeVars, lostVars
  <2> QED BY <2>1, <2>2, <2>3, <2>4, <2>5, <2>6
<1> QED BY <1>1, CoreKeeps, PostKeeps DEF SafeParts

\* A batch written by anyone keeps what the writer relies on.
LEMMA ElsewhereStep ==
  ASSUME StorageInv, ForeignAppends \/ OrphanLands
  PROVE  SafeParts'
<1>1. /\ journal \in Seq(Batches) /\ journal' \in Seq(Batches) /\ durable \in JournalState
      /\ Tip \in JournalState /\ Len(journal) \in Nat
  BY WorldTypes, TipType DEF StorageInv, TypeOK, WriterTypeOK
<1>2. UNCHANGED <<status, durable, pending, io, mailbox, released>>
  BY DEF ForeignAppends, OrphanLands, NotWriter, writerVars, effectVars
<1>3. /\ \/ journal' = journal
         \/ \E request \in Batches : StagedOn(request) /\ Write(request)
      /\ orphans' \subseteq orphans
  <2>1. CASE ForeignAppends
    <3> DEFINE interrupted == Active(Tip) \/ Tip.pendingInputs # << >>
               input == IF interrupted THEN RecoveryInput(Tip.turn) ELSE SystemInput
               id    == IF interrupted THEN RecoveryId(Tip.turn) ELSE <<"foreign", foreign>>
               request == [id |-> id, expected |-> Len(journal), input |-> input,
                           next |-> Stage(Tip, input)]
    <3>1. Tip = StateAt(Len(journal)) /\ Tip.revision = Len(journal)
      BY <1>1 DEF Tip, StateAt, EmptyJournal, StorageInv, JournalIsIndexed
    <3>2. foreign \in Nat /\ Tip.turn \in Nat
      BY <1>1, BoundsAssumption, JournalFields DEF StorageInv, TypeOK
    <3>3. input \in Inputs /\ input.kind # "dequeued"
      BY <3>2 DEF Inputs, RecoveryInput, SystemInput
    <3>4. id \in Ids
      BY <3>2, IdTypes
    <3>5. Stage(Tip, input) \in JournalState /\ Stage(Tip, input).revision = Len(journal) + 1
      BY <1>1, <3>1, <3>3, StageType
    <3>6. request \in Batches
      BY <1>1, <3>3, <3>4, <3>5 DEF Batches
    <3>7. StagedOn(request)
      BY <1>1, <3>1, <3>5 DEF StagedOn
    <3>8. Write(request) /\ UNCHANGED orphans
      BY <2>1 DEF ForeignAppends, lostVars
    <3> HIDE DEF request
    <3> QED BY <3>6, <3>7, <3>8
  <2>2. CASE OrphanLands
    BY <2>2 DEF OrphanLands, StorageInv, RequestsAreStaged, TypeOK
  <2> QED BY <2>1, <2>2
<1>4. JournalFolds' /\ JournalIsIndexed' /\ Grows
  <2>1. CASE journal' = journal
    BY <1>1, <2>1 DEF StorageInv, JournalFolds, JournalIsIndexed, Grows, Before, StateAt
  <2>2. CASE \E request \in Batches : StagedOn(request) /\ Write(request)
    BY <1>1, <2>2, WriteStep DEF StorageInv
  <2> QED BY <1>3, <2>1, <2>2
<1>5. DurableIsStored' /\ ReleasedIsStored'
  BY <1>1, <1>2, <1>4, GrowsSafe DEF StorageInv
<1>6. RequestsAreStaged'
  <2>1. \A request : StagedOn(request) => StagedOn(request)'
    BY <1>1, <1>4, GrowsKeeps
  <2>2. \A request \in orphans' : StagedOn(request)'
    <3>1. \A request \in orphans : StagedOn(request)
      BY DEF StorageInv, RequestsAreStaged
    <3> QED BY <1>3, <2>1, <3>1
  <2> PICK r0, r1 : r0 = Batch(pending) /\ r1 = io.request
    OBVIOUS
  <2>3. pending # None => StagedOn(r0)'
    BY <2>1 DEF StorageInv, RequestsAreStaged
  <2>4. Appending => StagedOn(r1)'
    BY <2>1 DEF StorageInv, RequestsAreStaged
  <2>5. Batch(pending)' = r0 /\ io'.request = r1 /\ Appending' = Appending
    BY <1>2 DEF Batch, Appending
  <2> QED
    BY <1>2, <2>2, <2>3, <2>4, <2>5 DEF StorageInv, RequestsAreStaged, StagedOn
<1>7. OneStorageCall'
  BY <1>2 DEF StorageInv, OneStorageCall, Dead, StorageResults, Appending, Batch
<1>8. ResultsStayTrue'
  BY <1>1, <1>2, <1>4
     DEF StorageInv, ResultsStayTrue, Dead, StorageResults, InFlight, Batch, Grows
<1> QED BY <1>4, <1>5, <1>6, <1>7, <1>8 DEF SafeParts

\* The result of an append that storage handled, whether it wrote it or not.
LEMMA AppendedStep ==
  ASSUME StorageInv, Appending, NEW result, NEW revision,
         Appended(io.request, result, revision),
         journal' = journal \/ Write(io.request),
         result = "committed" /\ revision = io.request.expected + 1 =>
           revision \in DOMAIN journal' /\ journal'[revision] = Batch(io.request)
  PROVE  SafeParts'
<1> DEFINE event == [type |-> "appended", id |-> io.request.id, result |-> result,
                     revision |-> revision]
<1>1. /\ journal \in Seq(Batches) /\ durable \in JournalState /\ mailbox \in Seq(Events)
      /\ io.request \in Batches /\ io # None /\ StagedOn(io.request)
  BY DEF StorageInv, TypeOK, WriterTypeOK, RequestsAreStaged, Appending, StorageCall
<1>2. /\ mailbox' = Append(mailbox, event) /\ io' = None
      /\ UNCHANGED <<status, durable, pending, released, orphans>>
  BY DEF Appended, Post, unposted, lostVars
<1>3. journal' \in Seq(Batches) /\ JournalFolds' /\ JournalIsIndexed' /\ Grows
  <2>1. CASE journal' = journal
    BY <1>1, <2>1 DEF StorageInv, JournalFolds, JournalIsIndexed, Grows, Before, StateAt
  <2>2. CASE Write(io.request)
    <3> PICK request : request = io.request
      OBVIOUS
    <3> QED BY <1>1, <2>2, WriteStep DEF StorageInv
  <2> QED BY <2>1, <2>2
<1>4. DurableIsStored' /\ ReleasedIsStored'
  BY <1>1, <1>2, <1>3, GrowsSafe DEF StorageInv
<1>5. RequestsAreStaged'
  <2>1. \A r : StagedOn(r) => StagedOn(r)'
    BY <1>1, <1>3, GrowsKeeps
  <2>2. \A r \in orphans : StagedOn(r)'
    <3>1. \A r \in orphans : StagedOn(r)
      BY DEF StorageInv, RequestsAreStaged
    <3> QED BY <2>1, <3>1
  <2> PICK r0 : r0 = Batch(pending)
    OBVIOUS
  <2>3. pending # None => StagedOn(r0)'
    BY <2>1 DEF StorageInv, RequestsAreStaged
  <2>4. Batch(pending)' = r0 /\ ~Appending'
    BY <1>2 DEF Batch, Appending
  <2> QED
    BY <1>2, <2>2, <2>3, <2>4 DEF StorageInv, RequestsAreStaged, StagedOn
<1>6. \A i \in DOMAIN mailbox' :
        \/ i \in DOMAIN mailbox /\ mailbox'[i] = mailbox[i]
        \/ i = Len(mailbox) + 1 /\ mailbox'[i] = event
  <2> DEFINE S == Events \cup {event}
  <2>1. mailbox \in Seq(S) /\ event \in S
    BY <1>1
  <2> HIDE DEF S, event
  <2> QED BY <1>2, <2>1
<1>7. \A i \in StorageResults' :
        \/ i \in StorageResults /\ mailbox'[i] = mailbox[i]
        \/ i = Len(mailbox) + 1 /\ mailbox'[i] = event
  BY <1>6 DEF StorageResults
<1>8. ~Dead => StorageResults = {} /\ pending # None /\ io.request = Batch(pending)
  BY <1>1 DEF StorageInv, OneStorageCall
<1>9. OneStorageCall'
  BY <1>2, <1>7, <1>8 DEF OneStorageCall, Dead, Appending
<1>10. ResultsStayTrue'
  <2>1. ASSUME NEW i \in StorageResults, mailbox'[i] = mailbox[i], Dead
        PROVE  mailbox'[i].type = "loaded" =>
                 /\ Len(mailbox'[i].batches) <= Len(journal')
                 /\ \A k \in DOMAIN mailbox'[i].batches : mailbox'[i].batches[k] = journal'[k]
    <3>1. ASSUME mailbox[i].type = "loaded"
          PROVE  /\ Len(mailbox[i].batches) <= Len(journal) /\ Len(mailbox[i].batches) \in Nat
                 /\ \A k \in DOMAIN mailbox[i].batches :
                      k \in DOMAIN journal /\ mailbox[i].batches[k] = journal[k]
      <4>1. mailbox[i].batches \in Seq(Batches)
        BY <1>1, <3>1, EventFields DEF StorageResults
      <4>2. /\ Len(mailbox[i].batches) <= Len(journal)
            /\ \A k \in DOMAIN mailbox[i].batches : mailbox[i].batches[k] = journal[k]
        BY <3>1 DEF StorageInv, ResultsStayTrue
      <4> QED BY <1>1, <4>1, <4>2
    <3>2. Len(journal) \in Nat /\ Len(journal') \in Nat
      BY <1>1, <1>3
    <3> QED BY <1>3, <2>1, <3>1, <3>2 DEF Grows
  <2>2. ASSUME ~Dead, pending.next.revision = revision, result = "committed"
        PROVE  revision \in DOMAIN journal' /\ journal'[revision] = Batch(pending)
    BY <1>8, <2>2 DEF StorageInv, RequestsAreStaged, StagedOn, Batch
  <2>3. event.type = "appended" /\ event.result = result /\ event.revision = revision
    OBVIOUS
  <2>4. Dead' = Dead /\ Batch(pending)' = Batch(pending) /\ pending'.next = pending.next
    BY <1>2 DEF Dead, Batch
  <2> HIDE DEF event
  <2>5. ASSUME NEW i \in StorageResults'
        PROVE  /\ ~Dead /\ mailbox'[i].type = "appended" /\ mailbox'[i].result = "committed"
                    /\ mailbox'[i].revision = pending.next.revision =>
                    /\ mailbox'[i].revision \in DOMAIN journal'
                    /\ journal'[mailbox'[i].revision] = Batch(pending)
               /\ mailbox'[i].type = "loaded" =>
                    /\ Len(mailbox'[i].batches) <= Len(journal')
                    /\ \A k \in DOMAIN mailbox'[i].batches : mailbox'[i].batches[k] = journal'[k]
    <3>1. CASE mailbox'[i] = event
      BY <2>2, <2>3, <3>1
    <3>2. CASE i \in StorageResults /\ mailbox'[i] = mailbox[i] /\ Dead
      BY <2>1, <3>2
    <3> QED BY <1>7, <1>8, <2>5, <3>1, <3>2
  <2> QED BY <2>4, <2>5 DEF ResultsStayTrue
<1> QED BY <1>3, <1>4, <1>5, <1>9, <1>10 DEF SafeParts

\* Every answer of the port to an append keeps the invariant.
LEMMA AppendStep ==
  ASSUME StorageInv, PortAppends \/ PortLosesAck \/ PortRejects \/ PortMisreports \/ PortCancels
  PROVE  SafeParts'
<1>1. /\ Appending /\ journal \in Seq(Batches) /\ io.request \in Batches
      /\ StagedOn(io.request)
  BY DEF PortAppends, PortLosesAck, PortRejects, PortMisreports, PortCancels, StorageInv, TypeOK,
         WriterTypeOK, RequestsAreStaged, Appending, StorageCall
<1>2. Writable(io.request) =>
        /\ Len(journal) = io.request.expected
        /\ Write(io.request) => /\ Len(journal) + 1 \in DOMAIN journal'
                                /\ journal'[Len(journal) + 1] = Batch(io.request)
  <2> SUFFICES ASSUME Writable(io.request), Write(io.request)
               PROVE  /\ Len(journal) + 1 \in DOMAIN journal'
                      /\ journal'[Len(journal) + 1] = Batch(io.request)
    BY DEF Writable
  <2>1. Batch(io.request) \in Batches
    BY <1>1 DEF Batch, Batches
  <2>2. journal' = Append(journal, Batch(io.request))
    BY DEF Write
  <2> QED BY <1>1, <2>1, <2>2
<1>3. CASE PortAppends
  <2> DEFINE result   == AppendResult(io.request)
             revision == ReceiptRevision(io.request)
  <2>1. Write(io.request) /\ Appended(io.request, result, revision)
    BY <1>3 DEF PortAppends
  <2>2. ASSUME result = "committed", revision = io.request.expected + 1
        PROVE  revision \in DOMAIN journal' /\ journal'[revision] = Batch(io.request)
    <3>1. CASE Writable(io.request)
      BY <1>2, <2>1, <2>2, <3>1
    <3>2. CASE ~Writable(io.request)
      <4>1. PICK i \in DOMAIN journal : journal[i] = Batch(io.request)
        BY <2>2, <3>2 DEF AppendResult, Stored, Writable, Found
      <4>2. i = io.request.expected + 1
        <5>1. journal[i].expected = i - 1 /\ i \in Nat
          BY <1>1 DEF StorageInv, JournalFolds
        <5>2. journal[i].expected = io.request.expected
          BY <4>1 DEF Batch
        <5> QED BY <5>1, <5>2
      <4>3. journal' = journal
        BY <2>1, <3>2 DEF Write
      <4> QED BY <2>2, <4>1, <4>2, <4>3
    <3> QED BY <3>1, <3>2
  <2> HIDE DEF result, revision
  <2> QED BY <1>1, <2>1, <2>2, AppendedStep
<1>4. CASE PortLosesAck
  <2>1. Appended(io.request, "indeterminate", 0) /\ (journal' = journal \/ Write(io.request))
    BY <1>4 DEF PortLosesAck
  <2> QED BY <1>1, <2>1, AppendedStep
<1>5. CASE PortRejects \/ PortCancels
  <2>1. Appended(io.request, "rejected", 0) /\ journal' = journal
    BY <1>5 DEF PortRejects, PortCancels
  <2> QED BY <1>1, <2>1, AppendedStep
<1>6. CASE PortMisreports
  <2>1. /\ Appended(io.request, "committed", Len(journal) + 2) /\ Write(io.request)
        /\ Writable(io.request)
    BY <1>6 DEF PortMisreports
  <2>2. Len(journal) + 2 # io.request.expected + 1
    BY <1>1, <1>2, <2>1 DEF StagedOn
  <2> QED BY <1>1, <2>1, <2>2, AppendedStep
<1> QED BY <1>3, <1>4, <1>5, <1>6

\* A load reports the journal as it is.
LEMMA LoadStep ==
  ASSUME StorageInv, PortLoads
  PROVE  SafeParts'
<1>1. /\ journal \in Seq(Batches) /\ mailbox \in Seq(Events) /\ io # None /\ io.op = "load"
      /\ io' = None
      /\ UNCHANGED <<status, durable, pending, released, journal, orphans>>
  BY DEF PortLoads, StorageInv, TypeOK, WriterTypeOK, unposted, storeVars, lostVars
<1>2. /\ JournalFolds' /\ JournalIsIndexed' /\ DurableIsStored' /\ ReleasedIsStored'
      /\ \A r : StagedOn(r) => StagedOn(r)'
  BY <1>1, JournalKeeps DEF quiet
<1>3. RequestsAreStaged'
  <2>1. ~Appending'
    BY <1>1 DEF Appending
  <2> QED
    BY <1>1, <1>2, <2>1
       DEF StorageInv, RequestsAreStaged, StagedOn, StateAt, Batch
<1>4. PICK event :
        /\ mailbox' = Append(mailbox, event)
        /\ event.type = "loaded"
        /\ event.batches = journal \/ event.batches = << >>
  BY DEF PortLoads, Post
<1>5. \A i \in DOMAIN mailbox' :
        \/ i \in DOMAIN mailbox /\ mailbox'[i] = mailbox[i]
        \/ i = Len(mailbox) + 1 /\ mailbox'[i] = event
  <2> DEFINE S == Events \cup {event}
  <2>1. mailbox \in Seq(S) /\ event \in S
    BY <1>1
  <2> HIDE DEF S
  <2> QED BY <1>4, <2>1
<1>6. \A i \in StorageResults' :
        \/ i \in StorageResults /\ mailbox'[i] = mailbox[i]
        \/ i = Len(mailbox) + 1 /\ mailbox'[i] = event
  BY <1>5 DEF StorageResults
<1>7. ~Dead => StorageResults = {} /\ pending # None
  BY <1>1 DEF StorageInv, OneStorageCall
<1>8. OneStorageCall'
  BY <1>1, <1>6, <1>7 DEF OneStorageCall, Dead, Appending
<1>9. ResultsStayTrue'
  <2>1. ASSUME NEW i \in StorageResults'
        PROVE  mailbox'[i].type = "loaded" =>
                 /\ Len(mailbox'[i].batches) <= Len(journal)
                 /\ \A k \in DOMAIN mailbox'[i].batches : mailbox'[i].batches[k] = journal[k]
    <3>1. CASE mailbox'[i] = event
      <4>1. Len(journal) \in Nat /\ Len(<< >>) = 0
        BY <1>1
      <4> QED BY <1>4, <3>1, <4>1
    <3>2. CASE i \in StorageResults /\ mailbox'[i] = mailbox[i]
      BY <3>2 DEF StorageInv, ResultsStayTrue
    <3> QED BY <1>6, <2>1, <3>1, <3>2
  <2>2. ASSUME NEW i \in StorageResults', ~Dead
        PROVE  mailbox'[i].type # "appended"
    BY <1>4, <1>6, <1>7, <2>2
  <2>3. Dead' = Dead
    BY <1>1 DEF Dead
  <2> QED BY <1>1, <2>1, <2>2, <2>3 DEF ResultsStayTrue
<1> QED BY <1>2, <1>3, <1>8, <1>9 DEF SafeParts

\* A runtime that goes leaves at most its append behind, and one that restores the
\* session starts from everything that is stored.
LEMMA RestartStep ==
  ASSUME StorageInv, Vanish \/ RestoreJournal
  PROVE  SafeParts'
<1>1. CASE Vanish
  <2>1. /\ UNCHANGED <<durable, released, journal>> /\ pending' = None /\ io' = None
        /\ mailbox' = << >> /\ Dead'
        /\ orphans' \subseteq orphans \cup (IF Appending THEN {io.request} ELSE {})
    BY <1>1 DEF Vanish, storeVars, Dead
  <2>2. /\ JournalFolds' /\ JournalIsIndexed' /\ DurableIsStored' /\ ReleasedIsStored'
        /\ \A r : StagedOn(r) => StagedOn(r)'
    BY <2>1
       DEF StorageInv, JournalFolds, JournalIsIndexed, DurableIsStored, ReleasedIsStored,
           StagedOn, Before, StateAt
  <2>3. RequestsAreStaged'
    <3>1. \A r \in orphans \cup (IF Appending THEN {io.request} ELSE {}) : StagedOn(r)
      BY DEF StorageInv, RequestsAreStaged
    <3>2. \A r \in orphans' : StagedOn(r)'
      BY <2>1, <2>2, <3>1
    <3> QED BY <2>1, <3>2 DEF RequestsAreStaged, Appending
  <2>4. OneStorageCall' /\ ResultsStayTrue'
    BY <2>1 DEF OneStorageCall, ResultsStayTrue, StorageResults
  <2> QED BY <2>2, <2>3, <2>4 DEF SafeParts
<1>2. CASE RestoreJournal
  <2>1. /\ UNCHANGED <<released, journal, orphans, pending, io, mailbox>>
        /\ durable' = Tip /\ pending = None /\ io = None /\ mailbox = << >>
    BY <1>2 DEF RestoreJournal, Replayed, storeVars, lostVars, StorageInv, GoneIsQuiet
  <2>2. /\ JournalFolds' /\ JournalIsIndexed'
        /\ \A r : StagedOn(r) => StagedOn(r)'
    BY <2>1 DEF StorageInv, JournalFolds, JournalIsIndexed, StagedOn, Before, StateAt
  <2>3. /\ journal \in Seq(Batches) /\ Len(journal) \in Nat
        /\ Tip = StateAt(Len(journal)) /\ Tip.revision = Len(journal)
    BY DEF StorageInv, TypeOK, Tip, StateAt, EmptyJournal, JournalIsIndexed
  <2>4. DurableIsStored'
    BY <2>1, <2>3 DEF DurableIsStored, StateAt
  <2>5. ReleasedIsStored'
    <3>1. \A p \in DOMAIN journal : p <= Len(journal)
      BY <2>3
    <3>2. durable'.revision = Len(journal)
      BY <2>1, <2>3
    <3> QED BY <2>1, <3>1, <3>2 DEF StorageInv, ReleasedIsStored
  <2>6. RequestsAreStaged'
    <3>1. \A r \in orphans : StagedOn(r)'
      BY <2>2 DEF StorageInv, RequestsAreStaged
    <3> QED BY <2>1, <3>1 DEF RequestsAreStaged, Appending
  <2>7. OneStorageCall' /\ ResultsStayTrue'
    BY <2>1 DEF OneStorageCall, ResultsStayTrue, StorageResults, Appending
  <2> QED BY <2>2, <2>4, <2>5, <2>6, <2>7 DEF SafeParts
<1> QED BY <1>1, <1>2

-----------------------------------------------------------------------------
\* The invariant

\* A session about to be created has nothing stored.
LEMMA StorageInit == Init => StorageInv
<1> SUFFICES ASSUME Init
             PROVE  StorageInv
  OBVIOUS
<1>1. TypeOK /\ GoneIsQuiet
  BY InitType DEF Init, GoneIsQuiet
<1>2. JournalFolds /\ JournalIsIndexed /\ RequestsAreStaged /\ ReleasedIsStored
  BY DEF Init, JournalFolds, JournalIsIndexed, RequestsAreStaged, ReleasedIsStored, Appending
<1>3. DurableIsStored
  BY DEF Init, DurableIsStored, StateAt, EmptyJournal
<1>4. StorageResults = {}
  BY DEF Init, StorageResults, Submit
<1>5. OneStorageCall /\ ResultsStayTrue
  BY <1>4 DEF Init, OneStorageCall, ResultsStayTrue, Appending
<1> QED BY <1>1, <1>2, <1>3, <1>5 DEF StorageInv

\* Every step of a session keeps the invariant.
LEMMA StorageStep == StorageInv /\ [Next]_vars => StorageInv'
<1> SUFFICES ASSUME StorageInv, [Next]_vars
             PROVE  SafeParts'
  BY TypeStep, QuietStep DEF StorageInv, SafeParts
<1>1. CASE WriterDecides
  BY <1>1, WriterStep DEF SafeParts
<1>2. CASE Port
  BY <1>2, AppendStep, LoadStep, AroundStep DEF Port
<1>3. CASE World
  BY <1>3, ElsewhereStep, RestartStep DEF World, Crash
<1>4. CASE Opening
  BY <1>4, AroundStep, RestartStep DEF Opening, CreateFailed, RestoreFailed
<1>5. CASE UNCHANGED vars
  <2>1. UNCHANGED core /\ mailbox' = mailbox
    BY <1>5 DEF vars, writerVars, effectVars, sessionVars, storeVars, lostVars, core
  <2> QED BY <2>1, CoreKeeps, PostKeeps DEF SafeParts
<1> QED BY <1>1, <1>2, <1>3, <1>4, <1>5, AroundStep DEF Next

\* Storage, the writer and everything still under way between them agree, over
\* all interleavings, faults, writers elsewhere, crashes and restores: the
\* inductive invariant, from which the next three theorems follow.
THEOREM StorageSafe == Spec => []StorageInv
BY StorageInit, StorageStep, PTL DEF Spec

\* Every stored batch was staged against exactly the batches stored before it,
\* whoever wrote it and however late it landed.
THEOREM JournalAlwaysFolds == Spec => []JournalFolds
<1>1. StorageInv => JournalFolds
  BY DEF StorageInv
<1> QED BY <1>1, StorageSafe, PTL

\* The writer works from the folded state of a stored prefix of the journal.
THEOREM WriterFollowsStorage == Spec => []DurableIsStored
<1>1. StorageInv => DurableIsStored
  BY DEF StorageInv
<1> QED BY <1>1, StorageSafe, PTL

\* The commands of a batch are dispatched at most once, in journal order, and only
\* when the batch is stored.
THEOREM ReleasedAtMostOnce == Spec => []ReleasedOnceInOrder
<1>1. ASSUME StorageInv
      PROVE  ReleasedOnceInOrder
  <2>1. \A k \in DOMAIN released : Committed(released[k])
    BY <1>1 DEF StorageInv, ReleasedIsStored, Committed
  <2>2. \A k \in DOMAIN released :
          /\ Position(released[k]) \in DOMAIN journal
          /\ journal[Position(released[k])].id = released[k]
    BY <2>1 DEF Committed, Position
  <2> QED BY <1>1, <2>1, <2>2 DEF StorageInv, ReleasedIsStored, ReleasedOnceInOrder
<1> QED BY <1>1, StorageSafe, PTL
==============================================================================

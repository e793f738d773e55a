-------------------------- MODULE SessionQueueProofs --------------------------
(***************************************************************************)
(* What a session stores and says of it, for every value of the constants. *)
(* Every batch was admitted by the state it follows, so that configuration *)
(* and system batches keep to the boundaries of turns, and queued inputs   *)
(* take their turns once and in order.  What is answered accepted is       *)
(* stored, and what is answered ignored, busy or refused is not and never  *)
(* will be: the argument follows every request through the one place where *)
(* it waits for what becomes of it.                                        *)
(***************************************************************************)
EXTENDS SessionStorageProofs

-----------------------------------------------------------------------------
\* Sequences

\* The elements of a sequence that one is appended to.
LEMMA AppendCases ==
  ASSUME NEW S, NEW s \in Seq(S), NEW e
  PROVE  \A i \in DOMAIN Append(s, e) :
           \/ i \in DOMAIN s /\ Append(s, e)[i] = s[i]
           \/ i = Len(s) + 1 /\ Append(s, e)[i] = e
<1> DEFINE T == S \cup {e}
<1>1. s \in Seq(T) /\ e \in T
  OBVIOUS
<1> HIDE DEF T
<1> QED BY <1>1

\* What is left of a sequence that has lost its head.
LEMMA TailCases ==
  ASSUME NEW S, NEW s \in Seq(S), s # << >>
  PROVE  /\ Head(s) = s[1] /\ 1 \in DOMAIN s /\ Tail(s) \in Seq(S)
         /\ \A i \in DOMAIN Tail(s) : i + 1 \in DOMAIN s /\ i + 1 # 1 /\ Tail(s)[i] = s[i + 1]
OBVIOUS

-----------------------------------------------------------------------------
\* IDs of submissions and selections

\* Every decision takes the next event and posts at most a drain.
LEMMA DecideConsumes ==
  ASSUME WriterTypeOK, Decide
  PROVE  /\ mailbox # << >> /\ Event = mailbox[1] /\ Event \in Events
         /\ \E sends \in {<< >>, <<Drain>>} : Consume(sends)
<1>1. mailbox # << >>
  BY DEF Decide, SubmitToDead, SubmitBusy, SubmitQueued, SubmitAdmitted, SelectToDead, Select,
         Reselect, StoredCurrent, StoredSuperseded, DrainSelection, DrainDequeue, DrainQueue,
         DrainNothing, AppendCommitted, AppendIndeterminate, AppendRefused, LoadedCommitted,
         LoadedAbsent, LoadedUnusable, StorageIgnored, Close, Deciding
<1>2. Event = mailbox[1] /\ Event \in Events
  BY <1>1, MailboxType DEF Event, WriterTypeOK
<1>3. \E sends \in {<< >>, <<Drain>>} : Consume(sends)
  <2>1. CASE Leaves \/ Stops
    BY <2>1 DEF Leaves, Stops
  <2>2. CASE Stages
    BY <2>2 DEF Stages, StageAppend
  <2>3. CASE (AppendCommitted /\ Release) \/ LoadedCommitted
    BY <2>3 DEF LoadedCommitted, Release, ReleaseSends
  <2>4. CASE AppendIndeterminate \/ LoadedAbsent
    BY <2>4 DEF AppendIndeterminate, LoadedAbsent
  <2> QED BY <2>1, <2>2, <2>3, <2>4, DecideCases
<1> QED BY <1>1, <1>2, <1>3

\* What is left of the mailbox are events it held, and drains.
LEMMA MailboxLeft ==
  ASSUME mailbox \in Seq(Events), mailbox # << >>,
         NEW sends \in {<< >>, <<Drain>>}, Consume(sends)
  PROVE  /\ mailbox' \in Seq(Events)
         /\ \A i \in DOMAIN mailbox' :
              \/ i + 1 \in DOMAIN mailbox /\ mailbox'[i] = mailbox[i + 1]
              \/ mailbox'[i] = Drain
<1>1. Tail(mailbox) \in Seq(Events) /\ Len(Tail(mailbox)) = Len(mailbox) - 1
      /\ Len(mailbox) \in Nat \ {0}
      /\ \A i \in 1..Len(mailbox) - 1 : Tail(mailbox)[i] = mailbox[i + 1]
  OBVIOUS
<1>2. CASE sends = << >>
  BY <1>1, <1>2, MailboxType DEF Consume
<1>3. CASE sends = <<Drain>>
  <2>1. Drain \in Events
    BY DEF Drain, Events
  <2>2. mailbox' = Append(Tail(mailbox), Drain)
    <3>1. Append(Tail(mailbox), Drain) = Tail(mailbox) \o <<Drain>>
      BY <1>1, <2>1, AppendIsConcat
    <3> QED BY <1>3, <3>1 DEF Consume
  <2> QED BY <1>1, <2>1, <2>2
<1> QED BY <1>2, <1>3

\* A posted event joins those the mailbox holds.
LEMMA MailboxMore ==
  ASSUME mailbox \in Seq(Events), NEW e, mailbox' = Append(mailbox, e)
  PROVE  \A i \in DOMAIN mailbox' :
           \/ i \in DOMAIN mailbox /\ mailbox'[i] = mailbox[i]
           \/ i = Len(mailbox) + 1 /\ mailbox'[i] = e
BY AppendCases

\* The IDs of events, as a decision leaves them and as they are posted.
LEMMA EventsOwn ==
  ASSUME mailbox \in Seq(Events), \A i \in DOMAIN mailbox : EventIsOwn(mailbox[i]),
         \/ mailbox' = mailbox \/ mailbox' = << >>
         \/ mailbox # << >> /\ \E sends \in {<< >>, <<Drain>>} : Consume(sends)
         \/ \E e : mailbox' = Append(mailbox, e) /\ EventIsOwn(e)
  PROVE  \A i \in DOMAIN mailbox' : EventIsOwn(mailbox'[i])
<1>1. EventIsOwn(Drain)
  BY DEF EventIsOwn, Drain
<1>2. CASE mailbox # << >> /\ \E sends \in {<< >>, <<Drain>>} : Consume(sends)
  BY <1>1, <1>2, MailboxLeft
<1>3. CASE \E e : mailbox' = Append(mailbox, e) /\ EventIsOwn(e)
  BY <1>3, MailboxMore
<1> QED BY <1>2, <1>3

\* The selection a decision puts in the place of the pending one has IDs of its own.
LEMMA SelectedOwn ==
  ASSUME WriterTypeOK, IdsAreOwn, NEW id \in AnySelectionIds, NEW mode, NEW stored \in BOOLEAN,
         ~stored => id \in SelectionIds
  PROVE  SelectionIsOwn(Selected(id, mode, stored))
<1>1. selection # None => SelectionIsOwn(selection)
  BY DEF IdsAreOwn
<1> QED BY <1>1 DEF Selected, SelectionIsOwn

\* What becomes of a selection that a decision acts on.
LEMMA SelectionKept ==
  ASSUME NEW sel, NEW known, ApplySelection(sel, known) \/ SettleStored(sel, known)
  PROVE  queue' = queue /\ storing' = storing /\ selection' \in {sel, None}
<1>1. ApplySelection(sel, known) =>
        queue' = queue /\ storing' = storing /\ selection' \in {sel, None}
  BY DEF ApplySelection, StageAppend
<1> QED BY <1>1 DEF SettleStored

\* What becomes of the queue and the selection when a submission is admitted.
LEMMA AdmitKept ==
  ASSUME NEW s, NEW rest, NEW again, Admit(s, rest, again)
  PROVE  queue' \in {rest, << >>} /\ storing' = storing /\ selection' \in {selection, None}
BY DEF Admit, StageAppend, Stop

\* Decisions keep the IDs of the queue, the selection and its writes.
LEMMA DecideOwn ==
  ASSUME WriterTypeOK, IdsAreOwn, Decide
  PROVE  IdsAreOwn'
<1>1. /\ mailbox # << >> /\ Event = mailbox[1] /\ Event \in Events /\ EventIsOwn(Event)
      /\ mailbox \in Seq(Events) /\ queue \in Seq(Submission)
      /\ storing \in Seq([id : Ids, mode : Mode])
      /\ selection \in Selection \cup {None}
      /\ \E sends \in {<< >>, <<Drain>>} : Consume(sends)
  <2>1. mailbox # << >> /\ Event = mailbox[1] /\ Event \in Events
        /\ \E sends \in {<< >>, <<Drain>>} : Consume(sends)
    BY DecideConsumes
  <2>2. mailbox \in Seq(Events)
    BY DEF WriterTypeOK
  <2>3. EventIsOwn(Event)
    BY <2>1, <2>2 DEF IdsAreOwn
  <2> QED BY <2>1, <2>2, <2>3 DEF WriterTypeOK
<1>2. \A i \in DOMAIN mailbox' : EventIsOwn(mailbox'[i])
  BY <1>1, EventsOwn DEF IdsAreOwn
<1> DEFINE QueueOwn     == \A i \in DOMAIN queue : SubmissionIsOwn(queue[i])
           StoringOwn   == \A i \in DOMAIN storing : storing[i].id \in SelectionIds
           SelectionOwn == selection # None => SelectionIsOwn(selection)
<1>3. QueueOwn /\ StoringOwn /\ SelectionOwn
  BY DEF IdsAreOwn
<1>4. (queue' = << >> \/ queue' = queue) => QueueOwn'
  BY <1>3
<1>5. storing' = storing => StoringOwn'
  BY <1>3
<1>6. (selection' \in {selection, None} \/ SelectionIsOwn(selection')) => SelectionOwn'
  BY <1>3
<1> HIDE DEF StoringOwn, SelectionOwn
<1>7. CASE SubmitQueued
  <2>1. QueueOwn'
    <3> DEFINE s == [id |-> Event.id, input |-> Event.input]
    <3>1. s \in Submission
      BY <1>1, <1>7, EventFields DEF SubmitQueued, Deciding, Event, Submission
    <3>2. SubmissionIsOwn(s)
      BY <1>1, <1>7 DEF SubmitQueued, Deciding, Event, EventIsOwn, SubmissionIsOwn
    <3>3. queue' = Append(queue, s)
      BY <1>7 DEF SubmitQueued
    <3> HIDE DEF s
    <3> QED BY <1>1, <1>3, <3>1, <3>2, <3>3
  <2> QED BY <1>2, <1>5, <1>6, <1>7, <2>1
          DEF SubmitQueued, effectVars, IdsAreOwn, StoringOwn, SelectionOwn
<1>8. CASE DrainQueue
  <2>1. Admit(Head(queue), Tail(queue), <<Drain>>) /\ queue # << >>
    BY <1>8 DEF DrainQueue
  <2>2. queue' \in {Tail(queue), << >>} /\ storing' = storing /\ selection' \in {selection, None}
    BY <2>1, AdmitKept
  <2>3. \A i \in DOMAIN Tail(queue) : i + 1 \in DOMAIN queue /\ Tail(queue)[i] = queue[i + 1]
    BY <1>1, <2>1, TailCases
  <2>4. QueueOwn'
    BY <1>3, <1>4, <2>2, <2>3
  <2> QED BY <1>2, <1>5, <1>6, <2>2, <2>4 DEF IdsAreOwn, StoringOwn, SelectionOwn
<1>9. CASE SubmitAdmitted \/ DrainDequeue
  <2>1. /\ queue' \in {queue, << >>} /\ storing' = storing
        /\ selection' \in {selection, None}
    BY <1>9, AdmitKept DEF SubmitAdmitted, DrainDequeue
  <2> QED BY <1>2, <1>4, <1>5, <1>6, <2>1 DEF IdsAreOwn, StoringOwn, SelectionOwn
<1>10. CASE Select
  <2>1. Event.id \in SelectionIds
    BY <1>1, <1>10 DEF Select, Deciding, Event, EventIsOwn
  <2>2. StoringOwn'
    <3>1. PICK m : storing' = Append(storing, [id |-> Event.id, mode |-> m])
      BY <1>10 DEF Select
    <3>2. \A i \in DOMAIN storing' :
            \/ i \in DOMAIN storing /\ storing'[i] = storing[i]
            \/ storing'[i] = [id |-> Event.id, mode |-> m]
      BY <1>1, <3>1, AppendCases
    <3> QED BY <1>3, <2>1, <3>2 DEF StoringOwn
  <2>3. SelectionIsOwn(selection')
    <3>1. PICK m : selection' = Selected(Event.id, m, FALSE)
      BY <1>10 DEF Select
    <3> QED BY <2>1, <3>1, SelectedOwn DEF AnySelectionIds
  <2>4. queue' = queue
    BY <1>10 DEF Select
  <2> QED BY <1>2, <1>4, <1>6, <2>2, <2>3, <2>4 DEF IdsAreOwn, StoringOwn, SelectionOwn
<1>11. CASE Reselect
  <2> DEFINE sel == Selected(Event.id, Event.mode, TRUE)
  <2>1. SelectionIsOwn(sel)
    BY <1>1, <1>11, SelectedOwn DEF Reselect, Deciding, Event, EventIsOwn, AnySelectionIds
  <2>2. SettleStored(sel, Superseded)
    BY <1>11 DEF Reselect
  <2> HIDE DEF sel
  <2>3. queue' = queue /\ storing' = storing /\ selection' \in {sel, None}
    BY <2>2, SelectionKept
  <2> QED BY <1>2, <1>4, <1>5, <1>6, <2>1, <2>3 DEF IdsAreOwn, StoringOwn, SelectionOwn
<1>12. CASE StoredCurrent
  <2>1. selection # None /\ selection \in Selection /\ SelectionIsOwn(selection)
    BY <1>1, <1>3, <1>12 DEF StoredCurrent, SelectionOwn
  <2>2. queue' = queue /\ storing' = storing
    BY <1>12, SelectionKept DEF StoredCurrent
  <2>3. selection' = None \/ SelectionIsOwn(selection')
    <3>1. ASSUME NEW known, SettleStored([selection EXCEPT !.stored = TRUE], known)
          PROVE  selection' = None \/ SelectionIsOwn(selection')
      <4> DEFINE sel == [selection EXCEPT !.stored = TRUE]
      <4>1. SelectionIsOwn(sel)
        BY <2>1 DEF SelectionIsOwn, Selection
      <4>2. selection' \in {sel, None}
        BY <3>1, SelectionKept
      <4> QED BY <4>1, <4>2
    <3>2. ASSUME NEW known, NEW m, NEW r, selection.fallback # None,
                 SettleStored([id |-> selection.fallback.id, mode |-> m, stored |-> TRUE,
                               revokes |-> r, fallback |-> None], known)
          PROVE  selection' = None \/ SelectionIsOwn(selection')
      <4> DEFINE sel == [id |-> selection.fallback.id, mode |-> m, stored |-> TRUE,
                         revokes |-> r, fallback |-> None]
      <4>1. SelectionIsOwn(sel)
        BY <2>1, <3>2 DEF SelectionIsOwn
      <4>2. selection' \in {sel, None}
        BY <3>2, SelectionKept
      <4> QED BY <4>1, <4>2
    <3> QED BY <1>12, <3>1, <3>2 DEF StoredCurrent
  <2> QED BY <1>2, <1>4, <1>5, <1>6, <2>2, <2>3 DEF IdsAreOwn, StoringOwn, SelectionOwn
<1>13. CASE StoredSuperseded
  <2>1. Event.id \in SelectionIds
    BY <1>1, <1>13 DEF StoredSuperseded, Deciding, Event, EventIsOwn
  <2>2. selection' = selection \/ SelectionIsOwn(selection')
    <3>1. CASE Event.ok /\ selection # None
      <4> DEFINE fallback == [id |-> Event.id, mode |-> Event.mode, revokes |-> selection.revokes]
      <4>1. selection' = [selection EXCEPT !.fallback = fallback]
        BY <1>13, <3>1 DEF StoredSuperseded
      <4>2. selection \in Selection /\ SelectionIsOwn(selection)
        BY <1>1, <1>3, <3>1 DEF SelectionOwn
      <4>3. fallback.id \in AnySelectionIds
        BY <2>1 DEF AnySelectionIds
      <4> HIDE DEF fallback
      <4> QED BY <4>1, <4>2, <4>3 DEF SelectionIsOwn, Selection
    <3> QED BY <1>13, <3>1 DEF StoredSuperseded
  <2> QED BY <1>2, <1>4, <1>5, <1>6, <1>13, <2>2
          DEF StoredSuperseded, IdsAreOwn, StoringOwn, SelectionOwn
<1>14. CASE DrainSelection
  <2>1. queue' = queue /\ storing' = storing /\ selection' \in {selection, None}
    BY <1>14, SelectionKept DEF DrainSelection
  <2> QED BY <1>2, <1>4, <1>5, <1>6, <2>1 DEF IdsAreOwn, StoringOwn, SelectionOwn
<1>15. CASE \/ SubmitToDead \/ SubmitBusy \/ SelectToDead \/ DrainNothing
            \/ AppendCommitted \/ AppendIndeterminate \/ AppendRefused
            \/ LoadedCommitted \/ LoadedAbsent \/ LoadedUnusable \/ StorageIgnored \/ Close
  <2>1. /\ queue' \in {queue, << >>} /\ storing' = storing
        /\ selection' \in {selection, None}
    BY <1>15
       DEF SubmitToDead, SubmitBusy, SelectToDead, DrainNothing, AppendCommitted,
           AppendIndeterminate, AppendRefused, LoadedCommitted, LoadedAbsent, LoadedUnusable,
           StorageIgnored, Close, Stop, Release, effectVars
  <2> QED BY <1>2, <1>4, <1>5, <1>6, <2>1 DEF IdsAreOwn, StoringOwn, SelectionOwn
<1> QED
  BY <1>7, <1>8, <1>9, <1>10, <1>11, <1>12, <1>13, <1>14, <1>15 DEF Decide

\* The inputs the session and its clients submit go under IDs of their own.
LEMMA SubmitsOwn ==
  /\ \A u \in Users : EventIsOwn(Submit(UserId(u), UserInput(u)))
  /\ \A s \in Systems : EventIsOwn(Submit(<<"system", s>>, SystemInput))
  /\ \A a \in Aborts : EventIsOwn(Submit(<<"abort", a>>, AbortInput))
  /\ \A t, g, r : EventIsOwn(Submit(ChildId(t, g), ChildInput(t, g, r)))
  /\ \A t : EventIsOwn(Submit(RecoveryId(t), RecoveryInput(t)))
  /\ EventIsOwn(Submit(CreateId, Created))
BY DEF EventIsOwn, SubmissionIsOwn, Submit, IdsOf, UserInput, SystemInput, AbortInput, ChildInput, RecoveryInput,
       Created

\* What a step does to the IDs on their way when it is no decision of the actor.
LEMMA OutsideOwn ==
  ASSUME TypeOK, IdsAreOwn, UNCHANGED <<queue, selection>>,
         storing' = storing \/ (storing # << >> /\ storing' = Tail(storing)),
         \/ mailbox' = mailbox
         \/ \E e : mailbox' = Append(mailbox, e) /\ EventIsOwn(e)
  PROVE  IdsAreOwn'
<1>1. \A i \in DOMAIN mailbox' : EventIsOwn(mailbox'[i])
  BY EventsOwn DEF IdsAreOwn, TypeOK, WriterTypeOK
<1>2. \A i \in DOMAIN storing' : storing'[i].id \in SelectionIds
  <2>1. CASE storing # << >> /\ storing' = Tail(storing)
    <3>1. \A i \in DOMAIN Tail(storing) :
            i + 1 \in DOMAIN storing /\ Tail(storing)[i] = storing[i + 1]
      BY <2>1, TailCases DEF TypeOK, WriterTypeOK
    <3> QED BY <2>1, <3>1 DEF IdsAreOwn
  <2> QED BY <2>1 DEF IdsAreOwn
<1> QED BY <1>1, <1>2 DEF IdsAreOwn

\* Every step keeps the IDs on their way of their own kind.
LEMMA IdsStep ==
  ASSUME TypeOK, GoneIsQuiet, IdsAreOwn, [Next]_vars
  PROVE  IdsAreOwn'
<1>1. CASE WriterDecides
  BY <1>1, DecideOwn DEF WriterDecides, TypeOK
<1>2. CASE Client
  <2>1. ASSUME NEW id, NEW e, SendRequest(id, e), EventIsOwn(e)
        PROVE  IdsAreOwn'
    BY <2>1, OutsideOwn DEF SendRequest, Post
  <2>2. ASSUME NEW u \in Users, SendUser(u)
        PROVE  IdsAreOwn'
    BY <2>1, <2>2, SubmitsOwn DEF SendUser
  <2>3. ASSUME NEW s \in Systems, SendSystem(s)
        PROVE  IdsAreOwn'
    BY <2>1, <2>3, SubmitsOwn DEF SendSystem
  <2>4. ASSUME NEW a \in Aborts, SendAbort(a)
        PROVE  IdsAreOwn'
    BY <2>1, <2>4, SubmitsOwn DEF SendAbort
  <2>5. ASSUME NEW c \in Selects, NEW patch \in Patches, SendSelect(c, patch)
        PROVE  IdsAreOwn'
    <3> DEFINE e == [type |-> "select", id |-> <<"select", c>>, patch |-> patch]
    <3>1. EventIsOwn(e)
      BY DEF EventIsOwn, SelectionIds
    <3>2. SendRequest(<<"select", c>>, e)
      BY <2>5 DEF SendSelect
    <3> HIDE DEF e
    <3> QED BY <2>1, <3>1, <3>2
  <2>6. CASE SendClose
    <3>1. EventIsOwn([type |-> "close"])
      BY DEF EventIsOwn
    <3> QED BY <2>6, <3>1, OutsideOwn DEF SendClose, Post, unposted
  <2> QED BY <1>2, <2>2, <2>3, <2>4, <2>5, <2>6 DEF Client
<1>3. CASE Host
  <2>1. PICK op, r : ChildSettles(op, r)
    BY <1>3 DEF Host
  <2>2. EventIsOwn(Submit(ChildId(op.turn, op.generation),
                          ChildInput(op.turn, op.generation, r)))
    BY SubmitsOwn
  <2> QED BY <2>1, <2>2, OutsideOwn DEF ChildSettles, Post
<1>4. CASE Port
  <2>1. ASSUME NEW request, NEW result, NEW revision, Appended(request, result, revision)
        PROVE  IdsAreOwn'
    <3> DEFINE e == [type |-> "appended", id |-> request.id, result |-> result,
                     revision |-> revision]
    <3>1. EventIsOwn(e)
      BY DEF EventIsOwn
    <3>2. mailbox' = Append(mailbox, e) /\ UNCHANGED <<queue, selection, storing>>
      BY <2>1 DEF Appended, Post, unposted
    <3> HIDE DEF e
    <3> QED BY <3>1, <3>2, OutsideOwn
  <2>2. CASE PortLoads
    <3>1. PICK e : mailbox' = Append(mailbox, e) /\ e.type = "loaded"
      BY <2>2 DEF PortLoads, Post
    <3>2. EventIsOwn(e)
      BY <3>1 DEF EventIsOwn
    <3> QED BY <2>2, <3>1, <3>2, OutsideOwn DEF PortLoads, unposted
  <2>3. CASE PortStores
    <3>1. Head(storing).id \in SelectionIds
      BY <2>3, TailCases DEF PortStores, IdsAreOwn, TypeOK, WriterTypeOK
    <3>2. PICK e : mailbox' = Append(mailbox, e) /\ e.type = "stored" /\ e.id = Head(storing).id
      BY <2>3 DEF PortStores, Post
    <3>3. EventIsOwn(e)
      BY <3>1, <3>2 DEF EventIsOwn
    <3> QED BY <2>3, <3>2, <3>3, OutsideOwn DEF PortStores, unposted
  <2> QED
    BY <1>4, <2>1, <2>2, <2>3
       DEF Port, PortAppends, PortLosesAck, PortRejects, PortMisreports, PortCancels
<1>5. CASE Vanish
  BY <1>5 DEF Vanish, IdsAreOwn
<1>6. CASE ForeignAppends \/ OrphanLands
  BY <1>6, OutsideOwn DEF ForeignAppends, OrphanLands, NotWriter, writerVars, effectVars
<1>7. CASE RestoreConfig
  BY <1>7, OutsideOwn, SubmitsOwn DEF RestoreConfig, Post, unposted
<1>8. CASE RestoreReselects
  <2>1. restores \in Nat
    BY BoundsAssumption DEF TypeOK
  <2>2. EventIsOwn([type |-> "reselect", id |-> <<"reselect", restores>>, mode |-> seen])
    BY <2>1 DEF EventIsOwn
  <2> QED BY <1>8, <2>2, OutsideOwn DEF RestoreReselects, Opens, Post
<1>9. CASE CreateDone \/ RestoreJournal \/ RestoreRecovered \/ RestoreDone
  BY <1>9, OutsideOwn DEF CreateDone, RestoreJournal, RestoreRecovered, RestoreDone, Opens
<1>10. CASE UNCHANGED vars
  BY <1>10, OutsideOwn DEF vars, writerVars, effectVars
<1> QED
  BY <1>1, <1>2, <1>3, <1>4, <1>5, <1>6, <1>7, <1>8, <1>9, <1>10
     DEF Next, World, Crash, Opening, CreateFailed, RestoreFailed

-----------------------------------------------------------------------------
\* Requests

\* The end of the journal is the state of all its batches.
LEMMA TipIsLast ==
  ASSUME StorageInv
  PROVE  /\ journal \in Seq(Batches) /\ Len(journal) \in Nat
         /\ Tip = StateAt(Len(journal)) /\ Tip.revision = Len(journal) /\ Tip \in JournalState
<1>1. journal \in Seq(Batches) /\ Len(journal) \in Nat /\ Tip \in JournalState
  BY TipType DEF StorageInv, TypeOK
<1> QED BY <1>1 DEF StorageInv, Tip, StateAt, EmptyJournal, JournalIsIndexed

\* Everything under way was staged against a stored prefix of the journal.
LEMMA UnderwayIsStaged ==
  ASSUME StorageInv
  PROVE  \A r \in Underway : r \in Batches /\ StagedOn(r)
<1>1. pending # None => Batch(pending) \in Batches
  BY DEF StorageInv, TypeOK, WriterTypeOK, Pending, Batch, Batches
<1>2. Appending => io.request \in Batches
  BY DEF StorageInv, TypeOK, WriterTypeOK, StorageCall, Appending
<1> QED BY <1>1, <1>2 DEF StorageInv, TypeOK, RequestsAreStaged, Underway

\* What another process writes was staged against the end of the journal, which
\* admits it.
LEMMA ForeignIsFit ==
  ASSUME StorageInv, ForeignAppends
  PROVE  \E r \in Batches : /\ StagedOn(r) /\ Fit(r) /\ Write(r)
                            /\ \/ r.id = RecoveryId(Tip.turn)
                               \/ \E n \in Nat : r.id = <<"foreign", n>>
<1> DEFINE interrupted == Active(Tip) \/ Tip.pendingInputs # << >>
           input == IF interrupted THEN RecoveryInput(Tip.turn) ELSE SystemInput
           id    == IF interrupted THEN RecoveryId(Tip.turn) ELSE <<"foreign", foreign>>
           r     == [id |-> id, expected |-> Len(journal), input |-> input,
                     next |-> Stage(Tip, input)]
<1>1. foreign \in Nat /\ Tip.turn \in Nat
  BY TipIsLast, BoundsAssumption, JournalFields DEF StorageInv, TypeOK
<1>2. input \in Inputs /\ input.kind # "dequeued"
  BY <1>1 DEF Inputs, RecoveryInput, SystemInput
<1>3. id \in Ids
  BY <1>1, IdTypes
<1>4. Stage(Tip, input) \in JournalState /\ Stage(Tip, input).revision = Len(journal) + 1
  BY <1>2, TipIsLast, StageType
<1>5. r \in Batches
  BY <1>2, <1>3, <1>4, TipIsLast DEF Batches
<1>6. StagedOn(r)
  BY <1>4, TipIsLast DEF StagedOn
<1>7. Fit(r)
  <2>1. id \in IdsOf(input)
    BY <1>1 DEF IdsOf, RecoveryInput, SystemInput
  <2>2. Admissible(Tip, input)
    BY DEF Admissible, Accepts, Stageable, RecoveryStageable, RecoveryInput, SystemInput
  <2> QED BY <2>1, <2>2, TipIsLast DEF Fit
<1>8. Write(r)
  BY DEF ForeignAppends
<1>9. r.id = RecoveryId(Tip.turn) \/ \E n \in Nat : r.id = <<"foreign", n>>
  BY <1>1
<1> HIDE DEF r
<1> QED BY <1>5, <1>6, <1>7, <1>8, <1>9

\* The journal changes only by a write of a request that is under way or of another
\* process, and only such that the end of the journal admits it.
LEMMA WriteCases ==
  ASSUME StorageInv, RequestsAreFit, [Next]_vars
  PROVE  \/ journal' = journal
         \/ \E r \in Batches : /\ StagedOn(r) /\ Fit(r) /\ Write(r)
                               /\ r \in Underway \/ ForeignAppends
<1> USE UnderwayIsStaged DEF RequestsAreFit
<1>1. CASE WriterDecides \/ Client \/ Host \/ Opening \/ Crash \/ UNCHANGED vars
  <2>1. CASE WriterDecides
    BY <2>1 DEF WriterDecides, storeVars
  <2>2. CASE Client
    BY <2>2 DEF Client, SendUser, SendSystem, SendAbort, SendSelect, SendClose, SendRequest,
                storeVars, sessionVars
  <2>3. CASE Host
    BY <2>3 DEF Host, ChildSettles, sessionVars, storeVars
  <2>4. CASE Opening \/ Crash
    BY <2>4 DEF Opening, CreateDone, CreateFailed, RestoreJournal, RestoreConfig,
                RestoreRecovered, RestoreFailed, RestoreReselects, RestoreDone, Opens, Crash,
                Vanish, storeVars
  <2>5. CASE UNCHANGED vars
    BY <2>5 DEF vars, sessionVars, storeVars
  <2> QED BY <1>1, <2>1, <2>2, <2>3, <2>4, <2>5
<1>2. CASE Port
  <2>1. journal' = journal \/ (Appending /\ Write(io.request))
    BY <1>2 DEF Port, PortAppends, PortLosesAck, PortRejects, PortMisreports, PortCancels,
                PortLoads, PortStores, storeVars
  <2>2. Appending => io.request \in Underway
    BY DEF Underway
  <2> QED BY <2>1, <2>2
<1>3. CASE ForeignAppends
  BY <1>3, ForeignIsFit
<1>4. CASE OrphanLands
  <2>1. journal' = journal \/ \E r \in orphans : Write(r)
    BY <1>4 DEF OrphanLands
  <2>2. \A r \in orphans : r \in Underway
    BY DEF Underway
  <2> QED BY <2>1, <2>2
<1> QED BY <1>1, <1>2, <1>3, <1>4 DEF Next, World

\* A submission that is staged is one the writer's state admits, under an ID of its own.
StagesFit ==
  /\ status = "ready"
  /\ \E s \in Submission, rest \in Seq(Submission) :
       /\ s.id \in IdsOf(s.input)
       /\ Admissible(durable, s.input)
       /\ StageAppend(s, rest)

\* A submission that a ready writer does not stage leaves the append in flight alone,
\* or stops the writer.
LEMMA AdmitFits ==
  ASSUME WriterTypeOK, status = "ready",
         NEW s \in Submission, NEW rest \in Seq(Submission), NEW again,
         s.id \in IdsOf(s.input), Admit(s, rest, again)
  PROVE  StagesFit \/ (pending' \in {pending, None} /\ io' = io)
<1>1. CASE Refusal(s) = "none" /\ StageAppend(s, rest)
  <2>1. ~Busy(s) /\ Accepts(durable, s.input) /\ Stageable(durable, s.input)
    BY <1>1 DEF Refusal
  <2>2. Admissible(durable, s.input)
    BY <2>1 DEF Admissible, Busy
  <2> QED BY <1>1, <2>2 DEF StagesFit
<1> QED BY <1>1 DEF Admit, Stop

\* Likewise a selection, whose configuration is staged between turns only.
LEMMA SelectionFits ==
  ASSUME WriterTypeOK, NEW sel \in Selection, NEW known, sel.id \in AnySelectionIds,
         \/ SettleStored(sel, known)
         \/ AtBoundary(sel) /\ ApplySelection(sel, known)
  PROVE  StagesFit \/ (pending' = pending /\ io' = io)
<1>1. CASE AtBoundary(sel) /\ ApplySelection(sel, known)
  <2>1. CASE StageAppend([id |-> sel.id, input |-> PolicyInput(sel.mode)], queue)
    <3> DEFINE s == [id |-> sel.id, input |-> PolicyInput(sel.mode)]
    <3>1. PolicyInput(sel.mode) \in Inputs /\ PolicyInput(sel.mode).kind = "policy"
      BY DEF Inputs, PolicyInput, Selection
    <3>2. s \in Submission /\ s.id \in IdsOf(s.input)
      BY <3>1 DEF Submission, Selection, IdsOf
    <3>3. Admissible(durable, s.input)
      <4>1. s.input.kind = "policy" /\ ~Active(durable)
        BY <1>1, <3>1 DEF AtBoundary
      <4> HIDE DEF s
      <4> QED BY <4>1 DEF Admissible, Accepts, Stageable
    <3> HIDE DEF s
    <3>4. StageAppend(s, queue) /\ status = "ready" /\ queue \in Seq(Submission)
      BY <1>1, <2>1 DEF s, AtBoundary, WriterTypeOK
    <3> QED BY <3>2, <3>3, <3>4 DEF StagesFit
  <2> QED BY <1>1, <2>1 DEF ApplySelection
<1>2. CASE SettleStored(sel, known) /\ ~AtBoundary(sel)
  BY <1>2 DEF SettleStored
<1> QED BY <1>1, <1>2 DEF SettleStored

\* Whatever a decision leaves in flight was in flight before, or is an admissible
\* submission that it staged.
LEMMA DecideFits ==
  ASSUME WriterTypeOK, IdsAreOwn, Decide
  PROVE  \/ StagesFit
         \/ pending' \in {pending, None} /\ io' = io
         \/ AppendIndeterminate \/ LoadedAbsent
<1>1. /\ mailbox # << >> /\ Event = mailbox[1] /\ Event \in Events /\ EventIsOwn(Event)
      /\ mailbox \in Seq(Events) /\ queue \in Seq(Submission)
      /\ selection \in Selection \cup {None}
  <2>1. mailbox # << >> /\ Event = mailbox[1] /\ Event \in Events
    BY DecideConsumes
  <2>2. mailbox \in Seq(Events)
    BY DEF WriterTypeOK
  <2>3. EventIsOwn(Event)
    BY <2>1, <2>2 DEF IdsAreOwn
  <2> QED BY <2>1, <2>2, <2>3 DEF WriterTypeOK
<1>2. CASE SubmitAdmitted
  <2> DEFINE s == [id |-> Event.id, input |-> Event.input]
  <2>1. Event.type = "submit"
    BY <1>2 DEF SubmitAdmitted, Deciding, Event
  <2>2. s \in Submission /\ s.id \in IdsOf(s.input)
    BY <1>1, <2>1, EventFields DEF Submission, EventIsOwn, SubmissionIsOwn
  <2>3. status = "ready" /\ << >> \in Seq(Submission) /\ Admit(s, << >>, << >>)
    BY <1>2 DEF SubmitAdmitted, MustQueue
  <2> HIDE DEF s
  <2> QED BY <2>2, <2>3, AdmitFits
<1>3. CASE DrainQueue
  <2>1. Head(queue) = queue[1] /\ 1 \in DOMAIN queue /\ Tail(queue) \in Seq(Submission)
    BY <1>1, <1>3, TailCases DEF DrainQueue
  <2>2. Head(queue) \in Submission /\ Head(queue).id \in IdsOf(Head(queue).input)
    BY <1>1, <2>1 DEF IdsAreOwn, SubmissionIsOwn
  <2> QED BY <1>3, <2>1, <2>2, AdmitFits DEF DrainQueue
<1>4. CASE DrainDequeue
  <2> DEFINE u == Head(durable.pendingInputs)
             s == [id |-> DequeueId(u), input |-> DequeuedInput(u)]
  <2>1. u \in Users
    BY <1>4, JournalFields DEF DrainDequeue, DequeueDue, WriterTypeOK
  <2>2. DequeueId(u) \in Ids /\ DequeuedInput(u) \in Inputs
    BY <2>1, IdTypes DEF Inputs
  <2>3. s \in Submission /\ s.id \in IdsOf(s.input)
    BY <2>2 DEF Submission, IdsOf, DequeuedInput
  <2>4. Admit(s, queue, << >>) /\ status = "ready"
    BY <1>4 DEF DrainDequeue
  <2> HIDE DEF s
  <2> QED BY <1>1, <2>3, <2>4, AdmitFits
<1>5. CASE Reselect
  <2>1. Event.type = "reselect"
    BY <1>5 DEF Reselect, Deciding, Event
  <2>2. /\ Selected(Event.id, Event.mode, TRUE) \in Selection
        /\ Selected(Event.id, Event.mode, TRUE).id = Event.id
        /\ Event.id \in AnySelectionIds
    BY <1>1, <2>1, EventFields, SelectedType DEF Selected, EventIsOwn, AnySelectionIds
  <2> QED BY <1>5, <2>2, SelectionFits DEF Reselect
<1>6. CASE StoredCurrent
  <2>1. selection \in Selection /\ SelectionIsOwn(selection)
    BY <1>1, <1>6 DEF StoredCurrent, IdsAreOwn
  <2>2. ASSUME NEW known, SettleStored([selection EXCEPT !.stored = TRUE], known)
        PROVE  StagesFit \/ (pending' = pending /\ io' = io)
    <3> DEFINE sel == [selection EXCEPT !.stored = TRUE]
    <3>1. sel \in Selection /\ sel.id \in AnySelectionIds
      BY <2>1 DEF Selection, SelectionIsOwn
    <3>2. SettleStored(sel, known)
      BY <2>2
    <3> HIDE DEF sel
    <3> QED BY <3>1, <3>2, SelectionFits
  <2>3. ASSUME NEW known, selection.fallback # None,
               SettleStored([id |-> selection.fallback.id, mode |-> selection.fallback.mode,
                             stored |-> TRUE, revokes |-> selection.fallback.revokes,
                             fallback |-> None], known)
        PROVE  StagesFit \/ (pending' = pending /\ io' = io)
    <3> DEFINE sel == [id |-> selection.fallback.id, mode |-> selection.fallback.mode,
                       stored |-> TRUE, revokes |-> selection.fallback.revokes,
                       fallback |-> None]
    <3>1. sel \in Selection /\ sel.id \in AnySelectionIds
      BY <2>1, <2>3 DEF Selection, Fallback, SelectionIsOwn
    <3>2. SettleStored(sel, known)
      BY <2>3
    <3> HIDE DEF sel
    <3> QED BY <3>1, <3>2, SelectionFits
  <2> QED BY <1>6, <2>2, <2>3 DEF StoredCurrent
<1>7. CASE DrainSelection
  <2>1. selection \in Selection /\ selection.id \in AnySelectionIds
    BY <1>1, <1>7 DEF DrainSelection, AtBoundary, IdsAreOwn, SelectionIsOwn
  <2> QED BY <1>7, <2>1, SelectionFits DEF DrainSelection
<1>8. CASE AppendCommitted \/ LoadedCommitted
  BY <1>8 DEF AppendCommitted, LoadedCommitted, Release, Stop
<1>9. CASE \/ SubmitToDead \/ SubmitBusy \/ SubmitQueued \/ SelectToDead \/ Select
           \/ StoredSuperseded \/ DrainNothing \/ AppendRefused \/ LoadedUnusable
           \/ StorageIgnored \/ Close
  BY <1>9 DEF SubmitToDead, SubmitBusy, SubmitQueued, SelectToDead, Select, StoredSuperseded,
              DrainNothing, AppendRefused, LoadedUnusable, StorageIgnored, Close, Stop, effectVars
<1> QED
  BY <1>2, <1>3, <1>4, <1>5, <1>6, <1>7, <1>8, <1>9 DEF Decide

\* What is under way, by the variables it is read from.
LEMMA UnderwayNext ==
  Underway' = (IF pending' # None THEN {Batch(pending')} ELSE {})
                \cup (IF io' # None /\ io'.op = "append" THEN {io'.request} ELSE {}) \cup orphans'
BY DEF Underway, Batch, Appending

\* Only decisions of the actor put more under way.
LEMMA UnderwayLeft ==
  ASSUME Client \/ Host \/ Port \/ World \/ Opening \/ UNCHANGED vars
  PROVE  Underway' \subseteq Underway
<1>1. CASE Vanish
  BY <1>1, UnderwayNext DEF Vanish, Appending, Underway
<1>2. CASE UNCHANGED pending /\ io' \in {io, None} /\ orphans' \subseteq orphans
  BY <1>2, UnderwayNext DEF Appending, Underway, Batch
<1>3. CASE Client
  BY <1>2, <1>3 DEF Client, SendUser, SendSystem, SendAbort, SendSelect, SendClose, SendRequest,
                    lostVars, unposted, sessionVars
<1>4. CASE Host
  BY <1>2, <1>4 DEF Host, ChildSettles, sessionVars, lostVars
<1>5. CASE Port
  BY <1>2, <1>5 DEF Port, PortAppends, PortLosesAck, PortRejects, PortMisreports, PortCancels,
                    PortLoads, PortStores, Appended, unposted, lostVars
<1>6. CASE ForeignAppends \/ OrphanLands
  BY <1>2, <1>6 DEF ForeignAppends, OrphanLands, NotWriter, writerVars, effectVars, lostVars
<1>7. CASE \/ CreateDone \/ RestoreJournal \/ RestoreConfig \/ RestoreRecovered
           \/ RestoreReselects \/ RestoreDone
  BY <1>2, <1>7 DEF CreateDone, RestoreJournal, RestoreConfig, RestoreRecovered,
                    RestoreReselects, RestoreDone, Opens, unposted, lostVars
<1>8. CASE UNCHANGED vars
  BY <1>2, <1>8 DEF vars, writerVars, effectVars, sessionVars, lostVars
<1> QED
  BY <1>1, <1>3, <1>4, <1>5, <1>6, <1>7, <1>8
     DEF World, Crash, Opening, CreateFailed, RestoreFailed

\* Whatever is under way was so before, or is a submission that the writer's state admits.
LEMMA UnderwayStep ==
  ASSUME StorageInv, IdsAreOwn, [Next]_vars
  PROVE  \A r \in Underway' : r \in Underway \/ (StagedOn(r) /\ Fit(r))
<1>1. /\ Underway' = (IF pending' # None THEN {Batch(pending')} ELSE {})
                       \cup (IF Appending' THEN {io'.request} ELSE {}) \cup orphans'
      /\ \A r : Underway = (IF pending # None THEN {Batch(pending)} ELSE {})
                              \cup (IF Appending THEN {io.request} ELSE {}) \cup orphans
  BY DEF Underway, Batch
<1>2. CASE Decide /\ orphans' = orphans
  <2>1. CASE StagesFit
    <3> PICK s \in Submission, rest \in Seq(Submission) :
          /\ s.id \in IdsOf(s.input) /\ Admissible(durable, s.input) /\ StageAppend(s, rest)
      BY <2>1 DEF StagesFit
    <3> DEFINE request == [id |-> s.id, expected |-> durable.revision, input |-> s.input,
                           next |-> Stage(durable, s.input)]
    <3>1. Batch(pending') = request /\ io' = [op |-> "append", request |-> request]
      BY DEF StageAppend, Batch
    <3>2. durable = StateAt(durable.revision) /\ durable.revision \in 0..Len(journal)
          /\ durable \in JournalState
      BY DEF StorageInv, DurableIsStored, TypeOK, WriterTypeOK
    <3>3. Stage(durable, s.input).revision = durable.revision + 1
      <4>1. s.input \in Inputs
        BY DEF Submission
      <4>2. s.input.kind = "dequeued" => durable.pendingInputs # << >>
        BY DEF Admissible, Stageable, DequeueStageable
      <4> QED BY <3>2, <4>1, <4>2, StageType
    <3>4. StagedOn(request) /\ Fit(request)
      BY <3>2, <3>3 DEF StagedOn, Fit
    <3> HIDE DEF request
    <3> QED BY <1>1, <1>2, <3>1, <3>4
  <2>2. CASE pending' \in {pending, None} /\ io' = io
    BY <1>1, <1>2, <2>2 DEF Appending
  <2>3. CASE AppendIndeterminate
    BY <1>1, <1>2, <2>3 DEF AppendIndeterminate, Appending
  <2>4. CASE LoadedAbsent
    <3>1. /\ pending # None /\ Batch(pending') = Batch(pending) /\ io'.request = Batch(pending)
      <4>1. pending \in Pending /\ pending # None
        BY <2>4 DEF LoadedAbsent, InFlight, StorageInv, TypeOK, WriterTypeOK
      <4>2. pending' = [pending EXCEPT !.attempts = @ + 1]
        BY <2>4 DEF LoadedAbsent
      <4>3. Batch(pending') = Batch(pending)
        BY <4>1, <4>2 DEF Pending, Batch
      <4> QED BY <2>4, <4>1, <4>3 DEF LoadedAbsent, Batch
    <3> QED BY <1>1, <1>2, <3>1
  <2> QED BY <1>2, <2>1, <2>2, <2>3, <2>4, DecideFits DEF StorageInv, TypeOK
<1>3. CASE WriterDecides
  BY <1>2, <1>3 DEF WriterDecides, lostVars
<1> QED BY <1>3, UnderwayLeft DEF Next

\* A batch stays admissible to the state it follows as the journal grows.
LEMMA GrowsFit ==
  ASSUME journal \in Seq(Batches), journal' \in Seq(Batches), Grows,
         NEW r, StagedOn(r), Fit(r)
  PROVE  Fit(r)'
<1>1. StateAt(r.expected)' = StateAt(r.expected)
  BY GrowsKeeps DEF StagedOn
<1> QED BY <1>1 DEF Fit

\* What a step stores, and that it stores at the end of what there was.
LEMMA StoreCases ==
  ASSUME StorageInv, RequestsAreFit, [Next]_vars
  PROVE  /\ Grows
         /\ \/ journal' = journal
            \/ \E r \in Batches : /\ StagedOn(r) /\ Fit(r) /\ r.expected = Len(journal)
                                  /\ journal' = Append(journal, r)
                                  /\ r \in Underway \/ ForeignAppends
<1>1. StorageInv'
  BY StorageStep
<1>2. journal \in Seq(Batches)
  BY DEF StorageInv, TypeOK
<1>3. CASE journal' = journal
  BY <1>3 DEF Grows
<1>4. ASSUME NEW r \in Batches, StagedOn(r), Fit(r), Write(r), r \in Underway \/ ForeignAppends,
             journal' # journal
      PROVE  /\ Grows
             /\ r.expected = Len(journal) /\ journal' = Append(journal, r)
  <2>1. r.expected = Len(journal) /\ journal' = Append(journal, Batch(r))
    BY <1>4 DEF Write, Writable
  <2>2. Batch(r) = r
    BY DEF Batch, Batches
  <2>3. Grows
    BY <1>2, <1>4, WriteStep DEF StorageInv
  <2> QED BY <2>1, <2>2, <2>3
<1> QED BY <1>3, <1>4, WriteCases

\* Everything stored or under way stays admissible to the state that it follows.
LEMMA FitStep ==
  ASSUME StorageInv, AdmissionInv, [Next]_vars
  PROVE  RequestsAreFit'
<1>1. /\ StorageInv' /\ RequestsAreFit /\ IdsAreOwn
      /\ journal \in Seq(Batches) /\ journal' \in Seq(Batches) /\ Grows
  BY StorageStep, StoreCases DEF StorageInv, TypeOK, AdmissionInv
<1>2. \A r : StagedOn(r) /\ Fit(r) => Fit(r)'
  BY <1>1, GrowsFit
<1>3. \A i \in DOMAIN journal : StagedOn(journal[i]) /\ Fit(journal[i])
  <2>1. ASSUME NEW i \in DOMAIN journal
        PROVE  StagedOn(journal[i])
    <3>1. /\ journal[i].expected = i - 1 /\ journal[i].next.revision = i
          /\ journal[i].next = Stage(StateAt(i - 1), journal[i].input)
      BY DEF StorageInv, JournalFolds, JournalIsIndexed, Before
    <3>2. i \in 1..Len(journal)
      BY <1>1
    <3> QED BY <1>1, <3>1, <3>2 DEF StagedOn
  <2> QED BY <1>1, <2>1 DEF RequestsAreFit
<1>4. \A i \in DOMAIN journal' : \A r : r = journal'[i] => Fit(r)'
  <2>1. CASE journal' = journal
    BY <1>2, <1>3, <2>1
  <2>2. ASSUME NEW s, StagedOn(s), Fit(s), journal' = Append(journal, s)
        PROVE  \A i \in DOMAIN journal' : \A r : r = journal'[i] => Fit(r)'
    <3>1. \A i \in DOMAIN journal' :
            journal'[i] = s \/ (i \in DOMAIN journal /\ journal'[i] = journal[i])
      BY <1>1, <2>2, AppendCases
    <3> QED BY <1>2, <1>3, <2>2, <3>1
  <2> QED BY <1>1, <2>1, <2>2, StoreCases
<1>5. \A r \in Underway' : Fit(r)'
  <2>1. \A r \in Underway : StagedOn(r) /\ Fit(r)
    BY <1>1, UnderwayIsStaged DEF RequestsAreFit
  <2>2. \A r : r \in Underway' => r \in Underway \/ (StagedOn(r) /\ Fit(r))
    BY <1>1, UnderwayStep
  <2>3. ASSUME NEW r, r \in Underway'
        PROVE  Fit(r)'
    BY <1>2, <2>1, <2>2, <2>3
  <2> QED BY <2>3
<1> QED BY <1>4, <1>5 DEF RequestsAreFit, Fit, StateAt

\* A session is created with the creation record of an absent journal on its way.
LEMMA AdmissionInit == Init => AdmissionInv
<1> SUFFICES ASSUME Init
             PROVE  AdmissionInv
  OBVIOUS
<1>1. RequestsAreFit
  BY DEF Init, RequestsAreFit, Underway, Appending
<1>2. \A i \in DOMAIN mailbox : EventIsOwn(mailbox[i])
  BY SubmitsOwn DEF Init
<1>3. IdsAreOwn
  BY <1>2 DEF Init, IdsAreOwn
<1> QED BY <1>1, <1>3 DEF AdmissionInv

\* What is stored, or may still be, was admitted by the state that it follows, under an
\* ID of its own kind.
THEOREM AdmissionSafe == Spec => [](StorageInv /\ AdmissionInv)
<1>1. Init => StorageInv /\ AdmissionInv
  BY StorageInit, AdmissionInit
<1>2. StorageInv /\ AdmissionInv /\ [Next]_vars => StorageInv' /\ AdmissionInv'
  BY StorageStep, FitStep, IdsStep DEF AdmissionInv, StorageInv
<1> QED BY <1>1, <1>2, PTL DEF Spec

\* Configuration and system batches are stored only between turns, and system batches
\* only while no queued input waits for its turn, whoever writes them and however late
\* they land.
THEOREM BoundariesHold == Spec => []BoundaryRecords
<1>1. ASSUME StorageInv, AdmissionInv
      PROVE  BoundaryRecords
  <2>1. ASSUME NEW i \in DOMAIN journal
        PROVE  Admissible(Before(i), journal[i].input)
    BY <1>1, <2>1 DEF StorageInv, JournalFolds, AdmissionInv, RequestsAreFit, Fit, Before
  <2> QED BY <2>1 DEF BoundaryRecords, Admissible, Stageable
<1> QED BY <1>1, AdmissionSafe, PTL

-----------------------------------------------------------------------------
\* Queued inputs

\* What folding an admissible input does to the inputs that wait for their turn.
LEMMA FoldQueue ==
  ASSUME NEW j \in JournalState, NEW input \in Inputs, Admissible(j, input)
  PROVE  /\ Queues(j, input) =>
              Stage(j, input).pendingInputs = Append(j.pendingInputs, input.user)
         /\ input.kind = "dequeued" =>
              /\ j.pendingInputs # << >> /\ input.user = Head(j.pendingInputs)
              /\ Stage(j, input).pendingInputs = Tail(j.pendingInputs)
         /\ input.kind = "recovery" => Stage(j, input).pendingInputs = << >>
         /\ ~Queues(j, input) /\ input.kind \notin {"dequeued", "recovery"} =>
              Stage(j, input).pendingInputs = j.pendingInputs
<1>1. ASSUME NEW s \in JournalState
      PROVE  /\ Prepare(s).pendingInputs = s.pendingInputs
             /\ EndTurn(s).pendingInputs = s.pendingInputs
             /\ Abort(s).pendingInputs = s.pendingInputs
             /\ \A r : Settle(s, r).pendingInputs = s.pendingInputs
  BY DEF Prepare, EndTurn, Abort, Settle, Run, JournalState
<1>2. Stage(j, input).pendingInputs = Fold(j, input).pendingInputs
  <2>1. CASE input.kind = "dequeued"
    <3>1. [j EXCEPT !.pendingInputs = Tail(@)] \in JournalState
      <4>1. j.pendingInputs # << >>
        BY <2>1 DEF Admissible, Stageable, DequeueStageable
      <4>2. Tail(j.pendingInputs) \in Seq(Users)
        BY <4>1, JournalFields
      <4> QED BY <4>2, SetField
    <3>2. Fold(j, input) \in JournalState
      BY <2>1, <3>1, TurnSteps DEF Fold, Dequeue
    <3> QED BY <3>2 DEF Stage, JournalState
  <2>2. CASE input.kind # "dequeued"
    <3>1. Stage(j, input) \in JournalState
      BY <2>2, StageType
    <3>2. ASSUME NEW f, NEW x, [f EXCEPT !.revision = x] \in JournalState
          PROVE  [f EXCEPT !.revision = x].pendingInputs = f.pendingInputs
      <4>1. "pendingInputs" \in DOMAIN [f EXCEPT !.revision = x]
        BY <3>2 DEF JournalState
      <4>2. "pendingInputs" \in DOMAIN f
        BY <4>1
      <4> QED BY <4>2
    <3> QED BY <3>1, <3>2 DEF Stage
  <2> QED BY <2>1, <2>2
<1>3. ASSUME Queues(j, input)
      PROVE  Fold(j, input).pendingInputs = Append(j.pendingInputs, input.user)
  <2>1. input.kind = "user" /\ input.user \in Users
    BY <1>3, InputFields DEF Queues
  <2>2. Append(j.pendingInputs, input.user) \in Seq(Users)
    BY <2>1, JournalFields
  <2>3. /\ Queue(j, input.user) \in JournalState
        /\ Queue(j, input.user).pendingInputs = Append(j.pendingInputs, input.user)
    BY <2>2, SetField DEF Queue, JournalState
  <2> QED BY <1>1, <1>3, <2>1, <2>3 DEF Fold
<1>4. ASSUME input.kind = "dequeued"
      PROVE  /\ j.pendingInputs # << >> /\ input.user = Head(j.pendingInputs)
             /\ Fold(j, input).pendingInputs = Tail(j.pendingInputs)
  <2>1. j.pendingInputs # << >> /\ input.user = Head(j.pendingInputs)
    BY <1>4 DEF Admissible, Stageable, DequeueStageable
  <2>2. Tail(j.pendingInputs) \in Seq(Users)
    BY <2>1, JournalFields
  <2> DEFINE s == [j EXCEPT !.pendingInputs = Tail(@)]
  <2>3. s \in JournalState /\ s.pendingInputs = Tail(j.pendingInputs)
    BY <2>2, SetField DEF JournalState
  <2>4. Fold(j, input) = Prepare(s)
    BY <1>4 DEF Fold, Dequeue
  <2> HIDE DEF s
  <2> QED BY <1>1, <2>1, <2>3, <2>4
<1>5. ASSUME input.kind = "recovery"
      PROVE  Fold(j, input).pendingInputs = << >>
  <2>1. EndTurn(j) \in JournalState
    BY TurnSteps
  <2>2. Fold(j, input) = Recover(j)
    BY <1>5 DEF Fold
  <2> QED BY <2>1, <2>2 DEF Recover, JournalState
<1>6. ASSUME ~Queues(j, input), input.kind \notin {"dequeued", "recovery"}
      PROVE  Fold(j, input).pendingInputs = j.pendingInputs
  <2>1. [j EXCEPT !.mode = input.mode].pendingInputs = j.pendingInputs
    BY DEF JournalState
  <2> QED BY <1>1, <1>6, <2>1, InputFields DEF Fold
<1> QED BY <1>2, <1>3, <1>4, <1>5, <1>6

EachInOneBatch ==
  \A i, k \in DOMAIN journal :
    /\ journal[i].input.kind \in {"user", "dequeued"}
    /\ journal[i].input.kind = journal[k].input.kind
    /\ SameUser(i, k)
    => i = k

\* A user input is stored in at most one batch, and so is its dequeueing.
LEMMA OneBatchEach == StorageInv /\ AdmissionInv => EachInOneBatch
<1> SUFFICES ASSUME StorageInv, AdmissionInv
             PROVE  EachInOneBatch
  OBVIOUS
<1>1. \A i \in DOMAIN journal : journal[i].id \in IdsOf(journal[i].input)
  BY DEF AdmissionInv, RequestsAreFit, Fit
<1>2. ASSUME NEW i \in DOMAIN journal, NEW k \in DOMAIN journal, SameUser(i, k),
             journal[i].input.kind = "user" \/ journal[i].input.kind = "dequeued",
             journal[i].input.kind = journal[k].input.kind
      PROVE  journal[i].id = journal[k].id
  BY <1>1, <1>2 DEF IdsOf, SameUser
<1> QED BY <1>2 DEF StorageInv, JournalIsIndexed, EachInOneBatch

\* The order of QueueIsFair: every dequeued input was queued before, and those queued
\* before it have left before it.
LeaveInOrder ==
  \A j \in Dequeued : \E q \in Enqueued :
    /\ q < j /\ SameUser(q, j)
    /\ \A i \in Dequeued, p \in Enqueued : SameUser(p, i) /\ p < q => i < j

\* With one batch for each, inputs that leave in order are consumed once.
LEMMA OrderIsFair == StorageInv /\ AdmissionInv /\ LeaveInOrder => QueueIsFair
<1> SUFFICES ASSUME StorageInv, AdmissionInv, LeaveInOrder
             PROVE  QueueIsFair
  OBVIOUS
<1>1. \A i, j \in Consumed : SameUser(i, j) => i = j
  <2>1. \A i \in Dequeued, k \in Consumed : SameUser(k, i) => journal[k].input.kind # "user"
    <3>1. SUFFICES ASSUME NEW i \in Dequeued, NEW k \in Consumed, SameUser(k, i),
                          journal[k].input.kind = "user"
                   PROVE  FALSE
      OBVIOUS
    <3>2. PICK q \in Enqueued : SameUser(q, i)
      BY DEF LeaveInOrder
    <3>3. SameUser(q, k) /\ journal[q].input.kind = "user" /\ q \in DOMAIN journal
          /\ k \in DOMAIN journal /\ k \notin Enqueued
      BY <3>1, <3>2 DEF SameUser, Enqueued, Consumed, BatchesOf
    <3> QED BY <3>1, <3>2, <3>3, OneBatchEach DEF EachInOneBatch
  <2>2. \A i, j : SameUser(i, j) <=> SameUser(j, i)
    BY DEF SameUser
  <2> QED BY <2>1, <2>2, OneBatchEach DEF EachInOneBatch, Consumed, Dequeued, BatchesOf
<1> QED BY <1>1 DEF QueueIsFair, LeaveInOrder, Dequeued

\* What a stored batch adds to the batches that queue and that take from the queue.
LEMMA QueueBatches ==
  ASSUME StorageInv, NEW r \in Batches, journal' = Append(journal, r)
  PROVE  LET n == Len(journal) + 1
         IN /\ \A i \in DOMAIN journal : i < n /\ i # n /\ journal'[i] = journal[i]
            /\ journal'[n] = r /\ DOMAIN journal' = DOMAIN journal \cup {n}
            /\ Tip' = r.next
            /\ Enqueued' = Enqueued \cup (IF Queues(Tip, r.input) THEN {n} ELSE {})
            /\ Dequeued' = Dequeued \cup (IF r.input.kind = "dequeued" THEN {n} ELSE {})
            /\ Enqueued \subseteq DOMAIN journal /\ Dequeued \subseteq DOMAIN journal
            /\ DOMAIN journal \subseteq Nat /\ n \in Nat
<1> DEFINE n == Len(journal) + 1
<1>1. /\ journal \in Seq(Batches) /\ Len(journal) \in Nat /\ Tip = StateAt(Len(journal))
      /\ DOMAIN journal = 1..Len(journal)
  BY TipIsLast
<1>2. /\ journal' \in Seq(Batches) /\ Len(journal') = n /\ DOMAIN journal' = 1..n
      /\ journal'[n] = r /\ \A i \in 1..Len(journal) : journal'[i] = journal[i]
  BY <1>1
<1>3. n \in Nat /\ 1..n = 1..Len(journal) \cup {n} /\ n \notin 1..Len(journal)
      /\ (\A i \in 1..Len(journal) : i < n /\ i \in Nat)
  BY <1>1
<1>4. Tip' = r.next
  BY <1>1, <1>2 DEF Tip
<1>5. \A i \in 1..n : Before(i)' = Before(i)
  <2>1. \A i \in 1..n : i - 1 = 0 \/ i - 1 \in 1..Len(journal)
    BY <1>1
  <2> QED BY <1>2, <2>1 DEF Before, StateAt
<1>6. Before(n) = Tip
  BY <1>1 DEF Before
<1>7. \A i \in 1..Len(journal) : i \in Enqueued' <=> i \in Enqueued
  BY <1>1, <1>2, <1>3, <1>5 DEF Enqueued, BatchesOf
<1>8. n \in Enqueued' <=> Queues(Tip, r.input)
  BY <1>2, <1>3, <1>5, <1>6 DEF Enqueued, BatchesOf, Queues
<1>9. \A i \in 1..Len(journal) : i \in Dequeued' <=> i \in Dequeued
  BY <1>1, <1>2, <1>3 DEF Dequeued, BatchesOf
<1>10. n \in Dequeued' <=> r.input.kind = "dequeued"
  BY <1>2, <1>3 DEF Dequeued, BatchesOf
<1>11. /\ Enqueued' \subseteq 1..n /\ Dequeued' \subseteq 1..n
       /\ Enqueued \subseteq 1..Len(journal) /\ Dequeued \subseteq 1..Len(journal)
  BY <1>1, <1>2 DEF Enqueued, Dequeued, BatchesOf
<1> HIDE DEF n
<1>12. Enqueued' = Enqueued \cup (IF Queues(Tip, r.input) THEN {n} ELSE {})
  BY <1>3, <1>7, <1>8, <1>11
<1>13. Dequeued' = Dequeued \cup (IF r.input.kind = "dequeued" THEN {n} ELSE {})
  BY <1>3, <1>9, <1>10, <1>11
<1>14. /\ DOMAIN journal' = DOMAIN journal \cup {n} /\ DOMAIN journal \subseteq Nat
       /\ Enqueued \subseteq DOMAIN journal /\ Dequeued \subseteq DOMAIN journal
  BY <1>1, <1>2, <1>3, <1>11
<1>15. \A i \in DOMAIN journal : i < n /\ i # n /\ journal'[i] = journal[i]
  BY <1>1, <1>2, <1>3
<1> QED BY <1>2, <1>3, <1>4, <1>12, <1>13, <1>14, <1>15 DEF n

\* QueueIsOrdered and LeaveInOrder of a journal J, a queue P, and the positions E and D
\* of the batches that queue and dequeue.
OrderedIn(J, P, E, D) ==
  \A k \in DOMAIN P : \E q \in E :
    /\ J[q].input.user = P[k]
    /\ \A d \in D, p \in E : J[p].input.user = J[d].input.user => p < q
    /\ \A l \in DOMAIN P, p \in E : k < l /\ J[p].input.user = P[l] => q < p

LeaveIn(J, E, D) ==
  \A j \in D : \E q \in E :
    /\ q < j /\ J[q].input.user = J[j].input.user
    /\ \A i \in D, p \in E : J[p].input.user = J[i].input.user /\ p < q => i < j

\* A user who was not queued before joins at the end of the queue.
LEMMA UserJoins ==
  ASSUME NEW J, NEW P \in Seq(Users), NEW E, NEW D, OrderedIn(J, P, E, D), LeaveIn(J, E, D),
         NEW n \in Nat, \A i \in E \cup D : i \in Nat /\ i < n,
         NEW u, J[n].input.user = u, \A q \in E : J[q].input.user # u
  PROVE  /\ OrderedIn(J, Append(P, u), E \cup {n}, D)
         /\ LeaveIn(J, E \cup {n}, D)
<1>1. \A d \in D : J[d].input.user # u
  BY DEF LeaveIn
<1>2. /\ \A k \in DOMAIN Append(P, u) : \/ k \in DOMAIN P /\ Append(P, u)[k] = P[k]
                                        \/ k = Len(P) + 1 /\ Append(P, u)[k] = u
      /\ \A k \in DOMAIN P : k \in Nat /\ k <= Len(P)
      /\ Len(P) \in Nat
  BY AppendCases
<1> DEFINE Q == Append(P, u)
<1> HIDE DEF Q
<1>3. ASSUME NEW k \in DOMAIN Q
      PROVE  \E q \in E \cup {n} :
               /\ J[q].input.user = Q[k]
               /\ \A d \in D, p \in E \cup {n} : J[p].input.user = J[d].input.user => p < q
               /\ \A l \in DOMAIN Q, p \in E \cup {n} :
                    k < l /\ J[p].input.user = Q[l] => q < p
  <2>1. CASE k \in DOMAIN P /\ Q[k] = P[k]
    <3>1. PICK q \in E :
            /\ J[q].input.user = P[k]
            /\ \A d \in D, p \in E : J[p].input.user = J[d].input.user => p < q
            /\ \A l \in DOMAIN P, p \in E : k < l /\ J[p].input.user = P[l] => q < p
      BY <2>1 DEF OrderedIn
    <3>2. \A d \in D, p \in E \cup {n} : J[p].input.user = J[d].input.user => p < q
      BY <1>1, <3>1
    <3>3. \A l \in DOMAIN Q, p \in E \cup {n} : k < l /\ J[p].input.user = Q[l] => q < p
      BY <1>2, <3>1 DEF Q
    <3> QED BY <2>1, <3>1, <3>2, <3>3
  <2>2. CASE k = Len(P) + 1 /\ Q[k] = u
    <3>1. \A d \in D, p \in E \cup {n} : J[p].input.user = J[d].input.user => p < n
      BY <1>1
    <3>2. \A l \in DOMAIN Q : ~(k < l)
      BY <1>2, <2>2 DEF Q
    <3> QED BY <2>2, <3>1, <3>2
  <2> QED BY <1>2, <2>1, <2>2 DEF Q
<1>4. ASSUME NEW j \in D
      PROVE  \E q \in E \cup {n} :
               /\ q < j /\ J[q].input.user = J[j].input.user
               /\ \A i \in D, p \in E \cup {n} :
                    J[p].input.user = J[i].input.user /\ p < q => i < j
  <2>1. PICK q \in E :
          /\ q < j /\ J[q].input.user = J[j].input.user
          /\ \A i \in D, p \in E : J[p].input.user = J[i].input.user /\ p < q => i < j
    BY DEF LeaveIn
  <2>2. \A i \in D, p \in E \cup {n} : J[p].input.user = J[i].input.user /\ p < q => i < j
    BY <1>1, <2>1
  <2> QED BY <2>1, <2>2
<1> QED BY <1>3, <1>4 DEF OrderedIn, LeaveIn, Q

\* The user at the head of the queue leaves it for a turn of their own.
LEMMA UserLeaves ==
  ASSUME NEW J, NEW P \in Seq(Users), NEW E, NEW D, OrderedIn(J, P, E, D), LeaveIn(J, E, D),
         NEW n \in Nat, \A i \in E \cup D : i \in Nat /\ i < n,
         P # << >>, J[n].input.user = Head(P),
         \A q, p \in E : J[q].input.user = J[p].input.user => q = p
  PROVE  /\ OrderedIn(J, Tail(P), E, D \cup {n})
         /\ LeaveIn(J, E, D \cup {n})
<1>1. /\ Head(P) = P[1] /\ 1 \in DOMAIN P
      /\ \A k \in DOMAIN Tail(P) : k + 1 \in DOMAIN P /\ 1 < k + 1 /\ Tail(P)[k] = P[k + 1]
      /\ \A k, l \in DOMAIN Tail(P) : k < l => k + 1 < l + 1
  BY TailCases
<1>2. PICK h \in E :
        /\ J[h].input.user = P[1]
        /\ \A d \in D, p \in E : J[p].input.user = J[d].input.user => p < h
        /\ \A l \in DOMAIN P, p \in E : 1 < l /\ J[p].input.user = P[l] => h < p
  BY <1>1 DEF OrderedIn
<1> DEFINE Q == Tail(P)
<1> HIDE DEF Q
<1>3. ASSUME NEW k \in DOMAIN Q
      PROVE  \E q \in E :
               /\ J[q].input.user = Q[k]
               /\ \A d \in D \cup {n}, p \in E : J[p].input.user = J[d].input.user => p < q
               /\ \A l \in DOMAIN Q, p \in E : k < l /\ J[p].input.user = Q[l] => q < p
  <2>1. k + 1 \in DOMAIN P /\ 1 < k + 1 /\ Q[k] = P[k + 1]
    BY <1>1 DEF Q
  <2>2. PICK q \in E :
          /\ J[q].input.user = P[k + 1]
          /\ \A d \in D, p \in E : J[p].input.user = J[d].input.user => p < q
          /\ \A l \in DOMAIN P, p \in E : k + 1 < l /\ J[p].input.user = P[l] => q < p
    BY <2>1 DEF OrderedIn
  <2>3. h < q
    BY <1>2, <2>1, <2>2
  <2>4. \A d \in D \cup {n}, p \in E : J[p].input.user = J[d].input.user => p < q
    BY <1>1, <1>2, <2>2, <2>3
  <2>5. \A l \in DOMAIN Q : l + 1 \in DOMAIN P /\ Q[l] = P[l + 1] /\ (k < l => k + 1 < l + 1)
    BY <1>1 DEF Q
  <2>6. \A l \in DOMAIN Q, p \in E : k < l /\ J[p].input.user = Q[l] => q < p
    BY <2>2, <2>5
  <2> QED BY <2>1, <2>2, <2>4, <2>6
<1>4. ASSUME NEW j \in D \cup {n}
      PROVE  \E q \in E :
               /\ q < j /\ J[q].input.user = J[j].input.user
               /\ \A i \in D \cup {n}, p \in E :
                    J[p].input.user = J[i].input.user /\ p < q => i < j
  <2>1. CASE j = n
    <3>1. \A i \in D \cup {n}, p \in E : J[p].input.user = J[i].input.user /\ p < h => i < n
      BY <1>1, <1>2
    <3> QED BY <1>1, <1>2, <2>1, <3>1
  <2>2. CASE j \in D
    <3>1. PICK q \in E :
            /\ q < j /\ J[q].input.user = J[j].input.user
            /\ \A i \in D, p \in E : J[p].input.user = J[i].input.user /\ p < q => i < j
      BY <2>2 DEF LeaveIn
    <3>2. q < h
      BY <1>2, <2>2, <3>1
    <3>3. \A i \in D \cup {n}, p \in E : J[p].input.user = J[i].input.user /\ p < q => i < j
      BY <1>1, <1>2, <3>1, <3>2
    <3> QED BY <3>1, <3>3
  <2> QED BY <2>1, <2>2
<1> QED BY <1>3, <1>4 DEF OrderedIn, LeaveIn, Q

\* A journal of which the inputs are the same keeps them in order.
LEMMA UsersStay ==
  ASSUME NEW J, NEW K, NEW P, NEW E, NEW D, \A i \in E \cup D : K[i] = J[i],
         OrderedIn(J, P, E, D), LeaveIn(J, E, D)
  PROVE  OrderedIn(K, P, E, D) /\ LeaveIn(K, E, D)
<1>1. ASSUME NEW k \in DOMAIN P
      PROVE  \E q \in E :
               /\ K[q].input.user = P[k]
               /\ \A d \in D, p \in E : K[p].input.user = K[d].input.user => p < q
               /\ \A l \in DOMAIN P, p \in E : k < l /\ K[p].input.user = P[l] => q < p
  <2>1. PICK q \in E :
          /\ J[q].input.user = P[k]
          /\ \A d \in D, p \in E : J[p].input.user = J[d].input.user => p < q
          /\ \A l \in DOMAIN P, p \in E : k < l /\ J[p].input.user = P[l] => q < p
    BY DEF OrderedIn
  <2> QED BY <2>1
<1>2. ASSUME NEW j \in D
      PROVE  \E q \in E :
               /\ q < j /\ K[q].input.user = K[j].input.user
               /\ \A i \in D, p \in E : K[p].input.user = K[i].input.user /\ p < q => i < j
  <2>1. PICK q \in E :
          /\ q < j /\ J[q].input.user = J[j].input.user
          /\ \A i \in D, p \in E : J[p].input.user = J[i].input.user /\ p < q => i < j
    BY DEF LeaveIn
  <2> QED BY <2>1
<1> QED BY <1>1, <1>2 DEF OrderedIn, LeaveIn

\* A batch stored at the end of the journal keeps the queue in order, and those that
\* leave it too.
LEMMA QueueStores ==
  ASSUME StorageInv, QueueIsOrdered, LeaveInOrder, EachInOneBatch',
         NEW r \in Batches, StagedOn(r), Fit(r), r.expected = Len(journal),
         journal' = Append(journal, r)
  PROVE  QueueIsOrdered' /\ LeaveInOrder'
<1> DEFINE n == Len(journal) + 1
           u == r.input.user
           P == Tip.pendingInputs
<1>1. /\ \A i \in DOMAIN journal : i < n /\ i # n /\ journal'[i] = journal[i]
      /\ journal'[n] = r /\ DOMAIN journal' = DOMAIN journal \cup {n}
      /\ Tip' = r.next
      /\ Enqueued' = Enqueued \cup (IF Queues(Tip, r.input) THEN {n} ELSE {})
      /\ Dequeued' = Dequeued \cup (IF r.input.kind = "dequeued" THEN {n} ELSE {})
      /\ Enqueued \subseteq DOMAIN journal /\ Dequeued \subseteq DOMAIN journal
      /\ DOMAIN journal \subseteq Nat /\ n \in Nat
  BY QueueBatches
<1>2. /\ Tip \in JournalState /\ P \in Seq(Users) /\ Admissible(Tip, r.input)
      /\ r.input \in Inputs /\ r.next = Stage(Tip, r.input)
  BY TipIsLast, JournalFields DEF Fit, StagedOn, Batches
<1>3. /\ \A q \in Enqueued : journal[q].input.kind = "user"
      /\ \A d \in Dequeued : journal[d].input.kind = "dequeued"
  BY DEF Enqueued, Dequeued, BatchesOf
<1>4. \A q, p \in Enqueued : journal'[q].input.user = journal'[p].input.user => q = p
  BY <1>1, <1>3 DEF EachInOneBatch, SameUser
<1>5. PICK J, E, D : J = journal' /\ E = Enqueued /\ D = Dequeued
  OBVIOUS
<1>6. OrderedIn(J, P, E, D) /\ LeaveIn(J, E, D)
  <2>1. \A i \in E \cup D : J[i] = journal[i]
    BY <1>1, <1>5
  <2>2. OrderedIn(journal, P, Enqueued, Dequeued) /\ LeaveIn(journal, Enqueued, Dequeued)
    BY DEF QueueIsOrdered, LeaveInOrder, OrderedIn, LeaveIn, SameUser
  <2> HIDE DEF P
  <2>3. OrderedIn(journal, P, E, D) /\ LeaveIn(journal, E, D)
    BY <1>5, <2>2
  <2> QED BY <2>1, <2>3, UsersStay
<1>7. /\ J[n] = r /\ (\A i \in E \cup D : i \in Nat /\ i < n)
      /\ \A q, p \in E : J[q].input.user = J[p].input.user => q = p
  BY <1>1, <1>4, <1>5
<1>8. /\ QueueIsOrdered' <=> OrderedIn(journal', Tip'.pendingInputs, Enqueued', Dequeued')
      /\ LeaveInOrder' <=> LeaveIn(journal', Enqueued', Dequeued')
  BY DEF QueueIsOrdered, LeaveInOrder, OrderedIn, LeaveIn, SameUser
<1>9. CASE Queues(Tip, r.input)
  <2>1. r.input.kind = "user" /\ r.next.pendingInputs = Append(P, u)
        /\ Enqueued' = E \cup {n} /\ Dequeued' = D
    BY <1>1, <1>2, <1>5, <1>9, FoldQueue DEF Queues
  <2>2. ASSUME NEW q \in E, J[q].input.user = u
        PROVE  FALSE
    <3>1. /\ q \in DOMAIN journal' /\ n \in DOMAIN journal' /\ q # n /\ journal'[n] = r
          /\ journal'[q].input.kind = "user" /\ journal'[q].input.user = u
      BY <1>1, <1>3, <1>5, <2>2
    <3> HIDE DEF n
    <3> QED BY <2>1, <3>1 DEF EachInOneBatch, SameUser
  <2> HIDE DEF n, P
  <2>3. OrderedIn(J, Append(P, u), E \cup {n}, D) /\ LeaveIn(J, E \cup {n}, D)
    BY <1>1, <1>2, <1>6, <1>7, <2>2, UserJoins
  <2>4. OrderedIn(J, Tip'.pendingInputs, Enqueued', Dequeued') /\ LeaveIn(J, Enqueued', Dequeued')
    BY <1>1, <2>1, <2>3
  <2> QED BY <1>5, <1>8, <2>4
<1>10. CASE r.input.kind = "dequeued"
  <2>1. /\ P # << >> /\ u = Head(P) /\ r.next.pendingInputs = Tail(P)
        /\ Enqueued' = E /\ Dequeued' = D \cup {n}
    BY <1>1, <1>2, <1>5, <1>10, FoldQueue DEF Queues
  <2> HIDE DEF n, P
  <2>2. OrderedIn(J, Tail(P), E, D \cup {n}) /\ LeaveIn(J, E, D \cup {n})
    BY <1>1, <1>2, <1>6, <1>7, <2>1, UserLeaves
  <2>3. OrderedIn(J, Tip'.pendingInputs, Enqueued', Dequeued') /\ LeaveIn(J, Enqueued', Dequeued')
    BY <1>1, <2>1, <2>2
  <2> QED BY <1>5, <1>8, <2>3
<1>11. CASE ~Queues(Tip, r.input) /\ r.input.kind # "dequeued"
  <2>1. /\ Enqueued' = E /\ Dequeued' = D
        /\ r.next.pendingInputs = P \/ r.next.pendingInputs = << >>
    BY <1>1, <1>2, <1>5, <1>11, FoldQueue
  <2>2. OrderedIn(J, << >>, E, D)
    BY DEF OrderedIn
  <2>3. OrderedIn(J, Tip'.pendingInputs, Enqueued', Dequeued') /\ LeaveIn(J, Enqueued', Dequeued')
    BY <1>1, <1>6, <2>1, <2>2
  <2> QED BY <1>5, <1>8, <2>3
<1> QED BY <1>9, <1>10, <1>11

\* Every step keeps the queue in order and fair.
LEMMA QueueStep == StorageInv /\ AdmissionInv /\ QueueInv /\ [Next]_vars => QueueInv'
<1> SUFFICES ASSUME StorageInv, AdmissionInv, QueueInv, [Next]_vars
             PROVE  QueueInv'
  OBVIOUS
<1>1. StorageInv' /\ AdmissionInv'
  BY StorageStep, FitStep, IdsStep DEF AdmissionInv, StorageInv
<1>2. EachInOneBatch'
  BY <1>1, OneBatchEach, PTL
<1>3. QueueIsOrdered /\ LeaveInOrder /\ RequestsAreFit
  BY DEF QueueInv, QueueIsFair, LeaveInOrder, Dequeued, AdmissionInv
<1>4. QueueIsOrdered' /\ LeaveInOrder'
  <2>1. CASE journal' = journal
    BY <1>3, <2>1
       DEF QueueIsOrdered, LeaveInOrder, Enqueued, Dequeued, BatchesOf, Before, StateAt, Tip,
           SameUser
  <2> QED BY <1>2, <1>3, <2>1, StoreCases, QueueStores
<1>5. QueueIsFair'
  BY <1>1, <1>4, OrderIsFair, PTL
<1> QED BY <1>4, <1>5 DEF QueueInv

\* An empty journal queues nobody.
LEMMA QueueInit == Init => QueueInv
BY DEF Init, QueueInv, QueueIsOrdered, QueueIsFair, Enqueued, Consumed, Dequeued, BatchesOf, Tip,
       EmptyJournal

\* Queued inputs wait in the order they came in, and leave in that order.
THEOREM QueueSafe == Spec => [](StorageInv /\ AdmissionInv /\ QueueInv)
<1>1. Init => StorageInv /\ AdmissionInv /\ QueueInv
  BY StorageInit, AdmissionInit, QueueInit
<1>2. StorageInv /\ AdmissionInv /\ QueueInv /\ [Next]_vars
        => StorageInv' /\ AdmissionInv' /\ QueueInv'
  BY StorageStep, FitStep, IdsStep, QueueStep DEF AdmissionInv, StorageInv
<1> QED BY <1>1, <1>2, PTL DEF Spec

\* An input is consumed at most once, a dequeued one was queued before, and queued
\* inputs take their turns in the order they were queued in, whatever is aborted,
\* recovered or restarted in between.
THEOREM QueueStaysFair == Spec => []QueueIsFair
<1>1. QueueInv => QueueIsFair
  BY DEF QueueInv
<1> QED BY <1>1, QueueSafe, PTL

-----------------------------------------------------------------------------
\* Places

\* The set of a request's places, place by place.
LEMMA Places ==
  ASSUME NEW c
  PROVE  /\ "mailbox" \in Where(c) <=> InMailbox(c)
         /\ "queue" \in Where(c) <=> InQueue(c)
         /\ "storing" \in Where(c) <=> InStoring(c)
         /\ "selection" \in Where(c) <=> IsSelected(c)
         /\ "fallback" \in Where(c) <=> IsFallback(c)
         /\ "append" \in Where(c) <=> IsAppended(c)
         /\ Where(c) \subseteq {"mailbox", "queue", "storing", "selection", "fallback", "append"}
BY DEF Where

\* The places that a step leaves a request in.
LEMMA PlacesNext ==
  ASSUME NEW c
  PROVE  Where(c)' = (IF InMailbox(c)' THEN {"mailbox"} ELSE {})
                       \cup (IF InQueue(c)' THEN {"queue"} ELSE {})
                       \cup (IF InStoring(c)' THEN {"storing"} ELSE {})
                       \cup (IF IsSelected(c)' THEN {"selection"} ELSE {})
                       \cup (IF IsFallback(c)' THEN {"fallback"} ELSE {})
                       \cup (IF IsAppended(c)' THEN {"append"} ELSE {})
BY DEF Where

\* A request that is in one place is in no other.
LEMMA Elsewhere ==
  ASSUME PlacesAreOwn, NEW c \in Tracked
  PROVE  /\ InMailbox(c) => /\ ~InQueue(c) /\ ~InStoring(c) /\ ~IsSelected(c)
                            /\ ~IsFallback(c) /\ ~IsAppended(c)
         /\ InQueue(c) => ~InStoring(c) /\ ~IsSelected(c) /\ ~IsFallback(c) /\ ~IsAppended(c)
         /\ InStoring(c) => ~IsSelected(c) /\ ~IsFallback(c) /\ ~IsAppended(c)
         /\ IsSelected(c) => ~IsFallback(c) /\ ~IsAppended(c)
         /\ IsFallback(c) => ~IsAppended(c)
<1>1. \A p, q \in Where(c) : p = q
  BY DEF PlacesAreOwn
<1> QED BY <1>1, Places

\* A step leaves a request where it is, takes it away, moves it on to one place, or is
\* the one that makes it.
Follows(c) ==
  \/ Where(c)' \subseteq Where(c)
  \/ /\ Where(c) # {} \/ c \in Requests \cap (sent' \ sent)
     /\ \E p : Where(c)' \subseteq {p}

\* Only a request that is somewhere is answered, and if for good it is nowhere then.
AnswerFits(c) ==
  /\ answers'[c] # answers[c] => Where(c) # {}
  /\ answers'[c] \in FinalAnswers /\ answers[c] \notin FinalAnswers => Where(c)' = {}

OnceInMailbox ==
  \A i, j \in DOMAIN mailbox :
    Carries(mailbox[i]) /\ Carries(mailbox[j]) /\ mailbox[i].id = mailbox[j].id
      /\ mailbox[i].id \in Tracked => i = j

\* Of a sequence of submissions: whether c is in it, and that no request is twice.
IsIn(s, c) == \E i \in DOMAIN s : s[i].id = c
OnceIn(s)  == \A i, j \in DOMAIN s : s[i].id = s[j].id /\ s[i].id \in Tracked => i = j

Once == OnceInMailbox /\ OnceIn(queue) /\ OnceIn(storing)

\* What has to be shown of a step for every request to stay in one place and to be
\* answered for good only when it is in none.
LEMMA FollowsKeeps ==
  ASSUME PlacesAreOwn, FateFollowsAnswer, sent \subseteq sent', Once',
         \A c \in Tracked : Follows(c) /\ AnswerFits(c)
  PROVE  PlacesAreOwn' /\ FateFollowsAnswer'
<1>1. ASSUME NEW c \in Tracked
      PROVE  /\ \A p, q \in Where(c)' : p = q
             /\ Where(c)' # {} => c \in sent' \cup {CreateId}
             /\ c \in Requests \ sent' => answers'[c] = "none"
             /\ answers'[c] \in FinalAnswers => Where(c)' = {}
  <2>1. /\ \A p, q \in Where(c) : p = q
        /\ Where(c) # {} => c \in sent \cup {CreateId}
        /\ c \in Requests \ sent => answers[c] = "none"
        /\ answers[c] \in FinalAnswers => Where(c) = {}
        /\ c \notin sent /\ c # CreateId => Where(c) = {} /\ answers[c] = "none"
    BY DEF PlacesAreOwn, FateFollowsAnswer, Tracked
  <2>2. Follows(c) /\ AnswerFits(c)
    OBVIOUS
  <2>3. "none" \notin FinalAnswers /\ CreateId \notin Requests
    BY DEF FinalAnswers, CreateId, Requests, UserId
  <2>4. CASE Where(c)' \subseteq Where(c)
    BY <2>1, <2>2, <2>3, <2>4 DEF AnswerFits, Tracked
  <2>5. CASE Where(c) # {} /\ \E p : Where(c)' \subseteq {p}
    BY <2>1, <2>2, <2>3, <2>5 DEF AnswerFits, Tracked
  <2>6. CASE c \in Requests \cap (sent' \ sent) /\ \E p : Where(c)' \subseteq {p}
    BY <2>1, <2>2, <2>3, <2>6 DEF AnswerFits
  <2> QED BY <2>2, <2>4, <2>5, <2>6 DEF Follows
<1>2. PlacesAreOwn'
  BY <1>1 DEF PlacesAreOwn, Once, OnceInMailbox, OnceIn
<1>3. FateFollowsAnswer'
  BY <1>1 DEF FateFollowsAnswer
<1> QED BY <1>2, <1>3

\* Of the callers that were not answered, telling answers those it is told.
LEMMA ToldCases ==
  ASSUME NEW c \in Tracked, NEW ids, NEW answer, NEW known
  PROVE  \/ Told(ids, answer, known)[c] = known[c]
         \/ Told(ids, answer, known)[c] = answer /\ known[c] = "none" /\ c \in ids
<1>1. c \in Callers
  BY DEF Tracked, Callers
<1>2. \A id : Caller(id) = c => id = c
  BY DEF Caller, Tracked, Requests, CreateId, UserId
<1> QED BY <1>1, <1>2 DEF Told

-----------------------------------------------------------------------------
\* How the places change

\* A decision takes its event out of the mailbox, which holds no other of its request.
LEMMA MailboxConsumed ==
  ASSUME mailbox \in Seq(Events), mailbox # << >>, OnceInMailbox,
         NEW sends \in {<< >>, <<Drain>>}, Consume(sends)
  PROVE  /\ OnceInMailbox'
         /\ \A c \in Tracked : InMailbox(c)' =>
              InMailbox(c) /\ ~(Carries(Event) /\ Event.id = c)
         /\ \A c : Carries(Event) /\ Event.id = c => InMailbox(c)
<1>1. /\ 1 \in DOMAIN mailbox /\ Event = mailbox[1] /\ mailbox' \in Seq(Events)
      /\ \A i \in DOMAIN mailbox' :
           \/ i + 1 \in DOMAIN mailbox /\ mailbox'[i] = mailbox[i + 1]
           \/ mailbox'[i] = Drain
  BY MailboxLeft DEF Event
<1>2. ~Carries(Drain)
  BY DEF Carries, Drain
<1>3. \A i \in DOMAIN mailbox' : i \in Nat \ {0}
  BY <1>1
<1>4. ASSUME NEW i \in DOMAIN mailbox', Carries(mailbox'[i])
      PROVE  i + 1 \in DOMAIN mailbox /\ mailbox'[i] = mailbox[i + 1] /\ i + 1 # 1
  BY <1>1, <1>2, <1>3, <1>4
<1>5. OnceInMailbox'
  <2>1. ASSUME NEW i \in DOMAIN mailbox', NEW j \in DOMAIN mailbox', Carries(mailbox'[i]),
               Carries(mailbox'[j]), mailbox'[i].id = mailbox'[j].id, mailbox'[i].id \in Tracked
        PROVE  i = j
    <3>1. i + 1 = j + 1
      BY <1>4, <2>1 DEF OnceInMailbox
    <3> QED BY <1>3, <3>1
  <2> QED BY <2>1 DEF OnceInMailbox, Carries
<1>6. ASSUME NEW c \in Tracked, NEW i \in DOMAIN mailbox', Carries(mailbox'[i]), mailbox'[i].id = c
      PROVE  InMailbox(c) /\ ~(Carries(Event) /\ Event.id = c)
  BY <1>1, <1>4, <1>6 DEF InMailbox, OnceInMailbox
<1>7. \A c : Carries(Event) /\ Event.id = c => InMailbox(c)
  BY <1>1 DEF InMailbox
<1> QED BY <1>5, <1>6, <1>7 DEF InMailbox, Carries

\* What an event that is posted adds to the mailbox.
LEMMA MailboxPosted ==
  ASSUME mailbox \in Seq(Events), OnceInMailbox, NEW e, mailbox' = Append(mailbox, e),
         Carries(e) /\ e.id \in Tracked => ~InMailbox(e.id)
  PROVE  /\ OnceInMailbox'
         /\ \A c : InMailbox(c)' => InMailbox(c) \/ (Carries(e) /\ e.id = c)
<1>1. \A i \in DOMAIN mailbox' :
        \/ i \in DOMAIN mailbox /\ mailbox'[i] = mailbox[i]
        \/ i = Len(mailbox) + 1 /\ mailbox'[i] = e
  BY MailboxMore
<1>2. ASSUME NEW i \in DOMAIN mailbox', NEW j \in DOMAIN mailbox', Carries(mailbox'[i]),
             Carries(mailbox'[j]), mailbox'[i].id = mailbox'[j].id, mailbox'[i].id \in Tracked
      PROVE  i = j
  BY <1>1, <1>2 DEF OnceInMailbox, InMailbox
<1>3. OnceInMailbox'
  BY <1>2 DEF OnceInMailbox, Carries
<1>4. ASSUME NEW c, NEW i \in DOMAIN mailbox', Carries(mailbox'[i]), mailbox'[i].id = c
      PROVE  InMailbox(c) \/ (Carries(e) /\ e.id = c)
  BY <1>1, <1>4 DEF InMailbox
<1> QED BY <1>3, <1>4 DEF InMailbox, Carries

\* A staged submission joins what is under way, ...
LEMMA AppendStaged ==
  ASSUME NEW s, NEW rest, StageAppend(s, rest), UNCHANGED <<journal, orphans>>
  PROVE  \A c : IsAppended(c)' => IsAppended(c) \/ s.id = c
<1> DEFINE request == [id |-> s.id, expected |-> durable.revision, input |-> s.input,
                       next |-> Stage(durable, s.input)]
<1>1. Underway' \subseteq {request} \cup orphans
  BY UnderwayNext DEF StageAppend, Batch
<1>2. orphans \subseteq Underway
  BY DEF Underway
<1>3. request.id = s.id
  OBVIOUS
<1> HIDE DEF request
<1> QED BY <1>1, <1>2, <1>3 DEF IsAppended, Committed

\* ... and otherwise no decision adds anything to it.
LEMMA AppendUnstaged ==
  ASSUME StorageInv, UNCHANGED <<journal, orphans>>,
         \/ pending' \in {pending, None} /\ io' = io
         \/ AppendIndeterminate \/ LoadedAbsent
  PROVE  \A c : IsAppended(c)' => IsAppended(c)
<1>1. Underway' \subseteq Underway
  <2>1. CASE pending' \in {pending, None} /\ io' = io
    BY <2>1, UnderwayNext DEF Underway, Appending
  <2>2. CASE AppendIndeterminate
    BY <2>2, UnderwayNext DEF AppendIndeterminate, Underway, Appending
  <2>3. CASE LoadedAbsent
    <3>1. pending \in Pending /\ pending # None
      BY <2>3 DEF LoadedAbsent, InFlight, StorageInv, TypeOK, WriterTypeOK
    <3>2. pending' = [pending EXCEPT !.attempts = @ + 1]
      BY <2>3 DEF LoadedAbsent
    <3>3. Batch(pending') = Batch(pending)
      BY <3>1, <3>2 DEF Pending, Batch
    <3> QED BY <2>3, <3>1, <3>3, UnderwayNext DEF LoadedAbsent, Underway, Batch
  <2> QED BY <2>1, <2>2, <2>3
<1> QED BY <1>1 DEF IsAppended, Committed

\* What is left of a sequence that has lost its head, which was in it once.
LEMMA OnceTail ==
  ASSUME NEW S, NEW s \in Seq(S), OnceIn(s), s # << >>
  PROVE  /\ OnceIn(Tail(s)) /\ IsIn(s, Head(s).id)
         /\ \A c \in Tracked : IsIn(Tail(s), c) => IsIn(s, c) /\ Head(s).id # c
<1>1. /\ Head(s) = s[1] /\ 1 \in DOMAIN s
      /\ \A i \in DOMAIN Tail(s) :
           i \in Nat /\ i + 1 \in DOMAIN s /\ i + 1 # 1 /\ Tail(s)[i] = s[i + 1]
  <2>1. Tail(s) \in Seq(S)
    OBVIOUS
  <2> QED BY <2>1, TailCases
<1>2. ASSUME NEW i \in DOMAIN Tail(s), NEW j \in DOMAIN Tail(s),
             Tail(s)[i].id = Tail(s)[j].id, Tail(s)[i].id \in Tracked
      PROVE  i = j
  <2>1. i + 1 = j + 1 /\ i \in Nat /\ j \in Nat
    BY <1>1, <1>2 DEF OnceIn
  <2> QED BY <2>1
<1>3. ASSUME NEW c \in Tracked, NEW i \in DOMAIN Tail(s), Tail(s)[i].id = c
      PROVE  IsIn(s, c) /\ Head(s).id # c
  BY <1>1, <1>3 DEF IsIn, OnceIn
<1>4. IsIn(s, Head(s).id)
  BY <1>1 DEF IsIn
<1> QED BY <1>2, <1>3, <1>4 DEF IsIn, OnceIn

\* One that is not in a sequence may be appended to it.
LEMMA OnceAppend ==
  ASSUME NEW S, NEW s \in Seq(S), OnceIn(s), NEW e, e.id \in Tracked => ~IsIn(s, e.id)
  PROVE  /\ OnceIn(Append(s, e))
         /\ \A c : IsIn(Append(s, e), c) => IsIn(s, c) \/ e.id = c
<1>1. \A i \in DOMAIN Append(s, e) :
        \/ i \in DOMAIN s /\ Append(s, e)[i] = s[i]
        \/ i = Len(s) + 1 /\ Append(s, e)[i] = e
  BY AppendCases
<1>2. OnceIn(Append(s, e))
  BY <1>1 DEF OnceIn, IsIn
<1>3. \A c : IsIn(Append(s, e), c) => IsIn(s, c) \/ e.id = c
  BY <1>1 DEF IsIn
<1> QED BY <1>2, <1>3

-----------------------------------------------------------------------------
\* Decisions

\* Whatever a decision does, these are the requests' places before it.
LEMMA PlacesBefore ==
  ASSUME PlacesAreOwn
  PROVE  /\ Once
         /\ \A c : InQueue(c) <=> IsIn(queue, c)
         /\ \A c : InStoring(c) <=> IsIn(storing, c)
         /\ \A c : InQueue(c)' <=> IsIn(queue', c)
         /\ \A c : InStoring(c)' <=> IsIn(storing', c)
BY DEF PlacesAreOwn, Once, OnceInMailbox, OnceIn, InQueue, InStoring, IsIn

\* A decision that only takes its event: its request is gone, the others stay.
LEMMA DecisionKeeps ==
  ASSUME StorageInv, PlacesAreOwn, mailbox # << >>,
         NEW sends \in {<< >>, <<Drain>>}, Consume(sends),
         queue' \in {queue, << >>}, storing' = storing,
         selection' \in {selection, None},
         UNCHANGED <<journal, orphans>>,
         \/ pending' \in {pending, None} /\ io' = io
         \/ AppendIndeterminate \/ LoadedAbsent
  PROVE  /\ Once'
         /\ \A c \in Tracked : /\ Where(c)' \subseteq Where(c)
                               /\ Carries(Event) /\ Event.id = c => Where(c) # {} /\ Where(c)' = {}
<1>1. mailbox \in Seq(Events) /\ Once
  BY PlacesBefore DEF StorageInv, TypeOK, WriterTypeOK
<1>2. /\ OnceInMailbox'
      /\ \A c \in Tracked : InMailbox(c)' =>
           InMailbox(c) /\ ~(Carries(Event) /\ Event.id = c)
      /\ \A c : Carries(Event) /\ Event.id = c => InMailbox(c)
  BY <1>1, MailboxConsumed DEF Once
<1>3. /\ OnceIn(queue') /\ OnceIn(storing')
      /\ \A c : InQueue(c)' => InQueue(c)
      /\ \A c : InStoring(c)' => InStoring(c)
  BY <1>1, PlacesBefore DEF Once, OnceIn, IsIn
<1>4. \A c : (IsSelected(c)' => IsSelected(c)) /\ (IsFallback(c)' => IsFallback(c))
  BY DEF IsSelected, IsFallback
<1>5. \A c : IsAppended(c)' => IsAppended(c)
  BY AppendUnstaged
<1>6. Once'
  BY <1>2, <1>3 DEF Once
<1>7. ASSUME NEW c \in Tracked
      PROVE  /\ Where(c)' \subseteq Where(c)
             /\ Carries(Event) /\ Event.id = c => Where(c) # {} /\ Where(c)' = {}
  BY <1>2, <1>3, <1>4, <1>5, Places, PlacesNext, Elsewhere
<1> QED BY <1>6, <1>7

\* Whoever a stopping writer owes an answer is somewhere.
LEMMA OwedIsSomewhere ==
  ASSUME NEW c \in Owed
  PROVE  Where(c) # {}
<1>1. pending # None => Batch(pending) \in Underway /\ Batch(pending).id = pending.id
  BY DEF Underway, Batch
<1>2. IsAppended(c) \/ InQueue(c) \/ IsSelected(c)
  <2>1. CASE pending # None /\ c = pending.id
    BY <1>1, <2>1 DEF IsAppended
  <2>2. CASE \E i \in DOMAIN queue : queue[i].id = c
    BY <2>2 DEF InQueue
  <2>3. CASE selection # None /\ selection.stored /\ selection.id = c
    BY <2>3 DEF IsSelected
  <2> QED BY <2>1, <2>2, <2>3 DEF Owed
<1> QED BY <1>2, Places

\* An admitted submission leaves the place it was taken from, for the append in flight
\* or for good.
LEMMA AdmitFollows ==
  ASSUME StorageInv, PlacesAreOwn, mailbox # << >>,
         NEW s, NEW rest, NEW again \in {<< >>, <<Drain>>}, Admit(s, rest, again),
         UNCHANGED <<journal, orphans>>,
         OnceInMailbox', OnceIn(rest),
         \A c \in Tracked : InMailbox(c)' => InMailbox(c) /\ s.id # c,
         \A c \in Tracked : IsIn(rest, c) => InQueue(c) /\ s.id # c,
         \A c \in Tracked : s.id = c => InMailbox(c) \/ InQueue(c)
  PROVE  Once' /\ \A c \in Tracked : Follows(c) /\ AnswerFits(c)
<1>1. /\ OnceIn(<< >>) /\ \A c : ~IsIn(<< >>, c)
  BY DEF OnceIn, IsIn
<1>2. /\ queue' \in {rest, << >>} /\ storing' = storing /\ selection' \in {selection, None}
  BY AdmitKept
<1>3. Once'
  BY <1>1, <1>2, PlacesBefore DEF Once, OnceIn
<1>4. \A c : (IsSelected(c)' => IsSelected(c)) /\ (IsFallback(c)' => IsFallback(c))
  BY <1>2 DEF IsSelected, IsFallback
<1>5. \A c \in Tracked : /\ InQueue(c)' => InQueue(c) /\ s.id # c
                         /\ InStoring(c)' => InStoring(c)
  BY <1>1, <1>2, PlacesBefore
<1>6. CASE Refusal(s) = "none" /\ StageAppend(s, rest) /\ UNCHANGED answers
  <2>1. \A c : IsAppended(c)' => IsAppended(c) \/ s.id = c
    BY <1>6, AppendStaged
  <2>2. ASSUME NEW c \in Tracked
        PROVE  Follows(c) /\ AnswerFits(c)
    <3>1. CASE s.id # c
      <4>1. Where(c)' \subseteq Where(c)
        BY <1>4, <1>5, <2>1, <3>1, Places, PlacesNext
      <4> QED BY <1>6, <4>1 DEF Follows, AnswerFits
    <3>2. CASE s.id = c
      <4>1. Where(c)' \subseteq {"append"} /\ Where(c) # {}
        BY <1>4, <1>5, <2>1, <3>2, Places, PlacesNext, Elsewhere
      <4> QED BY <1>6, <4>1 DEF Follows, AnswerFits
    <3> QED BY <3>1, <3>2
  <2> QED BY <1>3, <2>2
<1>7. CASE \/ Refusal(s) = "refused" /\ Stop("failed", {s.id})
           \/ /\ answers' = Told({s.id}, Refusal(s), answers)
              /\ UNCHANGED <<pending, io>>
  <2>1. /\ pending' \in {pending, None} /\ io' = io
        /\ \/ answers' = Told(Owed \cup {s.id}, "failed", answers)
           \/ answers' = Told({s.id}, Refusal(s), answers)
    BY <1>7 DEF Stop, LastAnswers
  <2>2. \A c : IsAppended(c)' => IsAppended(c)
    BY <2>1, AppendUnstaged
  <2>3. ASSUME NEW c \in Tracked
        PROVE  Follows(c) /\ AnswerFits(c)
    <3>1. Where(c)' \subseteq Where(c) /\ (s.id = c => Where(c)' = {} /\ Where(c) # {})
      BY <1>4, <1>5, <2>2, Places, PlacesNext, Elsewhere
    <3>2. c \in Owed => Where(c) # {}
      BY OwedIsSomewhere
    <3>3. "failed" \notin FinalAnswers
      BY DEF FinalAnswers
    <3>4. AnswerFits(c)
      <4>1. CASE answers' = Told(Owed \cup {s.id}, "failed", answers)
        BY <3>1, <3>2, <3>3, <4>1, ToldCases DEF AnswerFits
      <4>2. CASE answers' = Told({s.id}, Refusal(s), answers)
        BY <3>1, <4>2, ToldCases DEF AnswerFits
      <4> QED BY <2>1, <4>1, <4>2
    <3> QED BY <3>1, <3>4 DEF Follows
  <2> QED BY <1>3, <2>3
<1> QED BY <1>6, <1>7 DEF Admit

\* What becomes of the selection that a decision settles on: it is kept, is staged, or
\* is dropped with its answer.  known are the answers given before.
Outcomes(sel, known) ==
  \/ /\ selection' = sel
     /\ \/ answers' = known
        \/ sel.stored /\ answers' = Told({sel.id}, "selected", known)
     /\ Consume(<< >>)
     /\ UNCHANGED <<queue, pending, io>>
  \/ /\ sel.stored /\ selection' = None
     /\ answers' = Told({sel.id}, "ignored", known)
     /\ Consume(<<Drain>>)
     /\ UNCHANGED <<queue, pending, io>>
  \/ /\ sel.stored /\ selection' = None
     /\ answers' = known
     /\ StageAppend([id |-> sel.id, input |-> PolicyInput(sel.mode)], queue)

\* These are all.
LEMMA SelectionOutcomes ==
  ASSUME NEW sel, NEW known,
         ApplySelection(sel, known) \/ (sel.stored /\ SettleStored(sel, known))
  PROVE  Outcomes(sel, known) /\ UNCHANGED storing
<1>1. ApplySelection(sel, known) => Outcomes(sel, known) /\ UNCHANGED storing
  BY DEF ApplySelection, Outcomes, StageAppend
<1>2. sel.stored /\ SettleStored(sel, known) => Outcomes(sel, known) /\ UNCHANGED storing
  BY <1>1 DEF SettleStored, Outcomes
<1> QED BY <1>1, <1>2

\* A selection that is settled on takes its request, and its fallback's, from the places
\* where they were.
LEMMA SelectionFollows ==
  ASSUME StorageInv, PlacesAreOwn, mailbox # << >>, UNCHANGED <<journal, orphans, storing>>,
         NEW sel, NEW known, Outcomes(sel, known),
         \A c \in Tracked : sel.stored /\ sel.id = c =>
           /\ Where(c) # {} /\ ~InMailbox(c)' /\ ~InQueue(c) /\ ~InStoring(c) /\ ~IsAppended(c)
           /\ ~(sel.fallback # None /\ sel.fallback.id = c),
         \A c \in Tracked : sel.fallback # None /\ sel.fallback.id = c =>
           IsFallback(c) \/ IsSelected(c),
         \A c \in Tracked :
           /\ known[c] # answers[c] => Where(c) # {}
           /\ known[c] \in FinalAnswers /\ answers[c] \notin FinalAnswers =>
                InMailbox(c) /\ ~InMailbox(c)' /\ ~(sel.stored /\ sel.id = c)
  PROVE  Once' /\ \A c \in Tracked : Follows(c) /\ AnswerFits(c)
<1>1. mailbox \in Seq(Events) /\ Once
  BY PlacesBefore DEF StorageInv, TypeOK, WriterTypeOK
<1>2. \E sends \in {<< >>, <<Drain>>} : Consume(sends)
  BY DEF Outcomes, StageAppend
<1>3. OnceInMailbox' /\ \A c \in Tracked : InMailbox(c)' => InMailbox(c)
  BY <1>1, <1>2, MailboxConsumed DEF Once
<1>4. UNCHANGED <<queue, storing>>
  BY DEF Outcomes, StageAppend
<1>5. Once' /\ \A c : (InQueue(c)' <=> InQueue(c)) /\ (InStoring(c)' <=> InStoring(c))
  BY <1>1, <1>3, <1>4, PlacesBefore DEF Once, OnceIn
<1>6. ASSUME selection' = sel, UNCHANGED <<pending, io>>,
             NEW c \in Tracked
      PROVE  Follows(c)
  <2>1. /\ IsSelected(c)' <=> selection' # None /\ sel.stored /\ sel.id = c
        /\ IsFallback(c)' <=> selection' # None /\ sel.fallback # None /\ sel.fallback.id = c
    BY <1>6 DEF IsSelected, IsFallback
  <2>2. IsAppended(c)' => IsAppended(c)
    BY <1>6, AppendUnstaged
  <2>3. CASE sel.stored /\ sel.id = c
    <3>1. Where(c) # {} /\ Where(c)' \subseteq {"selection"}
      BY <1>5, <2>1, <2>2, <2>3, PlacesNext
    <3> QED BY <3>1 DEF Follows
  <2>4. CASE sel.fallback # None /\ sel.fallback.id = c /\ ~(sel.stored /\ sel.id = c)
    <3>1. Where(c) # {} /\ Where(c)' \subseteq {"fallback"}
      BY <1>3, <1>5, <2>1, <2>2, <2>4, Places, PlacesNext, Elsewhere
    <3> QED BY <3>1 DEF Follows
  <2>5. CASE ~(sel.fallback # None /\ sel.fallback.id = c) /\ ~(sel.stored /\ sel.id = c)
    <3>1. Where(c)' \subseteq Where(c)
      BY <1>3, <1>5, <2>1, <2>2, <2>5, Places, PlacesNext
    <3> QED BY <3>1 DEF Follows
  <2> QED BY <2>3, <2>4, <2>5
<1>7. ASSUME selection' = None,
             NEW c \in Tracked
      PROVE  ~IsSelected(c)' /\ ~IsFallback(c)'
  BY <1>7 DEF IsSelected, IsFallback
<1>8. CASE /\ selection' = sel /\ UNCHANGED <<pending, io>>
           /\ \/ answers' = known
              \/ sel.stored /\ answers' = Told({sel.id}, "selected", known)
  <2>1. ASSUME NEW c \in Tracked
        PROVE  AnswerFits(c)
    <3>1. /\ answers'[c] # known[c] => sel.stored /\ sel.id = c
          /\ answers'[c] \in FinalAnswers => answers'[c] = known[c]
      BY <1>8, ToldCases DEF FinalAnswers
    <3>2. known[c] \in FinalAnswers /\ answers[c] \notin FinalAnswers => Where(c)' = {}
      <4>1. SUFFICES ASSUME known[c] \in FinalAnswers, answers[c] \notin FinalAnswers
                     PROVE  Where(c)' = {}
        OBVIOUS
      <4>2. InMailbox(c) /\ ~InMailbox(c)' /\ ~(sel.stored /\ sel.id = c)
        BY <4>1
      <4>3. ~(sel.fallback # None /\ sel.fallback.id = c)
        BY <4>2, Elsewhere
      <4>4. ~IsSelected(c)' /\ ~IsFallback(c)'
        BY <1>8, <4>2, <4>3 DEF IsSelected, IsFallback
      <4>5. IsAppended(c)' => IsAppended(c)
        BY <1>8, AppendUnstaged
      <4> QED BY <1>5, <4>2, <4>4, <4>5, PlacesNext, Elsewhere
    <3> QED BY <3>1, <3>2 DEF AnswerFits
  <2> QED BY <1>5, <1>6, <1>8, <2>1
<1>9. CASE /\ sel.stored /\ selection' = None
           /\ answers' = Told({sel.id}, "ignored", known)
           /\ UNCHANGED <<pending, io>>
  <2>1. ASSUME NEW c \in Tracked
        PROVE  Follows(c) /\ AnswerFits(c)
    <3>1. IsAppended(c)' => IsAppended(c)
      BY <1>9, AppendUnstaged
    <3>2. Where(c)' \subseteq Where(c)
      BY <1>3, <1>5, <1>7, <1>9, <3>1, Places, PlacesNext
    <3>3. sel.id = c => Where(c) # {} /\ Where(c)' = {}
      BY <1>5, <1>7, <1>9, <3>1, PlacesNext
    <3>4. known[c] \in FinalAnswers /\ answers[c] \notin FinalAnswers => Where(c)' = {}
      BY <1>5, <1>7, <1>9, <3>1, PlacesNext, Elsewhere
    <3> QED BY <1>9, <3>2, <3>3, <3>4, ToldCases DEF Follows, AnswerFits
  <2> QED BY <1>5, <2>1
<1>10. CASE /\ sel.stored /\ selection' = None
            /\ answers' = known
            /\ StageAppend([id |-> sel.id, input |-> PolicyInput(sel.mode)], queue)
  <2>1. \A c : IsAppended(c)' => IsAppended(c) \/ sel.id = c
    BY <1>10, AppendStaged
  <2>2. ASSUME NEW c \in Tracked
        PROVE  Follows(c) /\ AnswerFits(c)
    <3>1. sel.id # c => Where(c)' \subseteq Where(c)
      BY <1>3, <1>5, <1>7, <1>10, <2>1, Places, PlacesNext
    <3>2. sel.id = c => Where(c) # {} /\ Where(c)' \subseteq {"append"}
      BY <1>5, <1>7, <1>10, <2>1, PlacesNext
    <3>3. known[c] \in FinalAnswers /\ answers[c] \notin FinalAnswers => Where(c)' = {}
      BY <1>5, <1>7, <1>10, <2>1, PlacesNext, Elsewhere
    <3> QED BY <1>10, <3>1, <3>2, <3>3 DEF Follows, AnswerFits
  <2> QED BY <1>5, <2>2
<1> QED BY <1>8, <1>9, <1>10 DEF Outcomes

\* A decision that only takes its event answers those who are somewhere, and for good
\* only the request of that event.
LEMMA TakingFollows ==
  ASSUME StorageInv, PlacesAreOwn, mailbox # << >>,
         NEW sends \in {<< >>, <<Drain>>}, Consume(sends),
         queue' \in {queue, << >>}, storing' = storing,
         selection' \in {selection, None},
         UNCHANGED <<journal, orphans>>,
         \/ pending' \in {pending, None} /\ io' = io
         \/ AppendIndeterminate \/ LoadedAbsent,
         \/ answers' = answers
         \/ \E ids, answer :
              /\ answers' = Told(ids, answer, answers)
              /\ \A c \in ids \cap Tracked : Where(c) # {}
              /\ answer \in FinalAnswers =>
                   \A c \in ids \cap Tracked : Carries(Event) /\ Event.id = c
  PROVE  Once' /\ \A c \in Tracked : Follows(c) /\ AnswerFits(c)
<1>1. /\ Once'
      /\ \A c \in Tracked : /\ Where(c)' \subseteq Where(c)
                            /\ Carries(Event) /\ Event.id = c => Where(c) # {} /\ Where(c)' = {}
  BY DecisionKeeps
<1>2. ASSUME NEW c \in Tracked
      PROVE  AnswerFits(c)
  <2>1. CASE answers' = answers
    BY <2>1 DEF AnswerFits
  <2>2. ASSUME NEW ids, NEW answer, answers' = Told(ids, answer, answers),
               \A d \in ids \cap Tracked : Where(d) # {},
               answer \in FinalAnswers =>
                 \A d \in ids \cap Tracked : Carries(Event) /\ Event.id = d
        PROVE  AnswerFits(c)
    <3>1. \/ answers'[c] = answers[c]
          \/ answers'[c] = answer /\ c \in ids
      BY <2>2, ToldCases
    <3> QED BY <1>1, <2>2, <3>1 DEF AnswerFits
  <2> QED BY <2>1, <2>2
<1> QED BY <1>1, <1>2 DEF Follows

\* Stopping and releasing answer those the writer owes an answer.
LEMMA EndFollows ==
  ASSUME StorageInv, PlacesAreOwn, mailbox # << >>, UNCHANGED <<journal, orphans>>,
         (pending # None /\ Release) \/ (\E end \in {"failed", "closed"} : Stop(end, {}))
  PROVE  Once' /\ \A c \in Tracked : Follows(c) /\ AnswerFits(c)
<1>1. ASSUME NEW ids, NEW answer, answers' = Told(ids, answer, answers), ids \subseteq Owed,
             answer \notin FinalAnswers,
             NEW sends \in {<< >>, <<Drain>>}, Consume(sends),
             queue' \in {queue, << >>}, UNCHANGED <<storing, io>>,
             selection' \in {selection, None}, pending' = None
      PROVE  Once' /\ \A c \in Tracked : Follows(c) /\ AnswerFits(c)
  <2>1. \A c \in ids \cap Tracked : Where(c) # {}
    BY <1>1, OwedIsSomewhere
  <2> QED BY <1>1, <2>1, TakingFollows
<1>2. CASE pending # None /\ Release
  <2>1. pending.id \in Owed /\ "accepted" \notin FinalAnswers
    BY <1>2 DEF Owed, FinalAnswers
  <2> QED BY <1>1, <1>2, <2>1 DEF Release, ReleaseAnswers, ReleaseSends
<1>3. ASSUME NEW end \in {"failed", "closed"}, Stop(end, {})
      PROVE  Once' /\ \A c \in Tracked : Follows(c) /\ AnswerFits(c)
  <2>1. answers' = Told(Owed \cup {}, end, answers) /\ end \notin FinalAnswers
    BY <1>3 DEF Stop, LastAnswers, FinalAnswers
  <2> QED BY <1>1, <1>3, <2>1 DEF Stop
<1> QED BY <1>2, <1>3

\* IDs of the session's own submissions, and those of other processes, are no request's.
LEMMA OwnIdsUntracked ==
  ASSUME NEW c \in Tracked
  PROVE  /\ \A u : DequeueId(u) # c
         /\ \A t, g : ChildId(t, g) # c
         /\ \A t : RecoveryId(t) # c /\ <<"reselect", t>> # c /\ <<"foreign", t>> # c
BY DEF Tracked, Requests, UserId, CreateId, DequeueId, ChildId, RecoveryId

\* A submission goes from the mailbox to the queue, or is admitted, ...
LEMMA SubmitFollows ==
  ASSUME StorageInv, PlacesAreOwn, UNCHANGED <<journal, orphans>>,
         SubmitToDead \/ SubmitBusy \/ SubmitQueued \/ SubmitAdmitted
  PROVE  Once' /\ \A c \in Tracked : Follows(c) /\ AnswerFits(c)
<1>1. /\ mailbox # << >> /\ Carries(Event)
      /\ mailbox \in Seq(Events) /\ queue \in Seq(Submission) /\ Once
  <2>1. mailbox # << >> /\ Event.type = "submit"
    BY DEF SubmitToDead, SubmitBusy, SubmitQueued, SubmitAdmitted, Deciding, Event
  <2> QED BY <2>1, PlacesBefore DEF Carries, StorageInv, TypeOK, WriterTypeOK
<1>2. \A c \in Tracked : Event.id = c => InMailbox(c)
  BY <1>1 DEF InMailbox, Event
<1>3. CASE SubmitToDead \/ SubmitBusy
  <2>1. PICK answer : answers' = Told({Event.id}, answer, answers)
    BY <1>3 DEF SubmitToDead, SubmitBusy
  <2>2. /\ Consume(<< >>)
        /\ UNCHANGED <<queue, storing, selection, pending, io>>
    BY <1>3 DEF SubmitToDead, SubmitBusy
  <2>3. \A c \in Tracked : Event.id = c => Where(c) # {}
    BY <1>2, Places
  <2>4. \E ids, end : /\ answers' = Told(ids, end, answers)
                      /\ \A c \in ids \cap Tracked : Where(c) # {}
                      /\ end \in FinalAnswers =>
                           \A c \in ids \cap Tracked : Carries(Event) /\ Event.id = c
    <3>1. \A c \in {Event.id} \cap Tracked : Where(c) # {} /\ Carries(Event) /\ Event.id = c
      BY <1>1, <2>3
    <3> QED BY <2>1, <3>1
  <2> QED BY <1>1, <2>2, <2>4, TakingFollows
<1>4. CASE SubmitQueued
  <2> DEFINE s == [id |-> Event.id, input |-> Event.input]
  <2>1. /\ queue' = Append(queue, s) /\ s.id = Event.id
        /\ \E sends \in {<< >>, <<Drain>>} : Consume(sends)
        /\ UNCHANGED <<storing, selection, pending, io, answers>>
    BY <1>4 DEF SubmitQueued, effectVars
  <2> HIDE DEF s
  <2>2. /\ OnceInMailbox'
        /\ \A c \in Tracked : InMailbox(c)' => InMailbox(c) /\ Event.id # c
    BY <1>1, <2>1, MailboxConsumed DEF Once
  <2>3. s.id \in Tracked => ~IsIn(queue, s.id)
    BY <1>2, <2>1, Elsewhere, PlacesBefore
  <2>4. OnceIn(queue') /\ \A c : IsIn(queue', c) => IsIn(queue, c) \/ s.id = c
    BY <1>1, <2>1, <2>3, OnceAppend DEF Once
  <2>5. Once' /\ \A c : InStoring(c)' <=> InStoring(c)
    BY <1>1, <2>1, <2>2, <2>4, PlacesBefore DEF Once, OnceIn
  <2>6. \A c : IsAppended(c)' => IsAppended(c)
    BY <2>1, AppendUnstaged
  <2>7. \A c : (IsSelected(c)' <=> IsSelected(c)) /\ (IsFallback(c)' <=> IsFallback(c))
    BY <2>1 DEF IsSelected, IsFallback
  <2>8. ASSUME NEW c \in Tracked
        PROVE  Follows(c) /\ AnswerFits(c)
    <3>1. Event.id # c => Where(c)' \subseteq Where(c)
      BY <2>1, <2>2, <2>4, <2>5, <2>6, <2>7, Places, PlacesNext, PlacesBefore
    <3>2. Event.id = c => Where(c) # {} /\ Where(c)' \subseteq {"queue"}
      BY <1>2, <2>2, <2>5, <2>6, <2>7, Places, PlacesNext, Elsewhere
    <3> QED BY <2>1, <3>1, <3>2 DEF Follows, AnswerFits
  <2> QED BY <2>5, <2>8
<1>5. CASE SubmitAdmitted
  <2> DEFINE s == [id |-> Event.id, input |-> Event.input]
  <2>1. Admit(s, << >>, << >>) /\ s.id = Event.id
    BY <1>5 DEF SubmitAdmitted
  <2> HIDE DEF s
  <2>2. Consume(<< >>)
    BY <2>1 DEF Admit, StageAppend, Stop
  <2>3. /\ OnceInMailbox'
        /\ \A c \in Tracked : InMailbox(c)' => InMailbox(c) /\ Event.id # c
    BY <1>1, <2>2, MailboxConsumed DEF Once
  <2>4. OnceIn(<< >>) /\ \A c : ~IsIn(<< >>, c)
    BY DEF OnceIn, IsIn
  <2> QED BY <1>1, <1>2, <2>1, <2>3, <2>4, AdmitFollows
<1> QED BY <1>3, <1>4, <1>5

\* ... and from the queue it is admitted when its turn comes.
LEMMA DrainFollows ==
  ASSUME StorageInv, PlacesAreOwn, UNCHANGED <<journal, orphans>>,
         DrainSelection \/ DrainDequeue \/ DrainQueue \/ DrainNothing
  PROVE  Once' /\ \A c \in Tracked : Follows(c) /\ AnswerFits(c)
<1>1. /\ mailbox # << >> /\ mailbox \in Seq(Events) /\ queue \in Seq(Submission) /\ Once
  BY PlacesBefore DEF DrainSelection, DrainDequeue, DrainQueue, DrainNothing, Deciding,
                      StorageInv, TypeOK, WriterTypeOK
<1>2. CASE DrainSelection
  <2>1. Outcomes(selection, answers) /\ UNCHANGED storing /\ selection # None
    BY <1>2, SelectionOutcomes DEF DrainSelection, AtBoundary
  <2>2. \E sends \in {<< >>, <<Drain>>} : Consume(sends)
    BY <2>1 DEF Outcomes, StageAppend
  <2>3. \A c \in Tracked : InMailbox(c)' => InMailbox(c)
    BY <1>1, <2>2, MailboxConsumed DEF Once
  <2>4. \A c \in Tracked : selection.stored /\ selection.id = c => IsSelected(c)
    BY <2>1 DEF IsSelected
  <2>5. \A c \in Tracked : selection.fallback # None /\ selection.fallback.id = c => IsFallback(c)
    BY <2>1 DEF IsFallback
  <2>6. \A c \in Tracked : selection.stored /\ selection.id = c =>
          /\ Where(c) # {} /\ ~InMailbox(c)' /\ ~InQueue(c) /\ ~InStoring(c) /\ ~IsAppended(c)
          /\ ~(selection.fallback # None /\ selection.fallback.id = c)
    BY <2>3, <2>4, <2>5, Elsewhere, Places
  <2> QED BY <1>1, <2>1, <2>5, <2>6, SelectionFollows
<1>3. ASSUME NEW s, NEW rest, NEW again \in {<< >>, <<Drain>>}, Admit(s, rest, again),
             OnceIn(rest),
             \A c \in Tracked : IsIn(rest, c) => InQueue(c) /\ s.id # c,
             \A c \in Tracked : s.id = c => InQueue(c)
      PROVE  Once' /\ \A c \in Tracked : Follows(c) /\ AnswerFits(c)
  <2>1. Consume(<< >>) \/ Consume(again)
    BY <1>3 DEF Admit, StageAppend, Stop
  <2>2. OnceInMailbox' /\ \A c \in Tracked : InMailbox(c)' => InMailbox(c)
    BY <1>1, <1>3, <2>1, MailboxConsumed DEF Once
  <2>3. \A c \in Tracked : InMailbox(c)' => InMailbox(c) /\ s.id # c
    BY <1>3, <2>2, Elsewhere
  <2> QED BY <1>1, <1>3, <2>2, <2>3, AdmitFollows
<1>4. CASE DrainDequeue
  <2> DEFINE u == Head(durable.pendingInputs)
             s == [id |-> DequeueId(u), input |-> DequeuedInput(u)]
  <2>1. Admit(s, queue, << >>)
    BY <1>4 DEF DrainDequeue
  <2>2. \A c \in Tracked : s.id # c
    BY OwnIdsUntracked
  <2> HIDE DEF s
  <2> QED BY <1>1, <1>3, <2>1, <2>2, PlacesBefore DEF Once
<1>5. CASE DrainQueue
  <2>1. Admit(Head(queue), Tail(queue), <<Drain>>) /\ queue # << >>
    BY <1>5 DEF DrainQueue
  <2>2. /\ OnceIn(Tail(queue)) /\ IsIn(queue, Head(queue).id)
        /\ \A c \in Tracked : IsIn(Tail(queue), c) => IsIn(queue, c) /\ Head(queue).id # c
    BY <1>1, <2>1, OnceTail DEF Once
  <2> QED BY <1>3, <2>1, <2>2, PlacesBefore
<1>6. CASE DrainNothing
  <2>1. Consume(<< >>) /\ UNCHANGED <<queue, storing, selection, pending, io, answers>>
    BY <1>6 DEF DrainNothing, effectVars
  <2> QED BY <1>1, <2>1, TakingFollows
<1> QED BY <1>2, <1>4, <1>5, <1>6

\* A selection goes from the mailbox to the configuration store, and may supersede one
\* that is stored, which becomes its fallback; ...
LEMMA SelectFollows ==
  ASSUME StorageInv, AdmissionInv, PlacesAreOwn, UNCHANGED <<journal, orphans>>,
         SelectToDead \/ Select \/ Reselect
  PROVE  Once' /\ \A c \in Tracked : Follows(c) /\ AnswerFits(c)
<1>1. /\ mailbox # << >> /\ mailbox \in Seq(Events) /\ Once
      /\ selection \in Selection \cup {None} /\ storing \in Seq([id : Ids, mode : Mode])
  BY PlacesBefore DEF SelectToDead, Select, Reselect, Deciding, StorageInv, TypeOK, WriterTypeOK
<1>2. /\ Carries(Event) => \A c \in Tracked : Event.id = c => InMailbox(c)
      /\ ~Carries(Event) => \A c \in Tracked : Event.id # c
  <2>1. CASE Carries(Event)
    BY <1>1, <2>1 DEF InMailbox, Event
  <2>2. CASE ~Carries(Event)
    <3>1. Event.type = "reselect"
      BY <2>2 DEF SelectToDead, Select, Reselect, Deciding, Carries, Event
    <3>2. EventIsOwn(Event)
      BY <1>1 DEF Event, AdmissionInv, IdsAreOwn
    <3>3. \E n : Event.id = <<"reselect", n>>
      BY <3>1, <3>2 DEF EventIsOwn
    <3> QED BY <3>3, OwnIdsUntracked
  <2> QED BY <2>1, <2>2
<1>3. \A c \in Tracked : Event.id = c => Carries(Event) /\ InMailbox(c) /\ Where(c) # {}
  BY <1>2, Places
<1>4. /\ Superseded = answers \/ (/\ selection # None /\ selection.stored
                                  /\ Superseded = Told({selection.id}, "selected", answers))
      /\ \A c \in Tracked : Superseded[c] # answers[c] => IsSelected(c)
      /\ \A c \in Tracked : Superseded[c] \in FinalAnswers => Superseded[c] = answers[c]
  BY ToldCases DEF Superseded, IsSelected, FinalAnswers
<1>5. ASSUME NEW mode, NEW stored,
             NEW c
      PROVE  LET sel == Selected(Event.id, mode, stored)
             IN /\ sel.id = Event.id /\ sel.stored = stored
                /\ sel.fallback # None /\ sel.fallback.id = c => IsFallback(c) \/ IsSelected(c)
  BY DEF Selected, IsFallback, IsSelected
<1>6. CASE SelectToDead
  <2>1. /\ Consume(<< >>) /\ answers' = Told({Event.id}, status, answers)
        /\ UNCHANGED <<queue, storing, selection, pending, io>>
    BY <1>6 DEF SelectToDead
  <2>2. \A c \in {Event.id} \cap Tracked : Where(c) # {} /\ Carries(Event) /\ Event.id = c
    BY <1>3
  <2>3. \E ids, end : /\ answers' = Told(ids, end, answers)
                      /\ \A c \in ids \cap Tracked : Where(c) # {}
                      /\ end \in FinalAnswers =>
                           \A c \in ids \cap Tracked : Carries(Event) /\ Event.id = c
    BY <2>1, <2>2
  <2> QED BY <1>1, <2>1, <2>3, TakingFollows
<1>7. CASE Select
  <2>1. PICK m : /\ selection' = Selected(Event.id, m, FALSE)
                 /\ storing' = Append(storing, [id |-> Event.id, mode |-> m])
    BY <1>7 DEF Select
  <2> DEFINE e == [id |-> Event.id, mode |-> m]
  <2>2. storing' = Append(storing, e) /\ e.id = Event.id
    BY <2>1
  <2> HIDE DEF e
  <2>3. Consume(<< >>) /\ answers' = Superseded /\ UNCHANGED <<queue, pending, io>>
    BY <1>7 DEF Select
  <2>4. /\ OnceInMailbox'
        /\ \A c \in Tracked : InMailbox(c)' => InMailbox(c) /\ Event.id # c
    BY <1>1, <1>3, <2>3, MailboxConsumed DEF Once
  <2>5. e.id \in Tracked => ~IsIn(storing, e.id)
    BY <1>3, <2>2, Elsewhere, PlacesBefore
  <2>6. OnceIn(storing') /\ \A c : IsIn(storing', c) => IsIn(storing, c) \/ e.id = c
    BY <1>1, <2>2, <2>5, OnceAppend DEF Once
  <2>7. Once' /\ \A c : InQueue(c)' <=> InQueue(c)
    BY <1>1, <2>3, <2>4, <2>6, PlacesBefore DEF Once, OnceIn
  <2>8. \A c : IsAppended(c)' => IsAppended(c)
    BY <2>3, AppendUnstaged
  <2>9. \A c : ~IsSelected(c)' /\ (IsFallback(c)' => IsFallback(c) \/ IsSelected(c))
    <3> DEFINE sel == Selected(Event.id, m, FALSE)
    <3>1. /\ selection' = sel /\ sel.stored = FALSE
          /\ \A c : sel.fallback # None /\ sel.fallback.id = c => IsFallback(c) \/ IsSelected(c)
      BY <1>5, <2>1
    <3> HIDE DEF sel
    <3>2. \A c : /\ IsSelected(c)' <=> sel # None /\ sel.stored /\ sel.id = c
                 /\ IsFallback(c)' <=> sel # None /\ sel.fallback # None /\ sel.fallback.id = c
      BY <3>1 DEF IsSelected, IsFallback
    <3> QED BY <3>1, <3>2
  <2>10. ASSUME NEW c \in Tracked
         PROVE  Follows(c) /\ AnswerFits(c)
    <3>1. CASE Event.id = c
      <4>1. Where(c) # {} /\ Where(c)' \subseteq {"storing"}
        BY <1>3, <2>4, <2>7, <2>8, <2>9, <3>1, PlacesNext, Elsewhere
      <4> QED BY <4>1, <1>4, <2>3 DEF Follows, AnswerFits
    <3>2. CASE Event.id # c /\ IsSelected(c)
      <4>1. Where(c) # {} /\ Where(c)' \subseteq {"fallback"}
        BY <2>2, <2>4, <2>6, <2>7, <2>8, <2>9, <3>2, Places, PlacesNext, PlacesBefore, Elsewhere
      <4> QED BY <4>1, <1>4, <2>3 DEF Follows, AnswerFits
    <3>3. CASE Event.id # c /\ ~IsSelected(c)
      <4>1. Where(c)' \subseteq Where(c)
        BY <2>2, <2>4, <2>6, <2>7, <2>8, <2>9, <3>3, Places, PlacesNext, PlacesBefore
      <4> QED BY <4>1, <1>4, <2>3, <3>3 DEF Follows, AnswerFits
    <3> QED BY <3>1, <3>2, <3>3
  <2> QED BY <2>7, <2>10
<1>8. CASE Reselect
  <2> DEFINE sel == Selected(Event.id, Event.mode, TRUE)
  <2>1. SettleStored(sel, Superseded)
    BY <1>8 DEF Reselect
  <2>2. /\ sel.id = Event.id /\ sel.stored
        /\ \A c : sel.fallback # None /\ sel.fallback.id = c => IsFallback(c) \/ IsSelected(c)
    BY <1>5
  <2> HIDE DEF sel
  <2>3. Outcomes(sel, Superseded) /\ UNCHANGED storing
    BY <2>1, <2>2, SelectionOutcomes
  <2>4. ~Carries(Event)
    BY <1>8 DEF Reselect, Deciding, Carries, Event
  <2>5. \A c \in Tracked : sel.id # c
    BY <1>2, <2>2, <2>4
  <2>6. \A c \in Tracked :
          /\ Superseded[c] # answers[c] => Where(c) # {}
          /\ ~(Superseded[c] \in FinalAnswers /\ answers[c] \notin FinalAnswers)
    BY <1>4, Places
  <2> QED BY <1>1, <2>2, <2>3, <2>5, <2>6, SelectionFollows
<1> QED BY <1>6, <1>7, <1>8

\* ... and when the store has settled it, it is selected, a fallback, or gone, with the
\* refusal of its write.
LEMMA StoredFollows ==
  ASSUME StorageInv, PlacesAreOwn, UNCHANGED <<journal, orphans>>,
         StoredCurrent \/ StoredSuperseded
  PROVE  Once' /\ \A c \in Tracked : Follows(c) /\ AnswerFits(c)
<1>1. /\ mailbox # << >> /\ mailbox \in Seq(Events) /\ Once /\ Carries(Event)
      /\ selection \in Selection \cup {None}
  <2>1. mailbox # << >> /\ Event.type = "stored"
    BY DEF StoredCurrent, StoredSuperseded, Deciding, Event
  <2> QED BY <2>1, PlacesBefore DEF Carries, StorageInv, TypeOK, WriterTypeOK
<1>2. \A c : Event.id = c => InMailbox(c)
  BY <1>1 DEF InMailbox, Event
<1>3. ASSUME NEW sends \in {<< >>, <<Drain>>}, Consume(sends)
      PROVE  /\ OnceInMailbox'
             /\ \A c \in Tracked : InMailbox(c)' => InMailbox(c) /\ Event.id # c
  BY <1>1, <1>3, MailboxConsumed DEF Once
<1>4. ASSUME NEW sel, NEW known, Outcomes(sel, known)
      PROVE  \A c \in Tracked : InMailbox(c)' => InMailbox(c) /\ Event.id # c
  BY <1>3, <1>4 DEF Outcomes, StageAppend
<1>5. CASE StoredCurrent /\ Event.ok
  <2> DEFINE sel == [selection EXCEPT !.stored = TRUE]
  <2>1. /\ SettleStored(sel, answers) /\ selection # None /\ selection.id = Event.id
    BY <1>5 DEF StoredCurrent
  <2>2. sel.stored /\ sel.id = Event.id /\ sel.fallback = selection.fallback
    BY <1>1, <2>1 DEF Selection
  <2> HIDE DEF sel
  <2>3. Outcomes(sel, answers) /\ UNCHANGED storing
    BY <2>1, <2>2, SelectionOutcomes
  <2>4. \A c \in Tracked : sel.fallback # None /\ sel.fallback.id = c => IsFallback(c)
    BY <2>1, <2>2 DEF IsFallback
  <2>5. \A c \in Tracked : sel.stored /\ sel.id = c =>
          /\ Where(c) # {} /\ ~InMailbox(c)' /\ ~InQueue(c) /\ ~InStoring(c) /\ ~IsAppended(c)
          /\ ~(sel.fallback # None /\ sel.fallback.id = c)
    BY <1>2, <1>4, <2>2, <2>3, <2>4, Places, Elsewhere
  <2> QED BY <1>1, <2>3, <2>4, <2>5, SelectionFollows
<1>6. CASE StoredCurrent /\ ~Event.ok /\ selection.fallback # None
  <2> DEFINE sel == [id |-> selection.fallback.id, mode |-> selection.fallback.mode,
                     stored |-> TRUE, revokes |-> selection.fallback.revokes,
                     fallback |-> None]
             known == Told({Event.id}, "refused", answers)
  <2>1. SettleStored(sel, known) /\ selection # None
    BY <1>6 DEF StoredCurrent
  <2>2. sel.stored /\ sel.id = selection.fallback.id /\ sel.fallback = None
    OBVIOUS
  <2>3. \A c \in Tracked : known[c] # answers[c] => Event.id = c
    BY ToldCases
  <2> HIDE DEF sel, known
  <2>4. Outcomes(sel, known) /\ UNCHANGED storing
    BY <2>1, <2>2, SelectionOutcomes
  <2>5. \A c \in Tracked : sel.stored /\ sel.id = c => IsFallback(c)
    BY <1>6, <2>1, <2>2 DEF IsFallback
  <2>6. \A c \in Tracked : sel.stored /\ sel.id = c =>
          /\ Where(c) # {} /\ ~InMailbox(c)' /\ ~InQueue(c) /\ ~InStoring(c) /\ ~IsAppended(c)
          /\ ~(sel.fallback # None /\ sel.fallback.id = c)
    BY <1>4, <2>2, <2>4, <2>5, Places, Elsewhere
  <2>7. \A c \in Tracked :
          /\ known[c] # answers[c] => Where(c) # {}
          /\ known[c] \in FinalAnswers /\ answers[c] \notin FinalAnswers =>
               InMailbox(c) /\ ~InMailbox(c)' /\ ~(sel.stored /\ sel.id = c)
    <3>1. ASSUME NEW c \in Tracked, Event.id = c
          PROVE  Where(c) # {} /\ InMailbox(c) /\ ~InMailbox(c)' /\ ~(sel.stored /\ sel.id = c)
      BY <1>2, <1>4, <2>4, <2>5, <3>1, Places, Elsewhere
    <3> QED BY <2>3, <3>1
  <2> QED BY <1>1, <2>2, <2>4, <2>6, <2>7, SelectionFollows
<1>7. CASE StoredCurrent /\ ~Event.ok /\ selection.fallback = None
  <2>1. /\ Consume(<<Drain>>) /\ answers' = Told({Event.id}, "refused", answers)
        /\ selection' = None /\ UNCHANGED <<queue, storing, pending, io>>
    BY <1>7 DEF StoredCurrent
  <2>2. \A c \in {Event.id} \cap Tracked : Where(c) # {} /\ Carries(Event) /\ Event.id = c
    BY <1>1, <1>2, Places
  <2>3. \E ids, end : /\ answers' = Told(ids, end, answers)
                      /\ \A c \in ids \cap Tracked : Where(c) # {}
                      /\ end \in FinalAnswers =>
                           \A c \in ids \cap Tracked : Carries(Event) /\ Event.id = c
    BY <2>1, <2>2
  <2> QED BY <1>1, <2>1, <2>3, TakingFollows
<1>8. CASE StoredSuperseded
  <2>1. Consume(<< >>) /\ UNCHANGED <<queue, storing, pending, io>>
    BY <1>8 DEF StoredSuperseded
  <2>2. \A c \in Tracked : answers'[c] # answers[c] =>
          Event.id = c /\ answers'[c] = IF Event.ok THEN "selected" ELSE "refused"
    BY <1>8, ToldCases DEF StoredSuperseded
  <2>3. \A c : /\ IsSelected(c)' => IsSelected(c)
               /\ IsFallback(c)' => IsFallback(c) \/ (Event.ok /\ Event.id = c)
    <3>1. CASE Event.ok /\ selection # None
      <4> DEFINE f == [id |-> Event.id, mode |-> Event.mode, revokes |-> selection.revokes]
      <4>1. selection' = [selection EXCEPT !.fallback = f] /\ f.id = Event.id
        BY <1>8, <3>1 DEF StoredSuperseded
      <4> HIDE DEF f
      <4>2. /\ selection'.stored = selection.stored /\ selection'.id = selection.id
            /\ selection'.fallback = f
        BY <1>1, <3>1, <4>1 DEF Selection
      <4> QED BY <3>1, <4>1, <4>2 DEF IsSelected, IsFallback
    <3>2. CASE ~(Event.ok /\ selection # None)
      <4>1. selection' = selection
        BY <1>8, <3>2 DEF StoredSuperseded
      <4> QED BY <4>1 DEF IsSelected, IsFallback
    <3> QED BY <3>1, <3>2
  <2>4. /\ OnceInMailbox'
        /\ \A c \in Tracked : InMailbox(c)' => InMailbox(c) /\ Event.id # c
    BY <1>3, <2>1
  <2>5. Once' /\ \A c : (InQueue(c)' <=> InQueue(c)) /\ (InStoring(c)' <=> InStoring(c))
    BY <1>1, <2>1, <2>4, PlacesBefore DEF Once, OnceIn
  <2>6. \A c : IsAppended(c)' => IsAppended(c)
    BY <2>1, AppendUnstaged
  <2>7. ASSUME NEW c \in Tracked
        PROVE  Follows(c) /\ AnswerFits(c)
    <3>1. CASE Event.id = c
      <4>1. /\ Where(c) # {} /\ Where(c)' \subseteq {"fallback"}
            /\ ~Event.ok => Where(c)' = {}
        BY <1>2, <2>3, <2>4, <2>5, <2>6, <3>1, Places, PlacesNext, Elsewhere
      <4> QED BY <2>2, <4>1 DEF Follows, AnswerFits, FinalAnswers
    <3>2. CASE Event.id # c
      <4>1. Where(c)' \subseteq Where(c)
        BY <2>3, <2>4, <2>5, <2>6, <3>2, Places, PlacesNext
      <4> QED BY <2>2, <3>2, <4>1 DEF Follows, AnswerFits
    <3> QED BY <3>1, <3>2
  <2> QED BY <2>5, <2>7
<1> QED BY <1>5, <1>6, <1>7, <1>8 DEF StoredCurrent

\* An append leaves its place only to be answered.
LEMMA StorageFollows ==
  ASSUME StorageInv, PlacesAreOwn, UNCHANGED <<journal, orphans>>,
         \/ AppendCommitted \/ AppendIndeterminate \/ AppendRefused
         \/ LoadedCommitted \/ LoadedAbsent \/ LoadedUnusable \/ StorageIgnored \/ Close
  PROVE  Once' /\ \A c \in Tracked : Follows(c) /\ AnswerFits(c)
<1>1. mailbox # << >>
  BY DEF AppendCommitted, AppendIndeterminate, AppendRefused, LoadedCommitted, LoadedAbsent,
         LoadedUnusable, StorageIgnored, Close, Deciding
<1>2. CASE AppendIndeterminate \/ LoadedAbsent \/ StorageIgnored
  <2>1. /\ Consume(<< >>) /\ UNCHANGED <<queue, storing, selection, answers>>
        /\ StorageIgnored => UNCHANGED <<pending, io>>
    BY <1>2 DEF AppendIndeterminate, LoadedAbsent, StorageIgnored, effectVars
  <2> QED BY <1>1, <1>2, <2>1, TakingFollows
<1>3. CASE AppendCommitted \/ AppendRefused \/ LoadedCommitted \/ LoadedUnusable \/ Close
  <2>1. (pending # None /\ Release) \/ (\E end \in {"failed", "closed"} : Stop(end, {}))
    BY <1>3 DEF AppendCommitted, AppendRefused, LoadedCommitted, LoadedUnusable, Close, InFlight
  <2> QED BY <1>1, <2>1, EndFollows
<1> QED BY <1>2, <1>3

\* Whatever the actor decides.
LEMMA DecisionFollows ==
  ASSUME StorageInv, AdmissionInv, PlacesAreOwn, WriterDecides
  PROVE  Once' /\ \A c \in Tracked : Follows(c) /\ AnswerFits(c)
<1>1. Decide /\ UNCHANGED <<journal, orphans>>
  BY DEF WriterDecides, storeVars, lostVars
<1> QED BY <1>1, SubmitFollows, DrainFollows, SelectFollows, StoredFollows, StorageFollows
        DEF Decide

-----------------------------------------------------------------------------
\* The steps around the actor

\* None of them puts a request's append under way, or stores one that was not.
LEMMA AppendedLeft ==
  ASSUME StorageInv, RequestsAreFit,
         Client \/ Host \/ Port \/ World \/ Opening \/ UNCHANGED vars,
         NEW c \in Tracked, IsAppended(c)'
  PROVE  IsAppended(c)
<1>1. Underway' \subseteq Underway
  BY UnderwayLeft
<1>2. CASE Committed(c)'
  <2>1. journal \in Seq(Batches)
    BY DEF StorageInv, TypeOK
  <2>2. ASSUME NEW r, r.id # c \/ r \in Underway, journal' = Append(journal, r)
        PROVE  IsAppended(c)
    <3>1. \A i \in DOMAIN journal' :
            \/ i \in DOMAIN journal /\ journal'[i] = journal[i]
            \/ journal'[i] = r
      BY <2>1, <2>2, AppendCases
    <3> QED BY <1>2, <2>2, <3>1 DEF Committed, IsAppended
  <2>3. journal' = journal => IsAppended(c)
    BY <1>2 DEF Committed, IsAppended
  <2>4. CASE ForeignAppends
    <3>1. PICK r \in Batches : /\ Write(r)
                               /\ \/ r.id = RecoveryId(Tip.turn)
                                  \/ \E n \in Nat : r.id = <<"foreign", n>>
      BY <2>4, ForeignIsFit
    <3>2. r.id # c /\ Batch(r).id = r.id
      BY <3>1, OwnIdsUntracked DEF Batch
    <3>3. journal' = journal \/ journal' = Append(journal, Batch(r))
      BY <3>1 DEF Write
    <3> QED BY <2>2, <2>3, <3>2, <3>3
  <2>5. CASE ~ForeignAppends
    <3>1. \/ journal' = journal
          \/ \E r \in Underway : journal' = Append(journal, r)
      BY <2>5, StoreCases DEF Next
    <3> QED BY <2>2, <2>3, <3>1
  <2> QED BY <2>4, <2>5
<1>3. CASE \E request \in Underway' : request.id = c
  BY <1>1, <1>3 DEF IsAppended
<1>4. Committed(c)' \/ \E request \in Underway' : request.id = c
  BY DEF IsAppended
<1> QED BY <1>2, <1>3, <1>4

\* A step that posts nothing of a request's leaves every request where it is.
LEMMA ElsewhereFollows ==
  ASSUME StorageInv, PlacesAreOwn, UNCHANGED <<queue, selection, storing>>,
         \/ mailbox' = mailbox
         \/ \E e : /\ mailbox' = Append(mailbox, e)
                   /\ Carries(e) => e.id \notin Tracked,
         \A c \in Tracked : IsAppended(c)' => IsAppended(c),
         \A c \in Tracked : answers'[c] = answers[c]
  PROVE  Once' /\ \A c \in Tracked : Follows(c) /\ AnswerFits(c)
<1>1. mailbox \in Seq(Events) /\ Once
  BY PlacesBefore DEF StorageInv, TypeOK, WriterTypeOK
<1>2. OnceInMailbox' /\ \A c \in Tracked : InMailbox(c)' => InMailbox(c)
  <2>1. CASE mailbox' = mailbox
    BY <1>1, <2>1 DEF Once, OnceInMailbox, InMailbox
  <2>2. ASSUME NEW e, mailbox' = Append(mailbox, e), Carries(e) => e.id \notin Tracked
        PROVE  OnceInMailbox' /\ \A c \in Tracked : InMailbox(c)' => InMailbox(c)
    BY <1>1, <2>2, MailboxPosted DEF Once
  <2> QED BY <2>1, <2>2
<1>3. Once' /\ \A c : (InQueue(c)' <=> InQueue(c)) /\ (InStoring(c)' <=> InStoring(c))
  BY <1>1, <1>2, PlacesBefore DEF Once, OnceIn
<1>4. \A c : (IsSelected(c)' <=> IsSelected(c)) /\ (IsFallback(c)' <=> IsFallback(c))
  BY DEF IsSelected, IsFallback
<1>5. ASSUME NEW c \in Tracked
      PROVE  Where(c)' \subseteq Where(c)
  BY <1>2, <1>3, <1>4, Places, PlacesNext
<1> QED BY <1>3, <1>5 DEF Follows, AnswerFits

\* A client's request is made once, and nothing of it was anywhere before.
LEMMA RequestFollows ==
  ASSUME StorageInv, AdmissionInv, PlacesAreOwn, FateFollowsAnswer, Client
  PROVE  Once' /\ \A c \in Tracked : Follows(c) /\ AnswerFits(c)
<1>1. /\ mailbox \in Seq(Events) /\ Once
      /\ \A c \in Tracked : IsAppended(c)' => IsAppended(c)
  BY PlacesBefore, AppendedLeft DEF StorageInv, TypeOK, WriterTypeOK, AdmissionInv
<1>2. CASE SendClose
  <2>1. /\ UNCHANGED <<queue, selection, storing, answers>>
        /\ mailbox' = Append(mailbox, [type |-> "close"])
    BY <1>2 DEF SendClose, Post, unposted
  <2>2. ~Carries([type |-> "close"])
    BY DEF Carries
  <2> QED BY <1>1, <2>1, <2>2, ElsewhereFollows
<1>3. ASSUME NEW id \in Requests, NEW e, e.id = id, SendRequest(id, e)
      PROVE  Once' /\ \A c \in Tracked : Follows(c) /\ AnswerFits(c)
  <2>1. /\ UNCHANGED <<queue, selection, storing, answers>>
        /\ mailbox' = Append(mailbox, e) /\ sent' = sent \cup {id} /\ id \notin sent
    BY <1>3 DEF SendRequest, Post
  <2>2. Where(id) = {} /\ id \in Tracked
    BY <2>1 DEF FateFollowsAnswer, Tracked, Requests, CreateId, UserId
  <2>3. /\ OnceInMailbox'
        /\ \A c : InMailbox(c)' => InMailbox(c) \/ id = c
    BY <1>1, <1>3, <2>1, <2>2, MailboxPosted, Places DEF Once
  <2>4. Once' /\ \A c : (InQueue(c)' <=> InQueue(c)) /\ (InStoring(c)' <=> InStoring(c))
    BY <1>1, <2>1, <2>3, PlacesBefore DEF Once, OnceIn
  <2>5. \A c : (IsSelected(c)' <=> IsSelected(c)) /\ (IsFallback(c)' <=> IsFallback(c))
    BY <2>1 DEF IsSelected, IsFallback
  <2>6. ASSUME NEW c \in Tracked
        PROVE  Follows(c) /\ AnswerFits(c)
    <3>1. CASE c = id
      <4>1. Where(c)' \subseteq {"mailbox"}
        BY <1>1, <2>2, <2>4, <2>5, <3>1, Places, PlacesNext
      <4>2. c \in Requests \cap (sent' \ sent)
        BY <2>1, <3>1
      <4> QED BY <2>1, <4>1, <4>2 DEF Follows, AnswerFits
    <3>2. CASE c # id
      <4>1. Where(c)' \subseteq Where(c)
        BY <1>1, <2>3, <2>4, <2>5, <3>2, Places, PlacesNext
      <4> QED BY <2>1, <4>1 DEF Follows, AnswerFits
    <3> QED BY <3>1, <3>2
  <2> QED BY <2>4, <2>6
<1>4. ASSUME NEW u \in Users, SendUser(u)
      PROVE  Once' /\ \A c \in Tracked : Follows(c) /\ AnswerFits(c)
  BY <1>3, <1>4 DEF SendUser, Submit, Requests
<1>5. ASSUME NEW s \in Systems, SendSystem(s)
      PROVE  Once' /\ \A c \in Tracked : Follows(c) /\ AnswerFits(c)
  BY <1>3, <1>5 DEF SendSystem, Submit, Requests
<1>6. ASSUME NEW a \in Aborts, SendAbort(a)
      PROVE  Once' /\ \A c \in Tracked : Follows(c) /\ AnswerFits(c)
  BY <1>3, <1>6 DEF SendAbort, Submit, Requests
<1>7. ASSUME NEW s \in Selects, NEW patch \in Patches, SendSelect(s, patch)
      PROVE  Once' /\ \A c \in Tracked : Follows(c) /\ AnswerFits(c)
  <2> DEFINE e == [type |-> "select", id |-> <<"select", s>>, patch |-> patch]
  <2>1. SendRequest(<<"select", s>>, e) /\ e.id = <<"select", s>>
    BY <1>7 DEF SendSelect
  <2> HIDE DEF e
  <2> QED BY <1>3, <2>1 DEF Requests
<1> QED BY <1>2, <1>4, <1>5, <1>6, <1>7 DEF Client

\* A configuration write goes from the store's queue to the mailbox, with its result.
LEMMA StoresFollow ==
  ASSUME StorageInv, AdmissionInv, PlacesAreOwn, PortStores
  PROVE  Once' /\ \A c \in Tracked : Follows(c) /\ AnswerFits(c)
<1>1. /\ mailbox \in Seq(Events) /\ storing \in Seq([id : Ids, mode : Mode]) /\ Once
      /\ \A c \in Tracked : IsAppended(c)' => IsAppended(c)
  BY PlacesBefore, AppendedLeft DEF StorageInv, TypeOK, WriterTypeOK, AdmissionInv, Port
<1>2. PICK e : /\ mailbox' = Append(mailbox, e) /\ e.id = Head(storing).id
               /\ storing # << >> /\ storing' = Tail(storing)
               /\ UNCHANGED <<queue, selection, answers>>
  BY DEF PortStores, Post, unposted
<1>3. /\ OnceIn(storing') /\ IsIn(storing, e.id)
      /\ \A c \in Tracked : IsIn(storing', c) => IsIn(storing, c) /\ e.id # c
  BY <1>1, <1>2, OnceTail DEF Once
<1>4. e.id \in Tracked => InStoring(e.id)
  BY <1>3, PlacesBefore
<1>5. OnceInMailbox' /\ \A c : InMailbox(c)' => InMailbox(c) \/ e.id = c
  BY <1>1, <1>2, <1>4, MailboxPosted, Elsewhere DEF Once
<1>6. Once' /\ \A c : InQueue(c)' <=> InQueue(c)
  BY <1>1, <1>2, <1>3, <1>5, PlacesBefore DEF Once, OnceIn
<1>7. \A c : (IsSelected(c)' <=> IsSelected(c)) /\ (IsFallback(c)' <=> IsFallback(c))
  BY <1>2 DEF IsSelected, IsFallback
<1>8. ASSUME NEW c \in Tracked
      PROVE  Follows(c) /\ AnswerFits(c)
  <2>1. InStoring(c)' => InStoring(c) /\ e.id # c
    BY <1>3, PlacesBefore
  <2>2. CASE e.id = c
    <3>1. Where(c) # {} /\ Where(c)' \subseteq {"mailbox"}
      BY <1>1, <1>4, <1>6, <1>7, <2>1, <2>2, Places, PlacesNext, Elsewhere
    <3> QED BY <1>2, <3>1 DEF Follows, AnswerFits
  <2>3. CASE e.id # c
    <3>1. Where(c)' \subseteq Where(c)
      BY <1>1, <1>5, <1>6, <1>7, <2>1, <2>3, Places, PlacesNext
    <3> QED BY <1>2, <3>1 DEF Follows, AnswerFits
  <2> QED BY <2>2, <2>3
<1> QED BY <1>6, <1>8

\* A runtime that is gone leaves of a request's only the append it had sent.
LEMMA VanishFollows ==
  ASSUME StorageInv, AdmissionInv, PlacesAreOwn, Vanish, World \/ Opening
  PROVE  Once' /\ \A c \in Tracked : Follows(c) /\ AnswerFits(c)
<1>1. /\ mailbox' = << >> /\ queue' = << >> /\ storing' = << >> /\ selection' = None
      /\ answers' = answers
  BY DEF Vanish
<1>2. Once' /\ \A c : /\ ~InMailbox(c)' /\ ~InQueue(c)' /\ ~InStoring(c)'
                      /\ ~IsSelected(c)' /\ ~IsFallback(c)'
  BY <1>1 DEF Once, OnceInMailbox, OnceIn, InMailbox, InQueue, InStoring, IsSelected, IsFallback
<1>3. \A c \in Tracked : IsAppended(c)' => IsAppended(c)
  BY AppendedLeft DEF AdmissionInv
<1>4. ASSUME NEW c \in Tracked
      PROVE  Where(c)' \subseteq Where(c)
  BY <1>2, <1>3, Places, PlacesNext
<1> QED BY <1>1, <1>2, <1>4 DEF Follows, AnswerFits

\* Whatever happens around the actor.
LEMMA AroundFollows ==
  ASSUME StorageInv, AdmissionInv, PlacesAreOwn, FateFollowsAnswer,
         Client \/ Host \/ Port \/ World \/ Opening \/ UNCHANGED vars
  PROVE  Once' /\ \A c \in Tracked : Follows(c) /\ AnswerFits(c)
<1>1. \A c \in Tracked : IsAppended(c)' => IsAppended(c)
  BY AppendedLeft DEF AdmissionInv
<1>2. ASSUME UNCHANGED <<queue, selection, storing, answers>>,
             \/ mailbox' = mailbox
             \/ \E e : mailbox' = Append(mailbox, e) /\ (Carries(e) => e.id \notin Tracked)
      PROVE  Once' /\ \A c \in Tracked : Follows(c) /\ AnswerFits(c)
  BY <1>1, <1>2, ElsewhereFollows
<1>3. CASE Client
  BY <1>3, RequestFollows
<1>4. CASE Host
  <2>1. PICK op \in running, r \in HostResults : ChildSettles(op, r)
    BY <1>4 DEF Host
  <2> DEFINE e == Submit(ChildId(op.turn, op.generation), ChildInput(op.turn, op.generation, r))
  <2>2. mailbox' = Append(mailbox, e) /\ UNCHANGED <<queue, selection, storing, answers>>
    BY <2>1 DEF ChildSettles, Post
  <2>3. e.id \notin Tracked
    BY OwnIdsUntracked DEF Submit
  <2> HIDE DEF e
  <2> QED BY <1>2, <2>2, <2>3
<1>5. CASE Port /\ ~PortStores
  <2>1. /\ \E e : mailbox' = Append(mailbox, e) /\ ~Carries(e)
        /\ UNCHANGED <<queue, selection, storing, answers>>
    <3>1. ASSUME NEW request, NEW result, NEW revision, Appended(request, result, revision)
          PROVE  /\ \E e : mailbox' = Append(mailbox, e) /\ ~Carries(e)
                 /\ UNCHANGED <<queue, selection, storing, answers>>
      <4> DEFINE e == [type |-> "appended", id |-> request.id, result |-> result,
                       revision |-> revision]
      <4>1. mailbox' = Append(mailbox, e) /\ UNCHANGED <<queue, selection, storing, answers>>
        BY <3>1 DEF Appended, Post, unposted
      <4>2. ~Carries(e)
        BY DEF Carries
      <4> HIDE DEF e
      <4> QED BY <4>1, <4>2
    <3>2. CASE PortLoads
      <4>1. PICK ok, batches :
              mailbox' = Append(mailbox, [type |-> "loaded", id |-> io.id, ok |-> ok,
                                          batches |-> batches])
        BY <3>2 DEF PortLoads, Post
      <4>2. ~Carries([type |-> "loaded", id |-> io.id, ok |-> ok, batches |-> batches])
        BY DEF Carries
      <4> QED BY <3>2, <4>1, <4>2 DEF PortLoads, unposted
    <3> QED BY <1>5, <3>1, <3>2 DEF Port, PortAppends, PortLosesAck, PortRejects, PortMisreports,
                                    PortCancels
  <2> QED BY <1>2, <2>1
<1>6. CASE PortStores
  BY <1>6, StoresFollow
<1>7. CASE Vanish /\ (World \/ Opening)
  BY <1>7, VanishFollows
<1>8. CASE World /\ ~Vanish
  BY <1>2, <1>8 DEF World, Crash, ForeignAppends, OrphanLands, NotWriter, writerVars, effectVars
<1>9. CASE Opening /\ ~Vanish
  <2>1. CASE RestoreJournal
    <3>1. ASSUME NEW c \in Tracked
          PROVE  answers'[c] = answers[c]
      <4>1. c # <<"recovery">> /\ c # <<"reselect">>
        BY DEF Tracked, Requests, UserId, CreateId
      <4>2. answers \in [Callers -> Answers] /\ c \in Callers
        BY DEF StorageInv, TypeOK, WriterTypeOK, Tracked, Callers
      <4> QED BY <2>1, <4>1, <4>2 DEF RestoreJournal
    <3> QED BY <1>1, <2>1, <3>1, ElsewhereFollows DEF RestoreJournal
  <2>2. CASE RestoreConfig
    <3> DEFINE e == Submit(RecoveryId(durable.turn), RecoveryInput(durable.turn))
    <3>1. (mailbox' = mailbox \/ mailbox' = Append(mailbox, e))
          /\ UNCHANGED <<queue, selection, storing, answers>>
      BY <2>2 DEF RestoreConfig, Post, unposted
    <3>2. e.id \notin Tracked
      BY OwnIdsUntracked DEF Submit
    <3> HIDE DEF e
    <3> QED BY <1>2, <3>1, <3>2
  <2>3. CASE RestoreReselects
    <3> DEFINE e == [type |-> "reselect", id |-> <<"reselect", restores>>, mode |-> seen]
    <3>1. (mailbox' = mailbox \/ mailbox' = Append(mailbox, e))
          /\ UNCHANGED <<queue, selection, storing, answers>>
      BY <2>3 DEF RestoreReselects, Post, Opens
    <3>2. ~Carries(e)
      BY DEF Carries
    <3> HIDE DEF e
    <3> QED BY <1>2, <3>1, <3>2
  <2>4. CASE CreateDone \/ RestoreRecovered \/ RestoreDone
    BY <1>2, <2>4 DEF CreateDone, RestoreRecovered, RestoreDone, Opens
  <2> QED BY <1>9, <2>1, <2>2, <2>3, <2>4 DEF Opening, CreateFailed, RestoreFailed
<1>10. CASE UNCHANGED vars
  BY <1>2, <1>10 DEF vars, writerVars, effectVars
<1> QED BY <1>3, <1>4, <1>5, <1>6, <1>7, <1>8, <1>9, <1>10

-----------------------------------------------------------------------------
\* Acceptance

\* The decisions that release the append in flight.
Releases ==
  /\ Release
  /\ LoadedCommitted \/ (AppendCommitted /\ Event.revision = pending.next.revision)

\* Only a release answers accepted, and only the submission it releases.
LEMMA AcceptsReleased ==
  ASSUME StorageInv, [Next]_vars, NEW c \in Callers,
         answers'[c] = "accepted", answers[c] # "accepted"
  PROVE  WriterDecides /\ Releases /\ Caller(pending.id) = c
<1>1. ASSUME NEW ids, NEW answer, NEW known
      PROVE  Told(ids, answer, known)[c] = "accepted" =>
               known[c] = "accepted" \/ (answer = "accepted" /\ \E id \in ids : Caller(id) = c)
  BY DEF Told
<1>2. \A s : Refusal(s) # "accepted"
  BY DEF Refusal
<1>3. ASSUME NEW s, NEW rest, NEW again, Admit(s, rest, again)
      PROVE  FALSE
  BY <1>1, <1>2, <1>3 DEF Admit, Stop, LastAnswers
<1>4. ASSUME NEW end, end # "accepted", Stop(end, {})
      PROVE  FALSE
  BY <1>1, <1>4 DEF Stop, LastAnswers
<1>5. ASSUME NEW sel, NEW known, known[c] # "accepted",
             ApplySelection(sel, known) \/ SettleStored(sel, known)
      PROVE  FALSE
  <2>1. \/ answers' = known
        \/ \E ids : answers' \in {Told(ids, "ignored", known), Told(ids, "selected", known)}
    BY <1>5 DEF ApplySelection, SettleStored
  <2> QED BY <1>1, <1>5, <2>1
<1>6. Superseded[c] # "accepted"
  BY <1>1 DEF Superseded
<1>7. CASE WriterDecides
  <2>1. SubmitToDead \/ SubmitBusy \/ SelectToDead => FALSE
    BY <1>1 DEF SubmitToDead, SubmitBusy, SelectToDead, Dead
  <2>2. SubmitQueued \/ DrainNothing \/ StorageIgnored \/ AppendIndeterminate \/ LoadedAbsent => FALSE
    BY DEF SubmitQueued, DrainNothing, StorageIgnored, AppendIndeterminate, LoadedAbsent, effectVars
  <2>3. SubmitAdmitted \/ DrainDequeue \/ DrainQueue => FALSE
    BY <1>3 DEF SubmitAdmitted, DrainDequeue, DrainQueue
  <2>4. Select \/ Reselect \/ DrainSelection => FALSE
    BY <1>5, <1>6 DEF Select, Reselect, DrainSelection
  <2>5. StoredCurrent \/ StoredSuperseded => FALSE
    BY <1>1, <1>5 DEF StoredCurrent, StoredSuperseded
  <2>6. AppendRefused \/ LoadedUnusable \/ Close => FALSE
    BY <1>4 DEF AppendRefused, LoadedUnusable, Close
  <2>7. AppendCommitted \/ LoadedCommitted => Releases
    BY <1>4 DEF AppendCommitted, LoadedCommitted, Releases
  <2>8. Releases
    BY <1>7, <2>1, <2>2, <2>3, <2>4, <2>5, <2>6, <2>7 DEF WriterDecides, Decide
  <2>9. answers' = Told({pending.id}, "accepted", answers)
    BY <2>8 DEF Releases, Release, ReleaseAnswers
  <2> QED BY <1>1, <1>7, <2>8, <2>9
<1>8. CASE Client \/ Host \/ Port \/ World \/ Opening \/ UNCHANGED vars
  <2>1. CASE RestoreJournal
    <3>1. answers \in [Callers -> Answers]
      BY DEF StorageInv, TypeOK, WriterTypeOK
    <3> QED BY <2>1, <3>1 DEF RestoreJournal
  <2>2. CASE ~RestoreJournal
    <3>1. answers' = answers
      BY <1>8, <2>2
         DEF Client, SendUser, SendSystem, SendAbort, SendSelect, SendClose, SendRequest, Host,
             ChildSettles, Port, PortAppends, PortLosesAck, PortRejects, PortMisreports,
             PortCancels, PortLoads, PortStores, Appended, World, ForeignAppends, OrphanLands,
             NotWriter, Crash, Vanish, Opening, CreateDone, CreateFailed, RestoreConfig,
             RestoreRecovered, RestoreFailed, RestoreReselects, RestoreDone, Opens, unposted,
             writerVars, effectVars, vars
    <3> QED BY <3>1
  <2> QED BY <2>1, <2>2
<1> QED BY <1>7, <1>8 DEF Next

\* What is released is stored.
LEMMA ReleasedStored ==
  ASSUME StorageInv, Decide, Releases
  PROVE  /\ pending.next.revision \in DOMAIN journal
         /\ journal[pending.next.revision] = Batch(pending)
<1>1. mailbox # << >> /\ mailbox \in Seq(Events) /\ Event = mailbox[1]
  BY DecideConsumes DEF StorageInv, TypeOK, WriterTypeOK
<1>2. CASE LoadedCommitted
  BY <1>2, LoadedIsStored
<1>3. CASE AppendCommitted /\ Event.revision = pending.next.revision
  <2>1. /\ ~Dead /\ Event.type = "appended" /\ Event.result = "committed" /\ InFlight(Event.id)
    BY <1>3 DEF AppendCommitted, Deciding, Dead, Event
  <2>2. 1 \in StorageResults
    BY <1>1, <2>1 DEF StorageResults
  <2> QED BY <1>1, <1>3, <2>1, <2>2 DEF StorageInv, ResultsStayTrue
<1> QED BY <1>2, <1>3 DEF Releases

-----------------------------------------------------------------------------
\* The invariant

\* Every step keeps the invariant of the receipts.
LEMMA ReceiptStep == StorageInv /\ AdmissionInv /\ ReceiptInv /\ [Next]_vars => ReceiptInv'
<1> SUFFICES ASSUME StorageInv, AdmissionInv, ReceiptInv, [Next]_vars
             PROVE  ReceiptInv'
  OBVIOUS
<1>1. PlacesAreOwn' /\ FateFollowsAnswer'
  <2>1. PlacesAreOwn /\ FateFollowsAnswer
    BY DEF ReceiptInv
  <2>2. Once' /\ \A c \in Tracked : Follows(c) /\ AnswerFits(c)
    BY <2>1, DecisionFollows, AroundFollows DEF Next
  <2>3. sent \subseteq sent'
    <3>1. \/ sent' = sent
          \/ \E id : sent' = sent \cup {id}
      BY DEF Next, WriterDecides, Client, SendUser, SendSystem, SendAbort, SendSelect, SendClose,
             SendRequest, Host, ChildSettles, Port, PortAppends, PortLosesAck, PortRejects,
             PortMisreports, PortCancels, PortLoads, PortStores, Appended, World, ForeignAppends,
             OrphanLands, NotWriter, Crash, Vanish, Opening, CreateDone, CreateFailed,
             RestoreJournal, RestoreConfig, RestoreRecovered, RestoreFailed, RestoreReselects,
             RestoreDone, Opens, sessionVars, vars
    <3> QED BY <3>1
  <2> QED BY <2>1, <2>2, <2>3, FollowsKeeps
<1>2. AcceptedIsStored'
  <2>1. ASSUME NEW c \in Callers, answers'[c] = "accepted"
        PROVE  \E i \in DOMAIN journal' : Caller(journal'[i].id) = c
    <3>1. Grows
      BY StoreCases DEF AdmissionInv
    <3>2. \E i \in DOMAIN journal : Caller(journal[i].id) = c
      <4>1. CASE answers[c] = "accepted"
        BY <4>1 DEF ReceiptInv, AcceptedIsStored
      <4>2. CASE answers[c] # "accepted"
        <5>1. WriterDecides /\ Releases /\ Caller(pending.id) = c
          BY <2>1, <4>2, AcceptsReleased
        <5>2. /\ pending.next.revision \in DOMAIN journal
              /\ journal[pending.next.revision] = Batch(pending)
          BY <5>1, ReleasedStored DEF WriterDecides
        <5>3. Batch(pending).id = pending.id
          BY DEF Batch
        <5> QED BY <5>1, <5>2, <5>3
      <4> QED BY <4>1, <4>2
    <3> QED BY <3>1, <3>2 DEF Grows
  <2> QED BY <2>1 DEF AcceptedIsStored
<1> QED BY <1>1, <1>2 DEF ReceiptInv

\* A session begins with one submission, and no receipt.
LEMMA ReceiptInit == Init => ReceiptInv
<1> SUFFICES ASSUME Init
             PROVE  ReceiptInv
  OBVIOUS
<1>1. /\ DOMAIN mailbox = {1} /\ mailbox[1].id = CreateId
      /\ queue = << >> /\ storing = << >> /\ selection = None /\ journal = << >>
      /\ pending = None /\ io = None /\ orphans = {} /\ sent = {}
      /\ answers = [c \in Callers |-> "none"]
  BY DEF Init, Submit
<1>2. ASSUME NEW c
      PROVE  Where(c) \subseteq {"mailbox"} /\ (Where(c) # {} => c = CreateId)
  <2>1. /\ ~InQueue(c) /\ ~InStoring(c) /\ ~IsSelected(c) /\ ~IsFallback(c) /\ ~IsAppended(c)
    BY <1>1 DEF InQueue, InStoring, IsSelected, IsFallback, IsAppended, Committed, Underway,
                Appending
  <2>2. InMailbox(c) => c = CreateId
    BY <1>1 DEF InMailbox
  <2> QED BY <2>1, <2>2, Places
<1>3. PlacesAreOwn
  BY <1>1, <1>2 DEF PlacesAreOwn
<1>4. FateFollowsAnswer
  BY <1>1, <1>2 DEF FateFollowsAnswer, Tracked, Callers, FinalAnswers
<1>5. AcceptedIsStored
  BY <1>1 DEF AcceptedIsStored
<1> QED BY <1>3, <1>4, <1>5 DEF ReceiptInv

\* The receipts of a session and the places of what was submitted always fit.
THEOREM ReceiptsSafe == Spec => [](StorageInv /\ AdmissionInv /\ ReceiptInv)
<1>1. Init => StorageInv /\ AdmissionInv /\ ReceiptInv
  BY StorageInit, AdmissionInit, ReceiptInit
<1>2. StorageInv /\ AdmissionInv /\ ReceiptInv /\ [Next]_vars
        => StorageInv' /\ AdmissionInv' /\ ReceiptInv'
  BY StorageStep, FitStep, IdsStep, ReceiptStep DEF AdmissionInv, StorageInv
<1> QED BY <1>1, <1>2, PTL DEF Spec

\* A submission answered accepted is stored, and one answered ignored, busy or refused
\* is not and never will be, not even by an append of a runtime that is gone.
THEOREM ReceiptsAreTrue == Spec => []AnswersAreTrue
<1>1. ASSUME StorageInv, ReceiptInv
      PROVE  AnswersAreTrue
  <2>1. ASSUME NEW c \in Requests, answers[c] \in FinalAnswers
        PROVE  /\ ~Committed(c)
               /\ \A request \in orphans : request.id # c
               /\ Appending => io.request.id # c
    <3>1. Where(c) = {}
      BY <1>1, <2>1 DEF ReceiptInv, FateFollowsAnswer, Tracked
    <3>2. ~IsAppended(c)
      BY <3>1, Places
    <3> QED BY <3>2 DEF IsAppended, Underway
  <2> QED BY <1>1, <2>1 DEF AnswersAreTrue, ReceiptInv, AcceptedIsStored, FinalAnswers
<1> QED BY <1>1, ReceiptsSafe, PTL
==============================================================================

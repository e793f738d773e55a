-------------------------- MODULE SessionProperties --------------------------
(***************************************************************************)
(* What makes a session correct: its type invariant, the safety, action    *)
(* and liveness properties of Session, and the ledger it implements.       *)
(***************************************************************************)
EXTENDS Session, FiniteSets

-----------------------------------------------------------------------------
\* Types

Ids ==
  Requests \cup {CreateId} \cup {DequeueId(u) : u \in Users}
    \cup ({"recovery", "reselect", "foreign"} \X Nat) \cup ({"child"} \X Nat \X Nat)

Submission == [id : Ids, input : Inputs]

Batches == [id : Ids, expected : Nat, input : Inputs, next : JournalState]

Pending == [id : Ids, input : Inputs, next : JournalState, expected : Nat, attempts : {0, 1}]

Fallback == [id : Ids, mode : Mode, revokes : BOOLEAN]

Selection ==
  [id : Ids, mode : Mode, stored : BOOLEAN, revokes : BOOLEAN, fallback : Fallback \cup {None}]

Events ==
  [type : {"submit"}, id : Ids, input : Inputs]
    \cup [type : {"select"}, id : Ids, patch : Patches]
    \cup [type : {"reselect"}, id : Ids, mode : Mode]
    \cup [type : {"stored"}, id : Ids, mode : Mode, ok : BOOLEAN]
    \cup [type : {"appended"}, id : Ids, revision : Nat,
          result : {"committed", "indeterminate", "conflict", "rejected"}]
    \cup [type : {"loaded"}, id : Ids, ok : BOOLEAN, batches : Seq(Batches)]
    \cup [type : {"drain", "close"}]

StorageCall == [op : {"append"}, request : Batches] \cup [op : {"load"}, id : Ids]

WaitStates == {"none", "lost", "failed", "closed", "terminal"} \cup Unsettled

\* None is no record of the model.
ASSUME NoneAssumption ==
  None \notin Pending \cup Fallback \cup Selection \cup StorageCall \cup Mode

WriterTypeOK ==
  /\ status \in {"ready", "committing", "reconciling", "failed", "closed"}
  /\ durable \in JournalState
  /\ queue \in Seq(Submission)
  /\ pending \in Pending \cup {None}
  /\ pending = None <=> status \notin {"committing", "reconciling"}
  /\ selection \in Selection \cup {None}
  /\ mailbox \in Seq(Events)
  /\ io \in StorageCall \cup {None}
  /\ storing \in Seq([id : Ids, mode : Mode])
  /\ running \subseteq [turn : Nat, generation : Nat, kind : Phases \ {"idle"}]
  /\ remembered \in BOOLEAN
  /\ answers \in [Callers -> Answers]
  /\ waits \in [Users -> [at : WaitStates, turn : Nat]]
  /\ released \in Seq(Ids)

\* The states the program can be in: an append is in flight exactly while the
\* writer is committing or reconciling one, and it is retried at most once.
TypeOK ==
  /\ WriterTypeOK
  /\ journal \in Seq(Batches)
  /\ config \in Mode \cup {None}
  /\ phase \in AllPhases
  /\ sent \subseteq Requests
  /\ orphans \subseteq Batches
  /\ orphanPuts \in Seq(Mode)
  /\ restores \in 0..MaxRestores /\ faults \in 0..MaxFaults /\ foreign \in 0..MaxForeign
  /\ seen \in Mode \cup {None}
  /\ departed \in BOOLEAN

-----------------------------------------------------------------------------
\* The journal and what is released from it

\* The folded state of the first n batches.
StateAt(n) == IF n = 0 THEN EmptyJournal ELSE journal[n].next

Before(i) == StateAt(i - 1)

Committed(id) == \E i \in DOMAIN journal : journal[i].id = id

Position(id) == CHOOSE i \in DOMAIN journal : journal[i].id = id

\* Every stored batch was staged against exactly the batches stored before it,
\* whoever wrote it and however late it landed: replay of the journal yields
\* what staging proposed (session/journal/stage.ts, replay.ts).
JournalFolds ==
  \A i \in DOMAIN journal :
    /\ journal[i].expected = i - 1
    /\ journal[i].next = Stage(Before(i), journal[i].input)

\* The state the writer works from is that of a stored prefix of the journal:
\* nothing it was told to release can be missing from storage.
DurableIsStored ==
  /\ durable.revision \in 0..Len(journal)
  /\ durable = StateAt(durable.revision)

\* The commands of a batch are dispatched only once it is stored, at most once
\* over all restarts and retries, and in journal order: an operation that may
\* have had an effect is never started again.
ReleasedOnceInOrder ==
  /\ \A i \in DOMAIN released : Committed(released[i])
  /\ \A i, j \in DOMAIN released : i < j => Position(released[i]) < Position(released[j])

\* A submission answered accepted is stored, and one answered ignored, busy or
\* refused is not and never will be, not even by an append of a runtime that is
\* gone (CommandReceipt of session-fsm.ts).
AnswersAreTrue ==
  \A c \in Callers :
    /\ answers[c] = "accepted" => \E i \in DOMAIN journal : Caller(journal[i].id) = c
    /\ c \in Requests /\ answers[c] \in {"ignored", "busy", "refused"} =>
         /\ ~Committed(c)
         /\ \A request \in orphans : request.id # c
         /\ Appending => io.request.id # c

\* Configuration and system batches are stored only between turns, and system
\* batches only while no queued input waits for its turn: a turn runs from
\* beginning to end under one configuration and one set of instructions.
BoundaryRecords ==
  \A i \in DOMAIN journal :
    /\ journal[i].input.kind \in {"policy", "system"} => ~Active(Before(i))
    /\ journal[i].input.kind = "system" => Before(i).pendingInputs = << >>

BatchesOf(kinds) == {i \in DOMAIN journal : journal[i].input.kind \in kinds}

\* User input that the policy queued, and input that starts or joins a turn.
Enqueued == {i \in BatchesOf({"user"}) : Queues(Before(i), journal[i].input)}
Consumed == BatchesOf({"user", "dequeued"}) \ Enqueued

SameUser(i, j) == journal[i].input.user = journal[j].input.user

\* An input is consumed at most once, a dequeued one was queued before, and
\* queued inputs take their turns in the order they were queued in, whatever is
\* aborted, recovered or restarted in between ("inputs persist in order",
\* policy/README.md).
QueueIsFair ==
  /\ \A i, j \in Consumed : SameUser(i, j) => i = j
  /\ \A j \in BatchesOf({"dequeued"}) : \E q \in Enqueued :
       /\ q < j /\ SameUser(q, j)
       /\ \A i \in BatchesOf({"dequeued"}), p \in Enqueued :
            SameUser(p, i) /\ p < q => i < j

\* The settlement promise of an input is always where the journal says the
\* input is, so that it is settled, and with the turn that took it: it is never
\* left behind in a queue or a turn that has moved on, nor settled early.
WaitsFollowJournal ==
  \A u \in Users :
    CASE waits[u].at = "admission" -> answers[UserId(u)] = "none"
      [] waits[u].at = "queued"    -> \E i \in DOMAIN durable.pendingInputs :
                                        durable.pendingInputs[i] = u
      [] waits[u].at = "turn"      -> Active(durable) /\ durable.turn = waits[u].turn
      [] waits[u].at = "terminal"  -> /\ durable.turn > waits[u].turn
                                      /\ \E i \in Consumed :
                                           /\ journal[i].input.user = u
                                           /\ Before(i).turn = waits[u].turn
      [] OTHER -> TRUE

-----------------------------------------------------------------------------
\* Configuration selections

\* A turn starts only under the configuration that this runtime last stored, or
\* found stored when it was restored: no turn overtakes a selection, whether it
\* is still being written, superseded, fell back or waits for the boundary.
TurnStartsUnderSelection ==
  [][StartsTurn => /\ selection = None
                   /\ storing = << >>
                   /\ seen \in {None, durable.mode}]_vars

\* A selection of another permission mode, undone before the turn ended, still
\* revokes the approvals remembered before it (changesGrants, revokesGrants).
SwitchingBackRevokes == [][StartsTurn /\ departed => ~remembered']_vars

-----------------------------------------------------------------------------
\* Failure and restore

\* One lost or failed acknowledgement never ends a session: reconciliation
\* tells a stored append from an absent one and the absent one is retried.
\* (For runs without other writers and with storage that loses acknowledgements.)
OneLostAckIsHarmless == status = "failed" => faults > 1

\* Whenever a restore resolves with a working session, no turn runs, no input
\* is queued and the selection stored by the last runtime is in force.
RestoreOpensAtRest ==
  [][(phase \in {"recovered", "reselecting"} /\ phase' = "open" /\ ~Dead) =>
        /\ ~Active(durable) /\ durable.pendingInputs = << >>
        /\ seen \in {None, durable.mode}]_vars

-----------------------------------------------------------------------------
\* Statements of the repository's text that the code does not keep

\* "appendId is the stable ID of the append that carries the staged records"
\* (Submission, session-fsm.ts): while no other process writes, an append in
\* flight and a stored one of the same ID are the same append.  The recovery
\* append of an idle session does not keep it: it does not advance the turn
\* its ID is made of, so that a later recovery of that turn uses it again, and
\* the port refuses it.
AppendIdsAreStable ==
  pending # None => \A i \in Found(journal, pending.id) :
                      /\ journal[i].expected = pending.expected
                      /\ journal[i].input = pending.input

\* "Selection not stored or applied" (session-commands.ts, of a selection whose
\* write failed; likewise "failed when the patch is rejected or cannot be
\* stored", policy/README.md): a patch answered failed is not in force.  Stated
\* for patches of one field each: the fields that changed are no more than the
\* selections not refused.  A selection patched over one still being written
\* carries that one's patch with it, though its write fails.
RefusedPatchIsNotApplied ==
  LET changed   == {f \in {"perm", "model"} : durable.mode[f] # FirstMode[f]}
      unrefused == {c \in Selects : answers[<<"select", c>>] # "refused"}
  IN Cardinality(changed) <= Cardinality(unrefused)

-----------------------------------------------------------------------------
\* The abstract specification

Ledger == INSTANCE SessionLedger WITH
  Owners   <- Callers,
  Openers  <- {<<"recovery">>, <<"reselect">>},
  Verdicts <- Answers,
  Final    <- {"ignored", "busy", "refused"},
  log      <- [i \in DOMAIN journal |-> Caller(journal[i].id)],
  cursor   <- durable.revision,
  verdict  <- answers,
  up       <- phase # "down"

\* A session implements the ledger of its receipts.
ImplementsLedger == Ledger!LedgerSpec

-----------------------------------------------------------------------------
\* Liveness.  The actor's mailbox is a chain of microtasks, so its next event is
\* always decided; a storage call settles (the contract of SessionPersistence);
\* child operations settle, as those of the host do when their deadlines are set.
Fairness ==
  /\ WF_vars(WriterDecides)
  /\ WF_vars(Port)
  /\ WF_vars(Opening)
  /\ WF_vars(Host)

FairSpec == Spec /\ Fairness

\* Every request is answered, whatever else is queued, selected or failing.
RequestsAreAnswered == \A r \in Requests : r \in sent ~> answers[r] # "none"

\* Every settlement promise settles.
PromisesSettle == \A u \in Users : waits[u].at \in Unsettled ~> waits[u].at \notin Unsettled

\* The opening of a session ends: it resolves or it rejects.
OpeningEnds == phase \notin {"open", "down"} ~> phase \in {"open", "down"}

\* A selection never holds the boundary for ever: it is applied or dropped.
SelectionsResolve == selection # None ~> selection = None
==============================================================================

--------------------------- MODULE HostProperties ---------------------------
(***************************************************************************)
(* What the host of a session owes its turn, its user and its journal.     *)
(***************************************************************************)
EXTENDS Host

\* Every variable keeps its type; an operation's unfinished work is that of its
\* status while it lives, and only an operation that lives has a deadline
\* (operation-actor.ts, tool-batch.ts, context.ts).
TypeOK ==
  /\ turn.phase \in {"idle", "awaiting_model", "awaiting_permission", "executing_tools",
                     "cancelling_tools"}
  /\ turn.step \in 0..MaxSteps /\ turn.left \in 0..MaxSteps
  /\ partial \in [DOMAIN ToolOf -> Outcomes \cup {"none"}]
  /\ remembered \subseteq Tools /\ closed \in BOOLEAN
  /\ \A o \in Ops : /\ ops[o].status \in Statuses
                    /\ Live(o) => ops[o].work \in {"none", ops[o].status}
                    /\ ops[o].timer => Live(o)
  /\ \A s \in Steps : batches[s].results \cap batches[s].pending = {}
  /\ Cardinality(writing) <= 1

\* What a journaled batch has counted is what the journal has recorded: when the
\* batch settles, its successes are the recorded ones, so that no result the
\* model is shown was never stored and none that was stored is missing
\* (instance.ts sink.tool, session-commands.ts releaseCommitted, host.ts releaseTool).
BatchFollowsJournal ==
  (mode.journaled /\ ~closed) =>
    \A s \in Steps :
      /\ s = turn.step /\ turn.phase \in {"executing_tools", "cancelling_tools"} =>
           /\ batches[s].results \subseteq Successes
           /\ batches[s].status = "settled" => batches[s].results = Successes
      /\ \A i \in DOMAIN inbox : i = 1 /\ writing = {} /\ Accepts(inbox[i]) => Stageable(inbox[i])

\* A tool runs without asking, or when the user allowed that call, or when the
\* user allowed the tool for good and no policy change has made the host forget
\* it since, whatever was cancelled, refused, or closed in between
\* (permission.ts, tools.ts runTools, host.ts resetPermissions).
RunsAreApproved ==
  /\ mode.asks => \A r \in ran : answer[r] \in {"allowed", "remembered"}
  /\ remembered \subseteq standing

\* Nothing runs for no one: an operation that lives is the one its turn waits for,
\* or a tool of that batch, or has been told to stop, also when the host closes
\* between the start of a batch and that of its tools
\* (agent-fsm.ts abort, fail, bargeIn; tool-batch.ts settle; host.ts close).
ToldToStop(actor) ==
  \E i \in DOMAIN actor.inbox : actor.inbox[i].type \in {"cancel", "timeout", "failed"}

Awaited(o) ==
  /\ ~closed /\ ~Idle /\ o[2] = turn.step
  /\ IF o[1] = "tool"
       THEN KindOf(turn.phase) = "batch" /\ o[3] \in batches[o[2]].pending
       ELSE KindOf(turn.phase) = o[1]

NoOrphans ==
  \A o \in Ops : Live(o) =>
    Awaited(o) \/ ToldToStop(ops[o]) \/ (o[1] = "tool" /\ ToldToStop(batches[o[2]]))

-----------------------------------------------------------------------------
\* The session drains its inbox; actors drain theirs; deadlines fire; validations
\* end; the user answers what is asked.  What runs may run for ever.  An actor takes
\* finitely many steps, so that fairness to all steps of one is fairness to each.
OperationStep(o) ==
  \/ OpStep(o) \/ DeadlineFires(o)
  \/ ops[o].work # "running" /\ (WorkSucceeds(o) \/ WorkFails(o))

Fairness ==
  /\ WF_vars(Session)
  /\ \A s \in Steps :
       /\ WF_vars(\E o \in Ops : o[2] = s /\ OperationStep(o))
       /\ WF_vars(BatchStep(s) \/ Requesting(s) \/ UserDecides(s))

FairSpec == Spec /\ Fairness

\* With deadlines every turn ends, though no model and no tool ever answers.
TurnsEnd == (mode.deadline /\ ~Idle) ~> (Idle \/ closed)

\* An abort ends its turn without waiting for a model, a tool or the user.
AbortsEnd == (\E i \in DOMAIN inbox : inbox[i].kind = "abort") ~> (Idle \/ closed)
==============================================================================

---------------------------- MODULE HostInvariant ----------------------------
(***************************************************************************)
(* Why the properties of a host hold: what is true of every actor, of every *)
(* submission on its way, and of the turn, in every state.                  *)
(***************************************************************************)
EXTENDS HostProperties

-----------------------------------------------------------------------------
\* Types.
Working == {"validating_input", "running", "validating_output"}
Failing == {"failed", "timeout", "cancel"}
Own     == {"start", "input_valid", "returned", "output_valid"}

OpActors == [status : Statuses, inbox : Seq([type : Own \cup Failing]),
               work : {"none"} \cup Working, timer : BOOLEAN]

Counteds == [type : {"tool_settled"}, call : DOMAIN ToolOf, result : Final]
BatchActors  == [status : {"none", "ready", "running", "settled"},
             inbox : Seq([type : {"start", "cancel"}] \cup Counteds),
             pending : SUBSET DOMAIN ToolOf, results : SUBSET DOMAIN ToolOf,
             granted : BOOLEAN, refused : SUBSET DOMAIN ToolOf,
             invalid : SUBSET DOMAIN ToolOf, refusing : SUBSET DOMAIN ToolOf]

Requested == [held : BOOLEAN, approved : BOOLEAN, next : Nat, asking : BOOLEAN,
              stopped : BOOLEAN, inputs : SUBSET DOMAIN ToolOf,
              invalid : SUBSET DOMAIN ToolOf, refused : SUBSET DOMAIN ToolOf,
              remembered : SUBSET Tools]

Settlements ==
  [kind : {"completion"}, step : Steps, result : {"answer", "tools", "failed", "cancelled"}]
    \cup [kind : {"permission", "batch"}, step : Steps, result : Final]
    \cup [kind : {"failed"}, step : Steps, result : {"batch"}]
Results     == [kind : {"tool"}, step : Steps, call : DOMAIN ToolOf, result : Outcomes]
Submissions == [kind : {"user", "abort"}] \cup Settlements \cup Results

Phases == {"idle", "awaiting_model", "awaiting_permission", "executing_tools",
           "cancelling_tools"}

HostType ==
  /\ mode \in {e.mode : e \in Scenarios}
  /\ turn \in [phase : Phases, step : 0..MaxSteps, left : 0..MaxSteps]
  /\ turn.step + turn.left <= MaxSteps
  /\ ~Idle => turn.step \in Steps
  /\ partial \in [DOMAIN ToolOf -> Outcomes \cup {"none"}]
  /\ inbox \in Seq(Submissions)
  /\ writing = {} \/ \E in \in Submissions : writing = {in}
  /\ ops \in [Ops -> OpActors]
  /\ batches \in [Steps -> BatchActors]
  /\ grants \in [Steps -> Requested]
  /\ remembered \subseteq Tools /\ standing \subseteq Tools
  /\ unreleased \subseteq [step : Steps, call : DOMAIN ToolOf, result : Outcomes]
  /\ closed \in BOOLEAN
  /\ ran \subseteq Steps \X DOMAIN ToolOf
  /\ answer \in [Steps \X DOMAIN ToolOf -> {"none", "allowed", "remembered", "rejected"}]

\* Nothing is decided while a submission is appended, so that it is still accepted then.
Appending == \A in \in writing : mode.journaled /\ Accepts(in)

-----------------------------------------------------------------------------
\* What waits in the inbox of an actor; a stop that comes before a valid input.
Holds(actor, type) == \E i \in DOMAIN actor.inbox : actor.inbox[i].type = type

Blocked(actor) ==
  \E i \in DOMAIN actor.inbox :
    /\ actor.inbox[i].type \in Failing
    /\ \A j \in 1..(i - 1) : actor.inbox[j].type # "input_valid"

\* An operation that has settled, or has not been spawned, does nothing.  One that
\* lives works at its status, or holds the one event its status waits for.
Quiet(actor) == actor.inbox = << >> /\ actor.work = "none" /\ ~actor.timer

Ordered(actor) ==
  /\ actor.work \in {"none", actor.status}
  /\ \A i \in DOMAIN actor.inbox : actor.inbox[i].type \in Own =>
       /\ actor.inbox[i].type = Advances[actor.status] /\ actor.work = "none"
       /\ \A j \in DOMAIN actor.inbox : actor.inbox[j].type \in Own => i = j

OperationInv == \A o \in Ops : IF Live(o) THEN Ordered(ops[o]) ELSE Quiet(ops[o])

-----------------------------------------------------------------------------
\* What is on its way to the turn.
Waiting == writing \cup {inbox[i] : i \in DOMAIN inbox}

\* The turn's child at each phase, and no later one.
Spawning ==
  /\ \A o \in Ops : ops[o].status # "none" =>
       /\ o[2] <= turn.step
       /\ o[1] = "permission" /\ o[2] = turn.step => turn.phase # "awaiting_model"
       /\ o[1] = "tool" => batches[o[2]].status \in {"running", "settled"}
  /\ \A s \in Steps : batches[s].status # "none" =>
       /\ s <= turn.step
       /\ s = turn.step => turn.phase \notin {"awaiting_model", "awaiting_permission"}

\* A settlement on its way is of an operation that has settled; a permission with no
\* grant left is none.
Settling ==
  \A in \in Waiting :
    /\ in.kind \in {"completion", "permission"} => ops[<<in.kind, in.step>>].status \in Final
    /\ in.kind = "permission" /\ grants[in.step].held =>
         in.result = "succeeded" /\ grants[in.step].approved
    /\ in.kind = "batch" => batches[in.step].status = "settled"

\* An outcome counts when its tool is over.
Done(s, c) == ~Live(<<"tool", s, c>>)
Reporting ==
  /\ \A p \in unreleased :
       batches[p.step].status \in {"running", "settled"} /\ Done(p.step, p.call)
  /\ \A s \in Steps : \A i \in DOMAIN batches[s].inbox :
       batches[s].inbox[i].type = "tool_settled" =>
         batches[s].status = "running" /\ Done(s, batches[s].inbox[i].call)

\* What lives is awaited or has been told to stop.
Serving ==
  /\ \A s \in Steps :
       /\ batches[s].status \in {"ready", "running"} =>
            \/ ~closed /\ s = turn.step /\ KindOf(turn.phase) = "batch" /\ ~Idle
            \/ Holds(batches[s], "cancel")
       /\ Live(<<"completion", s>>) =>
            \/ ~closed /\ s = turn.step /\ turn.phase = "awaiting_model"
            \/ ToldToStop(ops[<<"completion", s>>])
       /\ Live(<<"permission", s>>) =>
            \/ ~closed /\ s = turn.step /\ turn.phase = "awaiting_permission"
            \/ ToldToStop(ops[<<"permission", s>>])
       /\ \A c \in DOMAIN ToolOf : Live(<<"tool", s, c>>) =>
            \/ batches[s].status = "running" /\ c \in batches[s].pending
            \/ ToldToStop(ops[<<"tool", s, c>>])
       /\ batches[s].results \cap batches[s].pending = {}

-----------------------------------------------------------------------------
\* Approvals.
Ok(s, c) == answer[<<s, c>>] \in {"allowed", "remembered"}

\* A grant is held while its turn waits for it, and answers the calls in order.
GrantInv(s) ==
  LET g == grants[s] IN
    IF g.held
      THEN /\ mode.asks /\ ~closed /\ s = turn.step /\ turn.phase = "awaiting_permission"
           /\ g.next \in 1..(mode.calls + 1)
           /\ g.inputs \cup g.invalid \cup g.refused \subseteq CallSet
           /\ \A i \in 1..(g.next - 1) :
                /\ Calls[i] \in g.inputs \cup g.invalid \cup g.refused
                /\ Ok(s, Calls[i]) \/ Calls[i] \in g.invalid \cup g.refused
           /\ g.asking => Calls[g.next] \in g.inputs
           /\ g.remembered \subseteq standing
           /\ g.approved => g.next > mode.calls
      ELSE g = NoGrant

\* A request succeeds when every call has been answered, or the asking was stopped.
Asked(s) ==
  /\ grants[s].held
  /\ \/ ops[<<"permission", s>>].status = "validating_output"
     \/ Holds(ops[<<"permission", s>>], "returned")
  => grants[s].next > mode.calls \/ grants[s].stopped

\* A batch runs the calls its grant allowed.
BatchInv(s) ==
  batches[s].status \in {"ready", "running"} =>
    /\ batches[s].pending \subseteq CallSet
    /\ batches[s].status = "ready" => batches[s].pending = CallSet
    /\ mode.asks => /\ batches[s].granted
                    /\ \A c \in CallSet : Ok(s, c) \/ c \in batches[s].refused \cup batches[s].invalid

\* A tool that was not allowed has an invalid input or has been told to stop: it
\* settles before it runs.
Unrun(s, c) ==
  LET op == ops[<<"tool", s, c>>] IN
    /\ op.status \in {"ready", "validating_input"}
    /\ \/ /\ batches[s].status = "running" /\ batches[s].granted /\ c \in batches[s].invalid
          /\ ~Holds(op, "input_valid")
       \/ Blocked(op)

Approving ==
  /\ \A s \in Steps : GrantInv(s) /\ Asked(s) /\ BatchInv(s)
  /\ mode.asks => \A s \in Steps, c \in DOMAIN ToolOf :
       Live(<<"tool", s, c>>) => Ok(s, c) \/ Unrun(s, c)
  /\ \A r \in ran : batches[r[1]].status # "none" /\ (mode.asks => Ok(r[1], r[2]))
  /\ remembered \subseteq standing

HostInv ==
  /\ HostType /\ Appending /\ OperationInv /\ Spawning /\ Settling /\ Reporting /\ Serving /\ Approving

-----------------------------------------------------------------------------
\* Outcomes on their way through the journal to their batch.
Recording   == turn.phase \in {"executing_tools", "cancelling_tools"}
Recorded(c) == partial[c] # "none"
IsCount(e)  == e.type = "tool_settled"

\* An event that settles a batch as anything but succeeded.
Breaks(e) == e.type = "cancel" \/ (IsCount(e) /\ e.call \in CallSet /\ e.result # "succeeded")

\* A result that can still be recorded waits to be released.
Withheld(s, c, result) ==
  (s = turn.step /\ turn.phase = "executing_tools" /\ batches[s].status = "running" /\ ~Recorded(c))
    => [step |-> s, call |-> c, result |-> result] \in unreleased

ResultsWait ==
  /\ \A p, q \in unreleased : p.step = q.step /\ p.call = q.call => p = q
  /\ \A in \in Waiting : in.kind = "tool" =>
       /\ batches[in.step].status \in {"running", "settled"}
       /\ Withheld(in.step, in.call, in.result)
  /\ \A s \in Steps : \A c \in batches[s].refusing : Withheld(s, c, "refused")

\* A running batch counts what was recorded, and has counted every success, or will
\* before anything breaks it.
CountsRecorded(b) ==
  /\ b.results \subseteq Successes /\ CallSet \subseteq b.results \cup b.pending
  /\ \A i \in DOMAIN b.inbox : IsCount(b.inbox[i]) =>
       Recorded(b.inbox[i].call) /\ b.inbox[i].result = Counts(partial[b.inbox[i].call])
  /\ \A c \in Successes \ b.results : \E i \in DOMAIN b.inbox :
       /\ IsCount(b.inbox[i]) /\ b.inbox[i].call = c
       /\ \A j \in 1..(i - 1) : ~Breaks(b.inbox[j])

\* A settled batch has counted every success, and no more will be recorded.
CountedAll(b) ==
  /\ b.results = Successes
  /\ turn.phase = "executing_tools" =>
       \/ \E c \in CallSet : Recorded(c) /\ c \notin Successes
       \/ \A c \in CallSet : Recorded(c)

BatchRecords(b) ==
  /\ b.status \in {"none", "ready"} => partial = NoResults
  /\ b.status \in {"ready", "running"} /\ turn.phase = "executing_tools" => ~Holds(b, "cancel")
  /\ b.status = "running" => CountsRecorded(b)
  /\ b.status = "settled" => CountedAll(b)

\* Nothing is recorded but of the batch of the turn.
RestsEmpty == ~Recording => partial = NoResults

\* A batch that has not started has counted nothing, and refuses no one.
UnstartedEmpty ==
  \A s \in Steps : batches[s].status \in {"none", "ready"} =>
    batches[s].results = {} /\ batches[s].refusing = {}

\* A batch that reports success has every outcome recorded as one.
SuccessIsWhole ==
  \A in \in Waiting :
    in.kind = "batch" /\ in.result = "succeeded" /\ in.step = turn.step /\ Recording =>
      Successes = CallSet

RecordInv ==
  mode.journaled /\ ~closed =>
    /\ RestsEmpty /\ UnstartedEmpty /\ ResultsWait /\ SuccessIsWhole
    /\ Recording => BatchRecords(batches[turn.step])
==============================================================================

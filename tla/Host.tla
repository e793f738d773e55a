-------------------------------- MODULE Host --------------------------------
(***************************************************************************)
(* The host of one session and the turn it works for: operation actors     *)
(* (agent/operation-actor.ts), tool batches (agent/tool-batch.ts),         *)
(* permission grants, deadlines, cancellation and the release gate         *)
(* (host/context.ts, host/host.ts, host/commands).  An actor decides one   *)
(* event of its inbox at a time and runs the commands of that decision     *)
(* before the next one; a command posts to the inboxes of other actors.    *)
(*                                                                         *)
(* The same host serves two runtimes.  A journaled session appends every   *)
(* event before it acts on it, one append at a time, and releases a tool's *)
(* result to its batch when the result's own record has committed.  The    *)
(* in-memory runtime (agent/agent-runtime.ts) acts at once and releases a  *)
(* result as it is reported.  Which one runs, and under what policy, is    *)
(* chosen in the initial state and kept.                                   *)
(*                                                                         *)
(* Operation IDs are made of the turn and its generation, which never      *)
(* repeat: here, of the number of the step.                                *)
(***************************************************************************)
EXTENDS Integers, Sequences, FiniteSets

CONSTANTS
  Calls,      \* the tool calls a step may propose, in their order
  ToolOf,     \* the tool each one calls
  Scenarios,  \* runtimes and policies to consider, each with what it may meet
  MaxSteps    \* bound: steps of all turns

ASSUME HostAssumption ==
  /\ Calls \in Seq(DOMAIN ToolOf)
  /\ DOMAIN ToolOf = {Calls[i] : i \in DOMAIN Calls}
  /\ MaxSteps \in Nat
  /\ \A e \in Scenarios :
       /\ {e.mode.journaled, e.mode.asks, e.mode.tolerant, e.mode.deadline} \subseteq BOOLEAN
       /\ e.mode.calls \in DOMAIN Calls /\ e.mode.allowance \in 1..MaxSteps
       /\ DOMAIN e.left = {"turns", "aborts", "barges", "resets", "ends"}

Tools == {ToolOf[c] : c \in DOMAIN ToolOf}
Steps == 1..MaxSteps

VARIABLES
  mode,       \* runtime and policy, calls a step proposes, steps a turn may use
  turn,       \* the turn: its phase, its current step and the steps it has left
  partial,    \* outcomes recorded of the calls of the current batch
  inbox,      \* submissions and events the session has not decided
  writing,    \* the submission being appended, if any
  ops,        \* operation actors
  batches,    \* tool batch actors
  grants,     \* permission grants
  remembered, \* tools allowed until the session closes
  unreleased, \* pendingTools: outcomes that wait to count towards their batch
  closed,     \* the host is closed
  left,       \* bounds: turns, aborts, barge-ins, policy changes and ends still to come
  ran,        \* history: calls whose tool was run
  answer,     \* history: what the user, or an earlier approval, said to each call
  standing    \* history: tools the user allowed for good since approvals were last forgotten

vars == <<mode, turn, partial, inbox, writing, ops, batches, grants, remembered,
          unreleased, closed, left, ran, answer, standing>>
hostVars == <<unreleased, closed, ran, answer, standing>>

-----------------------------------------------------------------------------
CallSet == {Calls[i] : i \in 1..mode.calls}

\* Operations: the completion and the permission request of a step, and its tools.
Ops == ({"completion", "permission"} \X Steps) \cup ({"tool"} \X Steps \X DOMAIN ToolOf)

Statuses == {"none", "ready", "validating_input", "running", "validating_output",
             "succeeded", "failed", "cancelled"}
Final    == {"succeeded", "failed", "cancelled"}
Live(o)  == ops[o].status \notin Final \cup {"none"}

Event(type) == [type |-> type]
Counted(c, result) == [type |-> "tool_settled", call |-> c, result |-> result]

\* Events that reach an actor once it has settled have no edge there: its inbox
\* is emptied as it settles, and takes no more.
Sent(actor, event) ==
  IF actor.status \in Final \cup {"none", "settled"}
    THEN actor ELSE [actor EXCEPT !.inbox = Append(@, event)]

NoOp == [status |-> "none", inbox |-> << >>, work |-> "none", timer |-> FALSE]

\* Mutant: tools have no deadline.
Spawned_ToolsUntimed(o) ==
  [NoOp EXCEPT !.status = "ready", !.inbox = <<Event("start")>>,
               !.timer = mode.deadline /\ o[1] = "completion"]

\* Completions and tools have the deadlines of the policy; a permission waits for the user.
Spawned(o) ==
  [NoOp EXCEPT !.status = "ready", !.inbox = <<Event("start")>>,
               !.timer = mode.deadline /\ o[1] # "permission"]

\* Mutant: the deadline of an operation that has settled still runs.
Over_Timed(o, status) == [NoOp EXCEPT !.status = status, !.timer = ops[o].timer]

\* Settling clears the deadline and gives up the work.
Over(o, status) == [NoOp EXCEPT !.status = status]

NoBatch == [status |-> "none", inbox |-> << >>, pending |-> {}, results |-> {},
            granted |-> FALSE, refused |-> {}, invalid |-> {}, refusing |-> {}]
NoGrant == [held |-> FALSE, approved |-> FALSE, next |-> 1, asking |-> FALSE,
            stopped |-> FALSE, inputs |-> {}, invalid |-> {}, refused |-> {}, remembered |-> {}]

Outcomes == {"succeeded", "failed", "refused", "cancelled"}

\* effectiveToolResult: what an outcome counts as under the policy.
Counts(outcome) ==
  IF outcome = "refused" \/ (outcome = "failed" /\ mode.tolerant) THEN "succeeded" ELSE outcome

\* Submissions to the session.
Settled(kind, s, result) == [kind |-> kind, step |-> s, result |-> result]
ToolResult(s, c, result) == [kind |-> "tool", step |-> s, call |-> c, result |-> result]

-----------------------------------------------------------------------------
\* The turn as a session knows it.
Idle == turn.phase = "idle"
KindOf(phase) == CASE phase = "awaiting_model"      -> "completion"
                   [] phase = "awaiting_permission" -> "permission"
                   [] OTHER                         -> "batch"

\* Results of the batch that count as successes: those its messages are made of.
Successes == {c \in CallSet : partial[c] # "none" /\ Counts(partial[c]) = "succeeded"}

\* accepts: a settlement must be the current operation's; a tool result must be
\* of the running batch, the first of its call, and not follow a failure.
Accepts(in) ==
  CASE in.kind \in {"user", "abort"} -> TRUE
    [] in.kind = "tool" ->
         /\ turn.phase = "executing_tools" /\ in.step = turn.step
         /\ partial[in.call] = "none"
         /\ \A c \in CallSet : partial[c] # "none" => c \in Successes
    [] OTHER ->
         /\ ~Idle /\ in.step = turn.step
         /\ KindOf(turn.phase) = IF in.kind = "failed" THEN in.result ELSE in.kind

\* A success of the batch is staged from the recorded results: all must be there.
Stageable(in) ==
  (in.kind = "batch" /\ in.result = "succeeded" /\ mode.journaled) => Successes = CallSet

NoResults == [c \in DOMAIN ToolOf |-> "none"]

-----------------------------------------------------------------------------
\* What a decision of the turn changes, with the commands it runs at once.
Now == [turn |-> turn, ops |-> ops, batches |-> batches, grants |-> grants,
        remembered |-> remembered]

Spawn(w, o) == [w EXCEPT !.ops[o] = Spawned(o)]
Ended(w)    == [w EXCEPT !.turn.phase = "idle"]

\* prepare: the next step calls the model, unless the turn has none left.
Prepares(w) ==
  IF w.turn.left = 0
    THEN Ended(w)
    ELSE Spawn([w EXCEPT !.turn = [phase |-> "awaiting_model", step |-> @.step + 1,
                                   left |-> @.left - 1]],
               <<"completion", w.turn.step + 1>>)

Revoked(w, s) == [w EXCEPT !.grants[s] = NoGrant]

\* host.cancel of an operation: the grant it holds goes, and its actor, if it
\* still runs, is told.
CancelsOp(w, o) ==
  LET told == [w EXCEPT !.ops[o] = Sent(@, Event("cancel"))] IN
   IF o[1] = "permission" THEN Revoked(told, o[2]) ELSE told

CancelsBatch(w, s) == [w EXCEPT !.batches[s] = Sent(@, Event("cancel"))]

\* Mutant: the turn ends, and the operation it waited for goes on.
CancelsChild_Never(w) == w

CancelsChild(w) ==
  IF KindOf(w.turn.phase) = "batch"
    THEN CancelsBatch(w, w.turn.step)
    ELSE CancelsOp(w, <<KindOf(w.turn.phase), w.turn.step>>)

Requests(w) ==
  [Spawn(w, <<"permission", w.turn.step>>) EXCEPT
     !.turn.phase = "awaiting_permission",
     !.grants[w.turn.step] = [NoGrant EXCEPT !.held = TRUE]]

\* runTools demands the approved grant of this batch, with every call in it.
Granted(w) ==
  LET g == w.grants[w.turn.step]
  IN g.approved /\ CallSet = g.inputs \cup g.invalid \cup g.refused

\* runTools: the batch starts with the refusals of its grant, whose remembered
\* approvals are installed.
RunsTools(w) ==
  LET s == w.turn.step
      g == w.grants[s]
  IN [w EXCEPT
        !.turn.phase = "executing_tools",
        !.batches[s] = [NoBatch EXCEPT !.status = "ready", !.inbox = <<Event("start")>>,
                          !.pending = CallSet, !.granted = mode.asks,
                          !.refused = g.refused, !.invalid = g.invalid],
        !.remembered = @ \cup g.remembered,
        !.grants[s] = NoGrant]

\* Bound: a turn has no more steps than remain of MaxSteps.
Allowance(w) ==
  IF w.turn.step + mode.allowance <= MaxSteps THEN mode.allowance ELSE MaxSteps - w.turn.step

UserApplies(w) ==
  CASE w.turn.phase = "idle"           -> Prepares([w EXCEPT !.turn.left = Allowance(w)])
    [] w.turn.phase = "awaiting_model" -> Prepares(CancelsChild(w))
    [] OTHER                           -> w

AbortApplies(w) ==
  CASE w.turn.phase = "executing_tools" ->
         [CancelsChild(w) EXCEPT !.turn.phase = "cancelling_tools"]
    [] w.turn.phase \in {"awaiting_model", "awaiting_permission"} -> Ended(CancelsChild(w))
    [] OTHER -> w

Applied(in, w) ==
  CASE in.kind = "user"       -> UserApplies(w)
    [] in.kind = "abort"      -> AbortApplies(w)
    [] in.kind = "failed"     -> Ended(CancelsChild(w))
    [] in.kind = "tool"       -> w
    [] in.kind = "completion" ->
         IF in.result # "tools" THEN Ended(w)
         ELSE IF mode.asks THEN Requests(w) ELSE RunsTools(w)
    [] in.kind = "permission" ->
         IF in.result # "succeeded" THEN Ended(w)
         ELSE IF Granted(w) THEN RunsTools(w)
         ELSE [w EXCEPT !.turn.phase = "executing_tools"]
    [] in.kind = "batch"      ->
         IF in.result = "succeeded" /\ w.turn.phase = "executing_tools"
           THEN Prepares(w) ELSE Ended(w)

\* A dispatch that throws is reported as a failure of the child it names.
Thrown(in) ==
  IF in.kind = "permission" /\ in.result = "succeeded" /\ ~Granted(Now)
    THEN <<Settled("failed", turn.step, "batch")>> ELSE << >>

Become(w) ==
  /\ turn' = w.turn /\ ops' = w.ops /\ batches' = w.batches
  /\ grants' = w.grants /\ remembered' = w.remembered

-----------------------------------------------------------------------------
\* Releasing an outcome lets it count towards its batch, once, as the policy
\* counts it.
Released(s, c, known) ==
  IF \E p \in unreleased : p.step = s /\ p.call = c
    THEN [known EXCEPT ![s] = Sent(@, Counted(c,
            Counts((CHOOSE p \in unreleased : p.step = s /\ p.call = c).result)))]
    ELSE known

Forgotten(s, c) == {p \in unreleased : ~(p.step = s /\ p.call = c)}

\* The session decides the submission at the head of its inbox and acts on it: it
\* records a tool's outcome before it releases it, and whatever settled a batch
\* or ended a turn empties the record of partial outcomes.
Acts(in) ==
  /\ LET w == Applied(in, Now) IN
       IF in.kind = "tool"
         THEN /\ batches' = Released(in.step, in.call, batches)
              /\ unreleased' = Forgotten(in.step, in.call)
              /\ partial' = [partial EXCEPT ![in.call] = in.result]
              /\ UNCHANGED <<turn, ops, grants, remembered>>
         ELSE /\ Become(w)
              /\ partial' = IF in.kind = "batch" \/ (w.turn.phase = "idle" /\ ~Idle)
                              THEN NoResults ELSE partial
              /\ UNCHANGED unreleased

\* stop: the session closes the host, which cancels what runs and forgets the rest.
Closes ==
  /\ closed' = TRUE /\ inbox' = << >> /\ writing' = {}
  /\ ops' = [o \in Ops |-> Sent(ops[o], Event("cancel"))]
  /\ batches' = [s \in Steps |-> Sent(batches[s], Event("cancel"))]
  /\ unreleased' = {} /\ remembered' = {}
  /\ grants' = [s \in Steps |-> NoGrant]
  /\ UNCHANGED <<mode, turn, partial, ran, answer, standing>>

SessionIgnores ==
  /\ ~closed /\ writing = {} /\ inbox # << >> /\ ~Accepts(Head(inbox))
  /\ inbox' = Tail(inbox)
  /\ UNCHANGED <<mode, turn, partial, writing, ops, batches, grants, remembered, left, hostVars>>

\* The in-memory runtime acts at once.
RuntimeActs ==
  /\ ~mode.journaled /\ ~closed /\ inbox # << >> /\ Accepts(Head(inbox))
  /\ Acts(Head(inbox))
  /\ inbox' = Tail(inbox) \o Thrown(Head(inbox))
  /\ UNCHANGED <<mode, writing, closed, left, ran, answer, standing>>

\* A settlement of the session's own that cannot be staged fails the session.
SessionAppends ==
  /\ mode.journaled /\ ~closed /\ writing = {} /\ inbox # << >> /\ Accepts(Head(inbox))
  /\ IF Stageable(Head(inbox))
       THEN /\ writing' = {Head(inbox)} /\ inbox' = Tail(inbox)
            /\ UNCHANGED <<mode, turn, partial, ops, batches, grants, remembered, hostVars>>
       ELSE Closes
  /\ UNCHANGED left

SessionCommits ==
  /\ ~closed
  /\ \E in \in writing : Acts(in) /\ inbox' = inbox \o Thrown(in)
  /\ writing' = {}
  /\ UNCHANGED <<mode, closed, left, ran, answer, standing>>

\* The session is closed, or fails because its append is refused.
SessionEnds ==
  /\ ~closed /\ mode.journaled /\ left.ends > 0
  /\ Closes /\ left' = [left EXCEPT !.ends = @ - 1]

\* A changed policy, or one changed and changed back, is applied between turns.
ResetPermissions ==
  /\ mode.journaled /\ ~closed /\ Idle /\ writing = {} /\ left.resets > 0
  /\ remembered' = {} /\ standing' = {}
  /\ left' = [left EXCEPT !.resets = @ - 1]
  /\ UNCHANGED <<mode, turn, partial, inbox, writing, ops, batches, grants, unreleased,
                 closed, ran, answer>>

-----------------------------------------------------------------------------
\* The user.
Says(kind) == inbox' = Append(inbox, [kind |-> kind])

Prompts ==
  /\ ~closed /\ Idle /\ writing = {} /\ inbox = << >> /\ left.turns > 0
  /\ Says("user") /\ left' = [left EXCEPT !.turns = @ - 1]
  /\ UNCHANGED <<mode, turn, partial, writing, ops, batches, grants, remembered, hostVars>>

BargesIn ==
  /\ ~closed /\ ~Idle /\ left.barges > 0 /\ turn.step + mode.allowance < MaxSteps
  /\ Says("user") /\ left' = [left EXCEPT !.barges = @ - 1]
  /\ UNCHANGED <<mode, turn, partial, writing, ops, batches, grants, remembered, hostVars>>

Aborts ==
  /\ ~closed /\ ~Idle /\ left.aborts > 0
  /\ Says("abort") /\ left' = [left EXCEPT !.aborts = @ - 1]
  /\ UNCHANGED <<mode, turn, partial, writing, ops, batches, grants, remembered, hostVars>>

-----------------------------------------------------------------------------
\* Operation actors.
Posted(in) == IF closed THEN inbox ELSE Append(inbox, in)

\* Each status but the last launches the work whose end moves it on.
After == [ready |-> "validating_input", validating_input |-> "running",
          running |-> "validating_output", validating_output |-> "succeeded"]
Advances == [ready |-> "start", validating_input |-> "input_valid",
             running |-> "returned", validating_output |-> "output_valid"]

\* The status an event takes a live operation to.
Verdict(o, event) ==
  CASE event.type \in {"failed", "timeout"} -> "failed"
    [] event.type = "cancel" -> "cancelled"
    [] event.type = Advances[ops[o].status] -> After[ops[o].status]

\* Mutant: a journaled session counts a tool's outcome before its record commits.
Gated_Never == FALSE

Gated == mode.journaled

\* What the host does with the settlement of an operation, unless it is closed.
Settlement(o, result) ==
  LET s == o[2] IN
    CASE closed -> UNCHANGED <<inbox, batches, grants, unreleased>>
      [] ~closed /\ o[1] = "completion" ->
           /\ IF result = "succeeded"
                THEN \E value \in {"answer", "tools"} :
                       inbox' = Posted(Settled("completion", s, value))
                ELSE inbox' = Posted(Settled("completion", s, result))
           /\ UNCHANGED <<batches, grants, unreleased>>
      [] ~closed /\ o[1] = "permission" ->
           /\ inbox' = Posted(Settled("permission", s,
                         IF result = "succeeded" /\ grants[s].stopped THEN "cancelled" ELSE result))
           /\ grants' = [grants EXCEPT ![s] =
                IF result # "succeeded" \/ @.stopped THEN NoGrant
                ELSE [@ EXCEPT !.approved = grants[s].held]]
           /\ UNCHANGED <<batches, unreleased>>
      [] ~closed /\ o[1] = "tool" ->
           /\ inbox' = IF mode.journaled THEN Posted(ToolResult(s, o[3], result)) ELSE inbox
           /\ IF Gated
                THEN /\ unreleased' = unreleased \cup {[step |-> s, call |-> o[3], result |-> result]}
                     /\ UNCHANGED batches
                ELSE /\ batches' = [batches EXCEPT ![s] = Sent(@, Counted(o[3], Counts(result)))]
                     /\ UNCHANGED unreleased
           /\ UNCHANGED grants

Pending(actor) == actor.inbox # << >>
Taken(actor)   == [actor EXCEPT !.inbox = Tail(@)]

OpAdvances(o) ==
  /\ Live(o) /\ Pending(ops[o])
  /\ LET next == Verdict(o, Head(ops[o].inbox)) IN
       /\ next \notin Final
       /\ ops' = [ops EXCEPT ![o] = [Taken(@) EXCEPT !.status = next, !.work = next]]
       /\ ran' = IF o[1] = "tool" /\ next = "running" THEN ran \cup {<<o[2], o[3]>>} ELSE ran
  /\ UNCHANGED <<mode, turn, partial, inbox, writing, batches, grants, remembered,
                 unreleased, closed, left, answer, standing>>

\* A settled operation tells the host, once.
OpSettles(o) ==
  /\ Live(o) /\ Pending(ops[o])
  /\ LET next == Verdict(o, Head(ops[o].inbox)) IN
       /\ next \in Final
       /\ ops' = [ops EXCEPT ![o] = Over(o, next)]
       /\ Settlement(o, next)
  /\ UNCHANGED <<mode, turn, partial, writing, remembered, closed, left, ran, answer, standing>>

DeadlineFires(o) ==
  /\ ops[o].timer
  /\ ops' = [ops EXCEPT ![o] = [Sent(@, Event("timeout")) EXCEPT !.timer = FALSE]]
  /\ UNCHANGED <<mode, turn, partial, inbox, writing, batches, grants, remembered, left, hostVars>>

WorkReports(o, event) ==
  ops' = [ops EXCEPT ![o] = [Sent(@, Event(event)) EXCEPT !.work = "none"]]

Reports == [validating_input |-> "input_valid", running |-> "returned",
            validating_output |-> "output_valid"]

\* The input of a tool whose permission was asked was validated then, and found
\* invalid or not.
InputKnown(o) == o[1] = "tool" /\ ops[o].work = "validating_input" /\ batches[o[2]].granted

\* Validations end by themselves; what runs may take as long as it likes.
WorkSucceeds(o) ==
  /\ ops[o].work # "none" /\ ~(o[1] = "permission" /\ ops[o].work = "running")
  /\ InputKnown(o) => o[3] \notin batches[o[2]].invalid
  /\ WorkReports(o, Reports[ops[o].work])
  /\ UNCHANGED <<mode, turn, partial, inbox, writing, batches, grants, remembered, left, hostVars>>

WorkFails(o) ==
  /\ ops[o].work # "none" /\ ~(o[1] = "permission" /\ ops[o].work = "running")
  /\ InputKnown(o) => o[3] \in batches[o[2]].invalid
  /\ ops[o].work = "validating_input" => o[1] = "tool"
  /\ WorkReports(o, "failed")
  /\ UNCHANGED <<mode, turn, partial, inbox, writing, batches, grants, remembered, left, hostVars>>

-----------------------------------------------------------------------------
\* A permission request asks about the calls in order.  Each call is first
\* validated; the user is asked unless the tool has been allowed for good.
Asking(s)   == <<"permission", s>>
Request(s)  == ops[Asking(s)].work = "running"
Current(s)  == Calls[grants[s].next]
Unasked(s)  == Request(s) /\ grants[s].held /\ grants[s].next <= mode.calls
Answered(g) == [g EXCEPT !.next = @ + 1, !.asking = FALSE]
Grants(s, g) == grants' = [grants EXCEPT ![s] = g]
Answers(s, what) == answer' = [answer EXCEPT ![<<s, Current(s)>>] = what]

RequestValidates(s) ==
  /\ Unasked(s) /\ ~grants[s].asking
  /\ LET c == Current(s)
         g == [grants[s] EXCEPT !.inputs = @ \cup {c}]
     IN IF ToolOf[c] \in remembered \cup g.remembered
          THEN Grants(s, Answered(g)) /\ Answers(s, "remembered")
          ELSE Grants(s, [g EXCEPT !.asking = TRUE]) /\ UNCHANGED answer
  /\ UNCHANGED <<mode, turn, partial, inbox, writing, ops, batches, remembered,
                 unreleased, closed, left, ran, standing>>

\* An invalid input is the tool's failure if the policy tolerates those, and else
\* the request's.
RequestRejectsInput(s) ==
  /\ Unasked(s) /\ ~grants[s].asking
  /\ IF mode.tolerant
       THEN Grants(s, [Answered(grants[s]) EXCEPT !.invalid = @ \cup {Current(s)}]) /\ UNCHANGED ops
       ELSE WorkReports(Asking(s), "failed") /\ UNCHANGED grants
  /\ UNCHANGED <<mode, turn, partial, inbox, writing, batches, remembered, left, hostVars>>

UserAllows(s, forGood) ==
  /\ Unasked(s) /\ grants[s].asking
  /\ LET tool == IF forGood THEN {ToolOf[Current(s)]} ELSE {} IN
       /\ Grants(s, [Answered(grants[s]) EXCEPT !.remembered = @ \cup tool])
       /\ standing' = standing \cup tool
  /\ Answers(s, "allowed")
  /\ UNCHANGED <<mode, turn, partial, inbox, writing, ops, batches, remembered,
                 unreleased, closed, left, ran>>

UserRejects(s) ==
  /\ Unasked(s) /\ grants[s].asking
  /\ Grants(s, [Answered(grants[s]) EXCEPT !.refused = @ \cup {Current(s)}])
  /\ Answers(s, "rejected")
  /\ UNCHANGED <<mode, turn, partial, inbox, writing, ops, batches, remembered,
                 unreleased, closed, left, ran, standing>>

\* A dismissed question stops the asking; so does an error of the permission port.
UserDismisses(s) ==
  /\ Unasked(s) /\ grants[s].asking
  /\ Grants(s, [grants[s] EXCEPT !.stopped = TRUE, !.asking = FALSE])
  /\ WorkReports(Asking(s), "returned")
  /\ UNCHANGED <<mode, turn, partial, inbox, writing, batches, remembered, left, hostVars>>

RequestBreaks(s) ==
  /\ Unasked(s) /\ grants[s].asking
  /\ WorkReports(Asking(s), "failed")
  /\ UNCHANGED <<mode, turn, partial, inbox, writing, batches, grants, remembered, left, hostVars>>

RequestReturns(s) ==
  /\ Request(s) /\ grants[s].held /\ grants[s].next > mode.calls
  /\ WorkReports(Asking(s), "returned")
  /\ UNCHANGED <<mode, turn, partial, inbox, writing, batches, grants, remembered, left, hostVars>>

\* The aborted signal stops the asking of a request that was cancelled.
RequestStops(s) ==
  /\ Request(s) /\ ~grants[s].held
  /\ WorkReports(Asking(s), "failed")
  /\ UNCHANGED <<mode, turn, partial, inbox, writing, batches, grants, remembered, left, hostVars>>

-----------------------------------------------------------------------------
\* Tool batch actors.
\* Mutant: a refused call runs like any other.
Spawns_Refused(s) == IF closed THEN {} ELSE CallSet

\* The calls a batch spawns: a refused one is answered without running, and a
\* closed host spawns nothing.
Spawns(s) == IF closed THEN {} ELSE CallSet \ batches[s].refused

BatchStarts(s) ==
  /\ batches[s].status = "ready" /\ Pending(batches[s]) /\ Head(batches[s].inbox).type = "start"
  /\ batches' = [batches EXCEPT ![s] =
                   [Taken(@) EXCEPT !.status = "running", !.refusing = batches[s].refused]]
  /\ ops' = [o \in Ops |-> IF o[1] = "tool" /\ o[2] = s /\ o[3] \in Spawns(s)
                             THEN Spawned(o) ELSE ops[o]]
  /\ unreleased' = unreleased \cup
       {[step |-> s, call |-> c, result |-> "refused"] : c \in batches[s].refused}
  /\ UNCHANGED <<mode, turn, partial, inbox, writing, grants, remembered, closed, left,
                 ran, answer, standing>>

\* A refusal is reported like the outcome of a tool, a moment later.
RefusalReported(s, c) ==
  /\ c \in batches[s].refusing
  /\ LET told == [batches EXCEPT ![s].refusing = @ \ {c}] IN
       IF closed
         THEN batches' = told /\ UNCHANGED <<inbox, unreleased>>
         ELSE IF mode.journaled
           THEN /\ batches' = told /\ inbox' = Posted(ToolResult(s, c, "refused"))
                /\ UNCHANGED unreleased
           ELSE /\ batches' = Released(s, c, told) /\ unreleased' = Forgotten(s, c)
                /\ UNCHANGED inbox
  /\ UNCHANGED <<mode, turn, partial, writing, ops, grants, remembered, closed, left,
                 ran, answer, standing>>

\* Mutant: the other calls of a batch that failed go on.
Stops_Cancelled(s, outcome) == IF outcome = "cancelled" THEN batches[s].pending ELSE {}

Stops(s, outcome) == IF outcome = "succeeded" THEN {} ELSE batches[s].pending

\* A settled batch cancels the calls still pending, drops the outcomes that wait
\* to count, and tells the turn.
BatchEnds(s, outcome, results) ==
  /\ batches' = [batches EXCEPT ![s] = [NoBatch EXCEPT !.status = "settled", !.results = results,
                                                       !.refusing = batches[s].refusing]]
  /\ ops' = [o \in Ops |->
       IF o[1] = "tool" /\ o[2] = s /\ o[3] \in Stops(s, outcome)
         THEN Sent(ops[o], Event("cancel")) ELSE ops[o]]
  /\ unreleased' = {p \in unreleased : p.step # s}
  /\ inbox' = Posted(Settled("batch", s, outcome))
  /\ UNCHANGED <<mode, turn, partial, writing, grants, remembered, closed, left,
                 ran, answer, standing>>

BatchCancelled(s) ==
  /\ batches[s].status \in {"ready", "running"} /\ Pending(batches[s])
  /\ Head(batches[s].inbox).type = "cancel"
  /\ BatchEnds(s, "cancelled", batches[s].results)

\* The outcome at the head of a running batch's inbox, if it is of a pending call.
Counting(s) ==
  /\ batches[s].status = "running" /\ Pending(batches[s])
  /\ Head(batches[s].inbox).type = "tool_settled"
  /\ Head(batches[s].inbox).call \in batches[s].pending

BatchCounts(s) ==
  /\ Counting(s)
  /\ LET e == Head(batches[s].inbox)
         b == batches[s]
     IN /\ e.result = "succeeded" /\ b.pending # {e.call}
        /\ batches' = [batches EXCEPT ![s] = [Taken(b) EXCEPT !.pending = @ \ {e.call},
                                                             !.results = @ \cup {e.call}]]
  /\ UNCHANGED <<mode, turn, partial, inbox, writing, ops, grants, remembered, left, hostVars>>

BatchSettles(s) ==
  /\ Counting(s)
  /\ LET e == Head(batches[s].inbox)
         b == batches[s]
     IN \/ e.result = "succeeded" /\ b.pending = {e.call}
             /\ BatchEnds(s, "succeeded", b.results \cup {e.call})
        \/ e.result # "succeeded" /\ BatchEnds(s, e.result, b.results)

-----------------------------------------------------------------------------
Init ==
  /\ \E e \in Scenarios : mode = e.mode /\ left = e.left
  /\ turn = [phase |-> "idle", step |-> 0, left |-> 0]
  /\ partial = NoResults
  /\ inbox = << >> /\ writing = {}
  /\ ops = [o \in Ops |-> NoOp]
  /\ batches = [s \in Steps |-> NoBatch]
  /\ grants = [s \in Steps |-> NoGrant]
  /\ remembered = {} /\ unreleased = {} /\ closed = FALSE
  /\ ran = {} /\ standing = {}
  /\ answer = [sc \in Steps \X DOMAIN ToolOf |-> "none"]

Session ==
  \/ SessionIgnores \/ RuntimeActs \/ SessionAppends \/ SessionCommits

OpStep(o) == OpAdvances(o) \/ OpSettles(o)

Requesting(s) ==
  \/ RequestValidates(s) \/ RequestReturns(s) \/ RequestStops(s)

UserDecides(s) ==
  \/ UserAllows(s, TRUE) \/ UserAllows(s, FALSE) \/ UserRejects(s) \/ UserDismisses(s)

BatchStep(s) ==
  \/ BatchStarts(s) \/ BatchCancelled(s) \/ BatchCounts(s) \/ BatchSettles(s)
  \/ \E c \in DOMAIN ToolOf : RefusalReported(s, c)

Next ==
  \/ Session \/ SessionEnds \/ ResetPermissions \/ Prompts \/ BargesIn \/ Aborts
  \/ \E o \in Ops : OpStep(o) \/ DeadlineFires(o) \/ WorkSucceeds(o) \/ WorkFails(o)
  \/ \E s \in Steps : \/ Requesting(s) \/ UserDecides(s) \/ BatchStep(s)
                      \/ RequestRejectsInput(s) \/ RequestBreaks(s)

Spec == Init /\ [][Next]_vars
==============================================================================

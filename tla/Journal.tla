------------------------------- MODULE Journal -------------------------------
(***************************************************************************)
(* The folded journal of one session and the staging of new inputs into    *)
(* it: stage of session/journal/stage.ts, the reducers it calls, and the   *)
(* turn machine of agent/agent-fsm.ts that they drive.                     *)
(*                                                                         *)
(* A turn is identified by its sequence number and an operation of it by   *)
(* the turn's generation, from which the code derives the operation's ID.  *)
(* A tool batch is one operation here: the records of its single results   *)
(* are not told apart.  Fork and compaction requests, registry adoption    *)
(* and agent identities are left out.                                      *)
(***************************************************************************)
EXTENDS Naturals, Sequences

CONSTANTS
  Users,        \* the user inputs clients may submit
  Perms,        \* values of the policy fields that govern grants (permissions, tools)
  AskPerms,     \* those under which a tool batch needs a permission request first
  Models,       \* values of every other policy field
  FirstMode,    \* the configuration the session is created with
  Admission,    \* what the policy does with user input that meets a running turn
  BargeIn,      \* whether user input may replace a model request
  Steps         \* model requests a turn may make

Admissions == {"reject-during-tools", "abort-tools-on-user", "queue-user"}

Mode == [perm : Perms, model : Models]

ASSUME StepsAssumption     == Steps \in Nat \ {0}
ASSUME AdmissionAssumption == /\ Admission \in Admissions
                              /\ BargeIn \in BOOLEAN
                              /\ Admission = "queue-user" => ~BargeIn
ASSUME ModeAssumption      == FirstMode \in Mode /\ AskPerms \subseteq Perms

(***************************************************************************)
(* State of the fold.  revision counts batches: a batch holds at least one *)
(* record and is never split, so nothing tells it from a count of records. *)
(***************************************************************************)
Phases     == {"idle", "model", "permission", "tools", "cancelling"}
ToolPhases == {"permission", "tools", "cancelling"}

JournalState ==
  [ revision      : Nat,
    turn          : Nat,
    phase         : Phases,
    left          : 0..Steps,
    generation    : Nat,
    pendingInputs : Seq(Users),
    mode          : Mode ]

EmptyJournal ==
  [ revision |-> 0, turn |-> 1, phase |-> "idle", left |-> Steps, generation |-> 0,
    pendingInputs |-> << >>, mode |-> FirstMode ]

Active(j) == j.phase # "idle"

(***************************************************************************)
(* Inputs a session admits (SessionInput).                                 *)
(***************************************************************************)
Created            == [kind |-> "created"]
UserInput(u)       == [kind |-> "user", user |-> u]
AbortInput         == [kind |-> "abort"]
SystemInput        == [kind |-> "system"]
ChildInput(t, g, r) == [kind |-> "child", turn |-> t, generation |-> g, result |-> r]
PolicyInput(m)     == [kind |-> "policy", mode |-> m]
DequeuedInput(u)   == [kind |-> "dequeued", user |-> u]
RecoveryInput(t)   == [kind |-> "recovery", turn |-> t]

\* What an operation of each kind can report.  "end" stands for every outcome
\* that ends the turn (an answer, a failure, a denied permission), "more" for
\* those that call the model again (a handoff, settled tools), "unpermitted" for
\* a completion naming a tool or an agent that is not the model's to name, and
\* "always" for permission granted until the session closes.
ResultsOf(phase) ==
  CASE phase = "model"      -> {"end", "more", "tools", "unpermitted"}
    [] phase = "permission" -> {"end", "granted", "always"}
    [] OTHER                -> {"end", "more"}

ChildResults == {"end", "more", "tools", "unpermitted", "granted", "always"}

Inputs ==
  {Created, AbortInput, SystemInput}
    \cup {UserInput(u) : u \in Users}
    \cup {DequeuedInput(u) : u \in Users}
    \cup {PolicyInput(m) : m \in Mode}
    \cup [kind : {"child"}, turn : Nat, generation : Nat, result : ChildResults]
    \cup [kind : {"recovery"}, turn : Nat]

(***************************************************************************)
(* accepts: the operation an input names is still the one in flight.       *)
(***************************************************************************)
Accepts(j, input) ==
  input.kind = "child" => /\ Active(j)
                          /\ input.turn = j.turn
                          /\ input.generation = j.generation

\* The policy holds this user input for a turn of its own.
Queues(j, input) ==
  /\ input.kind = "user"
  /\ \/ Admission = "queue-user" /\ Active(j)
     \/ Admission = "abort-tools-on-user" /\ j.phase \in ToolPhases

(***************************************************************************)
(* The commit-time rules of an accepted input; staging throws without them. *)
(***************************************************************************)
\* A user event starts a turn, waits for its own, or barges in on a model request.
UserStageable(j, input) ==
  \/ ~Active(j)
  \/ Queues(j, input)
  \/ BargeIn /\ j.phase = "model"

\* Only the oldest queued input may take its turn, between turns.
DequeueStageable(j, input) ==
  /\ ~Active(j)
  /\ j.pendingInputs # << >>
  /\ Head(j.pendingInputs) = input.user

\* Recovery needs work that was interrupted.
RecoveryStageable(j, input) ==
  /\ input.turn = j.turn
  /\ Active(j) \/ j.pendingInputs # << >>

Stageable(j, input) ==
  CASE input.kind = "user"     -> UserStageable(j, input)
    [] input.kind = "child"    -> input.result # "unpermitted"
    [] input.kind \in {"policy", "system"} -> ~Active(j)
    [] input.kind = "dequeued" -> DequeueStageable(j, input)
    [] input.kind = "recovery" -> RecoveryStageable(j, input)
    [] input.kind = "created"  -> j.revision = 0
    [] OTHER -> TRUE

\* A finished turn makes room for the next, which is idle until input arrives.
EndTurn(j) ==
  [j EXCEPT !.turn = @ + 1, !.phase = "idle", !.left = Steps, !.generation = 0]

Run(j, phase) == [j EXCEPT !.phase = phase, !.generation = @ + 1]

\* prepare: the next model request, or the end of a turn that has none left.
Prepare(j) == IF j.left = 0 THEN EndTurn(j) ELSE Run([j EXCEPT !.left = @ - 1], "model")

Abort(j) ==
  CASE j.phase = "tools"      -> [j EXCEPT !.phase = "cancelling"]
    [] j.phase = "cancelling" -> j
    [] OTHER                  -> EndTurn(j)

Settle(j, result) ==
  CASE result = "tools"   -> Run(j, IF j.mode.perm \in AskPerms THEN "permission" ELSE "tools")
    [] result \in {"granted", "always"} -> Run(j, "tools")
    [] result = "more" /\ j.phase # "cancelling" -> Prepare(j)
    [] OTHER              -> EndTurn(j)

\* Mutant: the newest input first.
Queue_NewestFirst(j, u) == [j EXCEPT !.pendingInputs = <<u>> \o @]

Queue(j, u) == [j EXCEPT !.pendingInputs = Append(@, u)]

Dequeue(j) == Prepare([j EXCEPT !.pendingInputs = Tail(@)])

\* The interrupted turn ends and every queued input is cancelled.
Recover(j) == [ (IF Active(j) THEN EndTurn(j) ELSE j) EXCEPT !.pendingInputs = << >> ]

Fold(j, input) ==
  CASE input.kind = "user" /\ ~Queues(j, input) -> Prepare(j)
    [] input.kind = "user" /\ Queues(j, input) ->
         IF Admission = "abort-tools-on-user" THEN Abort(Queue(j, input.user))
                                              ELSE Queue(j, input.user)
    [] input.kind = "child"    -> Settle(j, input.result)
    [] input.kind = "abort"    -> Abort(j)
    [] input.kind = "policy"   -> [j EXCEPT !.mode = input.mode]
    [] input.kind = "dequeued" -> Dequeue(j)
    [] input.kind = "recovery" -> Recover(j)
    [] OTHER -> j

\* stage: the state the input's batch proposes.
Stage(j, input) == [Fold(j, input) EXCEPT !.revision = j.revision + 1]

\* The staged batch starts an operation once it commits.
Starts(j, next) ==
  /\ Active(next)
  /\ <<next.turn, next.generation>> # <<j.turn, j.generation>>

\* The batch ends the turn: it carries the turn's terminal record.
Ends(j, next) == next.turn # j.turn
==============================================================================

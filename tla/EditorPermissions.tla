-------------------------- MODULE EditorPermissions --------------------------
(***************************************************************************)
(* Permissions in the extension (handlers/PermissionHandler.ts): one        *)
(* connection, one session with its prompts, and the decisions its agent    *)
(* asks the user for.  Settling a decision shows the next one in a          *)
(* microtask, which runs before the user or the agent does anything else.   *)
(***************************************************************************)
EXTENDS Integers

CONSTANTS Requests, \* session/request_permission, in the order they arrive
          Turns     \* bound: prompts of the session

VARIABLES
  asked,    \* each request: what became of it
  waiting,  \* pending; they came in the order of their numbers
  visible,  \* active: the request whose picker is shown
  revoked,  \* cancelled: the session's requests are refused
  closed,   \* disposed
  turn      \* the prompts of the session: how many, whether one runs and was cancelled

permissionVars == <<asked, waiting, visible, revoked, closed, turn>>

NoRequest == 0
NoTurn    == [number |-> 0, running |-> FALSE, stopped |-> FALSE]

PermissionInit ==
  /\ asked = [r \in Requests |-> [phase |-> "none", answer |-> "none", turn |-> 0]]
  /\ waiting = {} /\ visible = NoRequest /\ revoked = FALSE /\ closed = FALSE
  /\ turn = NoTurn

Settles(rs, answer) == [r \in Requests |->
  IF r \in rs THEN [asked[r] EXCEPT !.phase = "settled", !.answer = answer] ELSE asked[r]]

\* showNext, once the pickers of the settled requests are gone.
Oldest(rs) == CHOOSE r \in rs : \A q \in rs : r <= q

Shown(rs) == IF rs = {} THEN NoRequest ELSE IF visible \in rs THEN visible ELSE Oldest(rs)

\* Mutant: a cancellation reaches the request that is shown, and not those queued.
Without_Shown(rs) == waiting \ {visible}

Without(rs) == waiting \ rs

Leaves(rs, answer) ==
  /\ asked' = Settles(rs, answer) /\ waiting' = Without(rs) /\ visible' = Shown(Without(rs))

Refused == closed \/ revoked

Asks(r) ==
  /\ asked[r].phase = "none" /\ \A q \in Requests : q < r => asked[q].phase # "none"
  /\ UNCHANGED <<revoked, closed, turn>>
  /\ IF Refused
       THEN /\ asked' = [asked EXCEPT ![r] = [phase |-> "settled", answer |-> "cancelled",
                                              turn |-> turn.number]]
            /\ UNCHANGED <<waiting, visible>>
       ELSE /\ asked' = [asked EXCEPT ![r] = [@ EXCEPT !.phase = "waiting", !.turn = turn.number]]
            /\ waiting' = waiting \cup {r} /\ visible' = Shown(waiting \cup {r})

\* autoApprovePermissions: allowAll, if an option allows; and options that make no
\* sense are an error.
AnswersItself(r, answer) ==
  /\ asked[r].phase = "none" /\ (\A q \in Requests : q < r => asked[q].phase # "none")
  /\ ~Refused
  /\ asked' = [asked EXCEPT ![r] = [phase |-> "settled", answer |-> answer,
                                    turn |-> turn.number]]
  /\ UNCHANGED <<waiting, visible, revoked, closed, turn>>

\* The user chooses, dismisses the picker, or the picker cannot be shown.
Chooses(answer) ==
  /\ visible # NoRequest /\ Leaves({visible}, answer) /\ UNCHANGED <<revoked, closed, turn>>

\* The agent withdraws the request.
Withdraws(r) ==
  /\ asked[r].phase = "waiting" /\ Leaves({r}, "cancelled")
  /\ UNCHANGED <<revoked, closed, turn>>

\* sendPrompt: beginTurn; a prompt is refused while another runs.
BeginTurn ==
  /\ ~closed /\ ~turn.running /\ turn.number < Turns
  /\ turn' = [number |-> turn.number + 1, running |-> TRUE, stopped |-> FALSE]
  /\ Leaves(waiting, "cancelled") /\ revoked' = FALSE /\ UNCHANGED closed

\* cancelTurn, which needs no prompt to run.
CancelTurn ==
  /\ ~closed /\ turn' = [turn EXCEPT !.stopped = TRUE]
  /\ Leaves(waiting, "cancelled") /\ revoked' = TRUE /\ UNCHANGED closed

\* The prompt's answer: turn_settled.
TurnSettles ==
  /\ turn.running /\ turn' = [turn EXCEPT !.running = FALSE]
  /\ Leaves(waiting, "cancelled") /\ revoked' = TRUE /\ UNCHANGED closed

\* The connection ends: dispose, whatever its prompt does later.
Dispose ==
  /\ ~closed /\ closed' = TRUE
  /\ Leaves(waiting, "cancelled") /\ revoked' = FALSE /\ UNCHANGED turn

PermissionNext ==
  \/ \E r \in Requests : \/ Asks(r) \/ Withdraws(r)
                         \/ \E answer \in {"allow", "error"} : AnswersItself(r, answer)
  \/ \E answer \in {"allow", "reject", "cancelled", "error"} : Chooses(answer)
  \/ BeginTurn \/ CancelTurn \/ TurnSettles \/ Dispose

PermissionSpec == PermissionInit /\ [][PermissionNext]_permissionVars

-----------------------------------------------------------------------------
PermissionTypeOK ==
  /\ asked \in [Requests -> [phase : {"none", "waiting", "settled"},
                             answer : {"none", "allow", "reject", "cancelled", "error"},
                             turn : 0..Turns]]
  /\ waiting \subseteq Requests /\ visible \in Requests \cup {NoRequest}
  /\ turn \in [number : 0..Turns, running : BOOLEAN, stopped : BOOLEAN]
  /\ revoked \in BOOLEAN /\ closed \in BOOLEAN

\* The user is asked for the running turn only: nothing waits that was asked for an
\* earlier one, that was cancelled, or whose connection is gone, and whoever waits
\* sees a picker in his turn, the oldest first.
AskedForTheTurn ==
  /\ \A r \in Requests :
       asked[r].phase = "waiting" =>
         /\ ~closed /\ asked[r].turn = turn.number /\ ~turn.stopped
         /\ turn.number > 0 => turn.running
  /\ waiting = {r \in Requests : asked[r].phase = "waiting"}
  /\ visible = IF waiting = {} THEN NoRequest ELSE Oldest(waiting)
=============================================================================

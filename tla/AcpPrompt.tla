------------------------------ MODULE AcpPrompt ------------------------------
(***************************************************************************)
(* One open session of a connection: its prompts, the forks of it, the      *)
(* cancellations of both and its close (rpc/prompt.ts, rpc/session.ts).     *)
(* Handlers run one at a time between their awaits; a step here is what     *)
(* runs from one await to the next.  The runtime is seen through the        *)
(* promises of a turn: it is accepted or refused, and it ends.              *)
(***************************************************************************)
EXTENDS Integers, FiniteSets

CONSTANTS Prompts,  \* session/prompt requests
          Forks,    \* session/fork requests, in the order they arrive
          Nobody,   \* no prompt, no fork
          MaxDrops  \* bound: requests that their client cancels

VARIABLES
  prompt,     \* the handler of each prompt
  active,     \* busy, promptController: the prompt that has the session
  promptDone, \* the prompt whose end this promise tells
  fork,       \* the handler of each fork
  forkTail,   \* the fork whose end this promise tells
  turn,       \* the runtime's turn for each prompt
  session,    \* the entry: open, closing or closed
  drops       \* requests cancelled, counted

promptVars == <<prompt, active, promptDone, fork, forkTail, turn, session, drops>>

NoPrompt == [phase |-> "none", barrier |-> Nobody, export |-> FALSE, dropped |-> FALSE,
             aborted |-> FALSE, answer |-> "none"]
NoFork   == [phase |-> "none", after |-> Nobody, until |-> Nobody, dropped |-> FALSE]

\* A prompt waits for queued forks, then writes an export, or reads its input, has
\* the turn admitted, waits for its end and flushes the updates it caused.
PromptPhases == {"none", "quiet", "exporting", "reading", "admitting", "running",
                 "flushing", "over"}
Holding      == {"reading", "admitting", "running", "flushing"}
ForkPhases   == {"none", "queued", "waiting", "working", "over"}
Turns        == {"none", "posted", "running", "stopped", "failed", "ended"}
Answers      == {"none", "cancelled", "ended", "error"}

PromptOver(p) == p # Nobody => prompt[p].phase = "over"
ForkOver(f)   == f # Nobody => fork[f].phase = "over"
Stopped(p)    == prompt[p].dropped \/ prompt[p].aborted

PromptInit ==
  /\ prompt = [p \in Prompts |-> NoPrompt] /\ active = Nobody /\ promptDone = Nobody
  /\ fork = [f \in Forks |-> NoFork] /\ forkTail = Nobody
  /\ turn = [p \in Prompts |-> "none"] /\ session = "open" /\ drops = 0

Answered(p, answer) ==
  [prompt EXCEPT ![p] = [NoPrompt EXCEPT !.phase = "over", !.answer = answer,
                                         !.aborted = prompt[p].aborted]]

ForkAnswered(f) == [fork EXCEPT ![f] = [NoFork EXCEPT !.phase = "over"]]

\* finally: the session is free again, and whoever waits for promptDone is told.
Freed(p) == IF prompt[p].phase \in Holding THEN Nobody ELSE active

\* A handler that ends, by its own result or by what it threw: an abort it was told
\* of makes either a cancellation.
Ends(p, answer) ==
  /\ prompt' = Answered(p, IF prompt[p].phase \in Holding /\ Stopped(p)
                             THEN "cancelled" ELSE answer)
  /\ active' = Freed(p)

-----------------------------------------------------------------------------
\* Mutant: forks wait for a prompt that still waits for forks.
Announced_Early(p) == p

\* promptDone, while a prompt waits: forks wait for none but the prompt before.
Announced(p) == promptDone

\* session/prompt: refused while another prompt has the session, and otherwise it
\* waits for the forks queued by now.
PromptArrives(p, export) ==
  /\ prompt[p].phase = "none" /\ session # "closed"
  /\ \A q \in Prompts : q < p => prompt[q].phase # "none"
  /\ prompt' = IF active = Nobody
                 THEN [prompt EXCEPT ![p].phase = "quiet", ![p].barrier = forkTail,
                                     ![p].export = export]
                 ELSE Answered(p, "error")
  /\ promptDone' = Announced(p)
  /\ UNCHANGED <<active, fork, forkTail, turn, session, drops>>

\* A fork was queued behind the one it waited for.
WaitsAgain(p) ==
  /\ prompt[p].phase = "quiet" /\ ForkOver(prompt[p].barrier) /\ prompt[p].barrier # forkTail
  /\ ~prompt[p].dropped
  /\ prompt' = [prompt EXCEPT ![p].barrier = forkTail]
  /\ UNCHANGED <<active, promptDone, fork, forkTail, turn, session, drops>>

\* Mutant: the last fork seen is over, whatever was queued behind it.
Quiet_Once(p) == prompt[p].phase = "quiet" /\ ForkOver(prompt[p].barrier)

Quiet(p) ==
  /\ prompt[p].phase = "quiet" /\ ForkOver(prompt[p].barrier) /\ prompt[p].barrier = forkTail

\* The session closed, or another prompt has it.
Refused(p) == session # "open" \/ (~prompt[p].export /\ active # Nobody)

QuietRefused(p) ==
  /\ Quiet(p) /\ Refused(p) /\ Ends(p, "error")
  /\ UNCHANGED <<promptDone, fork, forkTail, turn, session, drops>>

StartsExport(p) ==
  /\ Quiet(p) /\ ~Refused(p) /\ prompt[p].export
  /\ prompt' = [prompt EXCEPT ![p].phase = "exporting"]
  /\ UNCHANGED <<active, promptDone, fork, forkTail, turn, session, drops>>

StartsPrompt(p) ==
  /\ Quiet(p) /\ ~Refused(p) /\ ~prompt[p].export
  /\ prompt' = [prompt EXCEPT ![p].phase = "reading"]
  /\ active' = p /\ promptDone' = p
  /\ UNCHANGED <<fork, forkTail, turn, session, drops>>

\* The wait for forks ends as soon as the request or the connection is cancelled.
GivesUpWaiting(p) ==
  /\ prompt[p].phase = "quiet" /\ prompt[p].dropped /\ Ends(p, "error")
  /\ UNCHANGED <<promptDone, fork, forkTail, turn, session, drops>>

\* An export is written and shown whatever is cancelled meanwhile.
ExportEnds(p, answer) ==
  /\ prompt[p].phase = "exporting" /\ Ends(p, answer)
  /\ UNCHANGED <<promptDone, fork, forkTail, turn, session, drops>>

\* The input cannot be read, or reading it was cancelled.
ReadingFails(p) ==
  /\ prompt[p].phase = "reading" /\ Ends(p, "error")
  /\ UNCHANGED <<promptDone, fork, forkTail, turn, session, drops>>

\* The input is read, and no abort has come: the runtime gets it.
Admits(p) ==
  /\ prompt[p].phase = "reading" /\ ~Stopped(p)
  /\ prompt' = [prompt EXCEPT ![p].phase = "admitting"]
  /\ turn' = [turn EXCEPT ![p] = "posted"]
  /\ UNCHANGED <<active, promptDone, fork, forkTail, session, drops>>

\* accepted, then settled.
Hears(p) == turn[p] # "posted"

HearsAdmission(p) ==
  /\ prompt[p].phase = "admitting" /\ Hears(p)
  /\ IF turn[p] \in {"running", "stopped", "ended"}
       THEN prompt' = [prompt EXCEPT ![p].phase = "running"] /\ UNCHANGED active
       ELSE Ends(p, "error")
  /\ UNCHANGED <<promptDone, fork, forkTail, turn, session, drops>>

HearsEnd(p) ==
  /\ prompt[p].phase = "running" /\ turn[p] \in {"stopped", "failed", "ended"}
  /\ prompt' = [prompt EXCEPT ![p].phase = "flushing"]
  /\ UNCHANGED <<active, promptDone, fork, forkTail, turn, session, drops>>

Outcome(p) ==
  IF prompt[p].aborted \/ turn[p] = "stopped" THEN "cancelled"
  ELSE IF turn[p] = "ended" THEN "ended" ELSE "error"

\* The updates are written: the answer.
PromptEnds(p) ==
  /\ prompt[p].phase = "flushing"
  /\ prompt' = Answered(p, Outcome(p)) /\ active' = Freed(p)
  /\ UNCHANGED <<promptDone, fork, forkTail, turn, session, drops>>

-----------------------------------------------------------------------------
\* The runtime: a turn starts or is refused, and it ends, stopped when an abort asks
\* for it; a close stops whatever the runtime has.
Turn(p, from, to) ==
  /\ turn[p] \in from /\ turn' = [turn EXCEPT ![p] = to]
  /\ UNCHANGED <<prompt, active, promptDone, fork, forkTail, session, drops>>

TurnStarts(p) == session = "open" /\ Turn(p, {"posted"}, "running")
TurnFails(p)  == Turn(p, {"posted", "running"}, "failed")
TurnEnds(p)   == Turn(p, {"running"}, "ended")
TurnStops(p)  ==
  \/ prompt[p].aborted /\ Turn(p, {"running"}, "stopped")
  \/ session # "open" /\ Turn(p, {"posted", "running"}, "stopped")

\* The runtime's close returns once no turn is left.
Closed ==
  /\ session = "closing" /\ \A p \in Prompts : turn[p] \notin {"posted", "running"}
  /\ session' = "closed"
  /\ UNCHANGED <<prompt, active, promptDone, fork, forkTail, turn, drops>>

-----------------------------------------------------------------------------
\* Cancellations.  A prompt that has the session listens; the runtime is told when
\* the turn has been handed to it.
Aborts(p) == [prompt EXCEPT ![p].aborted = TRUE]

\* session/cancel: to whichever prompt has the session, if any.
CancelSession ==
  /\ session # "closed" /\ active # Nobody /\ ~prompt[active].aborted
  /\ prompt' = Aborts(active)
  /\ UNCHANGED <<active, promptDone, fork, forkTail, turn, session, drops>>

\* $/cancel_request of a prompt.
CancelPrompt(p) ==
  /\ drops < MaxDrops /\ drops' = drops + 1
  /\ prompt[p].phase \notin {"none", "over"} /\ ~prompt[p].dropped
  /\ prompt' = [prompt EXCEPT ![p].dropped = TRUE,
                              ![p].aborted = @ \/ prompt[p].phase \in Holding]
  /\ UNCHANGED <<active, promptDone, fork, forkTail, turn, session>>

\* session/close, a takeover by another connection, or the end of this one.
CloseSession ==
  /\ session = "open" /\ session' = "closing"
  /\ prompt' = IF active = Nobody THEN prompt ELSE Aborts(active)
  /\ UNCHANGED <<active, promptDone, fork, forkTail, turn, drops>>

-----------------------------------------------------------------------------
\* afterPrompt: a fork queues behind the forks before it, ...
ForkArrives(f) ==
  /\ fork[f].phase = "none" /\ session = "open"
  /\ \A g \in Forks : g < f => fork[g].phase # "none"
  /\ fork' = [fork EXCEPT ![f].phase = "queued", ![f].after = forkTail]
  /\ forkTail' = f
  /\ UNCHANGED <<prompt, active, promptDone, turn, session, drops>>

\* ... then it waits for the prompt that has the session then, ...
ForkWaits(f) ==
  /\ fork[f].phase = "queued" /\ ForkOver(fork[f].after)
  /\ fork' = IF fork[f].dropped THEN ForkAnswered(f)
             ELSE [fork EXCEPT ![f].phase = "waiting", ![f].until = promptDone]
  /\ UNCHANGED <<prompt, active, promptDone, forkTail, turn, session, drops>>

\* ... and runs, unless its parent closed.
ForkWorks(f) ==
  /\ fork[f].phase = "waiting" /\ PromptOver(fork[f].until)
  /\ fork' = IF fork[f].dropped \/ session # "open" THEN ForkAnswered(f)
             ELSE [fork EXCEPT ![f].phase = "working"]
  /\ UNCHANGED <<prompt, active, promptDone, forkTail, turn, session, drops>>

\* The branch is made and opened, or one of both failed.
ForkEnds(f) ==
  /\ fork[f].phase = "working"
  /\ fork' = ForkAnswered(f)
  /\ UNCHANGED <<prompt, active, promptDone, forkTail, turn, session, drops>>

\* A cancelled fork is answered at once; one that has not begun gives up when it is
\* its turn to wait or to run, and one that runs runs on.
CancelFork(f) ==
  /\ drops < MaxDrops /\ drops' = drops + 1
  /\ fork[f].phase \notin {"none", "over"} /\ ~fork[f].dropped
  /\ fork' = IF fork[f].phase = "waiting" THEN ForkAnswered(f)
             ELSE [fork EXCEPT ![f].dropped = TRUE]
  /\ UNCHANGED <<prompt, active, promptDone, forkTail, turn, session>>

-----------------------------------------------------------------------------
PromptSteps(p) ==
  \/ WaitsAgain(p) \/ QuietRefused(p) \/ StartsExport(p) \/ StartsPrompt(p)
  \/ GivesUpWaiting(p) \/ (\E a \in {"ended", "error"} : ExportEnds(p, a))
  \/ ReadingFails(p) \/ Admits(p) \/ HearsAdmission(p) \/ HearsEnd(p) \/ PromptEnds(p)

TurnSteps(p) == TurnStarts(p) \/ TurnFails(p) \/ TurnEnds(p) \/ TurnStops(p)

ForkSteps(f) == ForkWaits(f) \/ ForkWorks(f) \/ ForkEnds(f)

PromptNext ==
  \/ \E p \in Prompts : \/ \E export \in BOOLEAN : PromptArrives(p, export)
                        \/ CancelPrompt(p) \/ PromptSteps(p) \/ TurnSteps(p)
  \/ \E f \in Forks : ForkArrives(f) \/ CancelFork(f) \/ ForkSteps(f)
  \/ CancelSession \/ CloseSession \/ Closed

\* A prompt, a turn and a fork that can go on do.  They are bounded, so that it is
\* enough that one of them does.
PromptProgress ==
  (\E p \in Prompts : PromptSteps(p) \/ TurnSteps(p)) \/ (\E f \in Forks : ForkSteps(f))

-----------------------------------------------------------------------------
PromptTypeOK ==
  /\ prompt \in [Prompts -> [phase : PromptPhases, barrier : Forks \cup {Nobody},
                             export : BOOLEAN, dropped : BOOLEAN, aborted : BOOLEAN,
                             answer : Answers]]
  /\ active \in Prompts \cup {Nobody} /\ promptDone \in Prompts \cup {Nobody}
  /\ fork \in [Forks -> [phase : ForkPhases, after : Forks \cup {Nobody},
                         until : Prompts \cup {Nobody}, dropped : BOOLEAN]]
  /\ forkTail \in Forks \cup {Nobody} /\ turn \in [Prompts -> Turns]
  /\ session \in {"open", "closing", "closed"} /\ drops \in 0..MaxDrops

\* The check for another prompt is made before a wait and again after it: two
\* prompts that waited for the same fork do not both get the session, and a prompt
\* that is answered leaves no turn behind.
OnePrompt ==
  \A p \in Prompts :
    /\ prompt[p].phase \in Holding => active = p
    /\ turn[p] \in {"posted", "running"} => prompt[p].phase \in Holding

\* A fork takes its parent at a boundary: while it runs no turn of the parent does,
\* neither one it waited for nor one that came while it waited.
ForksAtRest ==
  (\E f \in Forks : fork[f].phase = "working")
     => \A p \in Prompts : turn[p] \notin {"posted", "running"}

\* What reached a prompt that has the session is answered as cancelled, however
\* early it came and however the turn ended meanwhile.
CancelsAreAnswered ==
  \A p \in Prompts : prompt[p].aborted /\ PromptOver(p) => prompt[p].answer = "cancelled"

\* Prompts are answered, however prompts and forks wait for each other: again and
\* again none is under way.
PromptsAreAnswered == []<>(\A p \in Prompts : prompt[p].phase = "none" \/ PromptOver(p))
=============================================================================

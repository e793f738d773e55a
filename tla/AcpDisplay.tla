----------------------------- MODULE AcpDisplay ------------------------------
(***************************************************************************)
(* What the client of one open session is shown (rpc/updates.ts, core.ts,   *)
(* config.ts, permission.ts, session-usage.ts).  The runtime commits        *)
(* records, streams text, runs tools and changes its selected policy; every *)
(* event of it is observed a little later, in order, and the adapter sends  *)
(* what is new.  Updates are written one after another: sent counts those   *)
(* queued, written those the client has.                                    *)
(***************************************************************************)
EXTENDS Integers, Sequences, SequencesExt, FiniteSets

CONSTANTS Completions, \* completions of one turn, in order
          Calls,       \* tool calls of the turn
          MaxChanges   \* bound: changes of the selected policy, and of the accounting

\* A completion's final text; the stream gives it piece by piece.
Whole == <<1, 2>>

VARIABLES
  stage,     \* completions: not begun, streaming, settled or failed
  emitted,   \* pieces streamed of each completion
  plain,     \* completions whose decoder leaves the streamed text as it is
  records,   \* journal: completions settled, in order
  observing, \* snapshots that the runtime has yet to show its observer
  streamed,  \* entry: what a completion has shown so far
  revision,  \* entry: records that have been shown
  shown,     \* text sent for each completion
  call,      \* tool calls: what their card shows, and the update that showed it
  asking,    \* permission requests: the update they wait for, or that they are out
  sent, written,
  turnEnds,  \* session/prompt: running, flushing behind an update, or answered
  selected,  \* runtime: the selected policy
  projected, \* entry: the policy last projected
  accounts,  \* the environment's accounting: how often it changed
  reading,   \* usage: the read in flight
  readAt,    \* usage: the revision read last
  used       \* usage: what was published last

textVars    == <<stage, emitted, plain, records, streamed, revision, shown>>
callVars    == <<call, asking>>
currentVars == <<selected, projected, accounts, reading, readAt, used>>
displayVars == <<textVars, callVars, currentVars, observing, sent, written, turnEnds>>

NoRead == [at |-> 0, value |-> 0, out |-> FALSE]

DisplayInit ==
  /\ stage = [c \in Completions |-> "none"] /\ emitted = [c \in Completions |-> 0]
  /\ plain \in SUBSET Completions
  /\ records = << >> /\ observing = << >>
  /\ streamed = [c \in Completions |-> << >>] /\ revision = 0
  /\ shown = [c \in Completions |-> << >>]
  /\ call = [t \in Calls |-> [status |-> "none", at |-> 0]]
  /\ asking = [t \in Calls |-> [phase |-> "none", at |-> 0]]
  /\ sent = 0 /\ written = 0 /\ turnEnds = [phase |-> "running", at |-> 0]
  /\ selected = 0 /\ projected = 0
  /\ accounts = 0 /\ reading = NoRead /\ readAt = 0 /\ used = 0

\* What the environment reads: the session and its own accounting.
Usage(n) == n + accounts

-----------------------------------------------------------------------------
\* observe: what of the final text has not been streamed; a decoder that changed the
\* text leaves what was shown.
\* Mutant: the whole text, whatever was streamed.
Rest_Whole(c) == Whole

Rest(c) ==
  CASE streamed[c] = << >>                       -> Whole
    [] streamed[c] # << >> /\ c \in plain        -> SubSeq(Whole, Len(streamed[c]) + 1, 2)
    [] OTHER                                     -> << >>

New(n) == {records[i] : i \in (revision + 1)..n}

Seen(n) == IF n > revision THEN n ELSE revision

\* usage.refresh: a newer state or a notification replaces the read in flight.
Rereads(force) == force \/ Len(records) # readAt

Refreshes(force, value) ==
  IF Rereads(force)
    THEN /\ reading' = [at |-> Len(records), value |-> value, out |-> TRUE]
         /\ readAt' = Len(records)
    ELSE UNCHANGED <<reading, readAt>>

\* project: the policy selected now, even if the journal has yet to record it.
Projects(s) == selected

\* observe: usage, policy and the text of completions that settled.
Observes(s) ==
  /\ Refreshes(FALSE, Usage(Len(records)))
  /\ projected' = Projects(s)
  /\ shown' = [c \in Completions |-> IF c \in New(s.revision) THEN shown[c] \o Rest(c)
                                     ELSE shown[c]]
  /\ streamed' = [c \in Completions |-> IF c \in New(s.revision) THEN << >> ELSE streamed[c]]
  /\ revision' = Seen(s.revision)
  /\ sent' = sent + Cardinality({c \in New(s.revision) : Rest(c) # << >>})
                  + (IF projected' # projected THEN 1 ELSE 0)

\* The runtime's state as an event leaves it.  No record of this turn is a policy's,
\* and a selection made during a turn is not in it.
Snapshot(rs) == [revision |-> Len(rs), policy |-> 0]

Observed ==
  /\ observing # << >> /\ Observes(Head(observing)) /\ observing' = Tail(observing)
  /\ UNCHANGED <<stage, emitted, plain, records, callVars, written, turnEnds, selected,
                 accounts, used>>

-----------------------------------------------------------------------------
\* The turn: a completion streams, ...
Begins(c) ==
  /\ stage[c] = "none" /\ \A d \in Completions : d < c => stage[d] = "settled"
  /\ stage' = [stage EXCEPT ![c] = "streaming"]
  /\ UNCHANGED <<emitted, plain, records, streamed, revision, shown, callVars, currentVars,
                 observing, sent, written, turnEnds>>

\* streamUpdate.
Streams(c) ==
  /\ stage[c] = "streaming" /\ emitted[c] < Len(Whole)
  /\ emitted' = [emitted EXCEPT ![c] = @ + 1]
  /\ streamed' = [streamed EXCEPT ![c] = Append(@, emitted'[c])]
  /\ shown' = [shown EXCEPT ![c] = Append(@, emitted'[c])]
  /\ sent' = sent + 1
  /\ UNCHANGED <<stage, plain, records, revision, callVars, currentVars, observing, written,
                 turnEnds>>

\* ... and settles with a record that commits, ...
Settles(c) ==
  /\ stage[c] = "streaming"
  /\ stage' = [stage EXCEPT ![c] = "settled"]
  /\ records' = Append(records, c) /\ observing' = Append(observing, Snapshot(records'))
  /\ UNCHANGED <<emitted, plain, streamed, revision, shown, callVars, currentVars, sent,
                 written, turnEnds>>

\* ... or fails.
Fails(c) ==
  /\ stage[c] = "streaming"
  /\ stage' = [stage EXCEPT ![c] = "failed"]
  /\ streamed' = [streamed EXCEPT ![c] = << >>]
  /\ observing' = Append(observing, Snapshot(records))
  /\ UNCHANGED <<emitted, plain, records, revision, shown, callVars, currentVars, sent,
                 written, turnEnds>>

\* toolUpdate: a card opens, asks, runs and ends with the batch of a completion.
CardOpens(t) ==
  /\ call[t].status = "none" /\ \E c \in Completions : stage[c] = "settled"
  /\ turnEnds.phase = "running" /\ sent' = sent + 1
  /\ call' = [call EXCEPT ![t] = [status |-> "pending", at |-> sent']]
  /\ UNCHANGED <<textVars, asking, currentVars, observing, written, turnEnds>>

CardEnds(t) ==
  /\ call[t].status = "pending" /\ asking[t].phase \in {"none", "answered"}
  /\ sent' = sent + 1 /\ call' = [call EXCEPT ![t].status = "ended"]
  /\ UNCHANGED <<textVars, asking, currentVars, observing, written, turnEnds>>

\* requestPermission waits until what was sent before it is written.
Asks(t) ==
  /\ call[t].status = "pending" /\ asking[t].phase = "none"
  /\ asking' = [asking EXCEPT ![t] = [phase |-> "flushing", at |-> sent]]
  /\ UNCHANGED <<textVars, call, currentVars, observing, sent, written, turnEnds>>

\* core.flushed of the time it was asked.
Flushed(at) == written >= at

AskedOut(t) ==
  /\ asking[t].phase = "flushing" /\ Flushed(asking[t].at)
  /\ asking' = [asking EXCEPT ![t].phase = "out"]
  /\ UNCHANGED <<textVars, call, currentVars, observing, sent, written, turnEnds>>

\* The client answers, or the wait is cancelled at either of its two places.
AskEnds(t) ==
  /\ asking[t].phase \in {"flushing", "out"}
  /\ asking' = [asking EXCEPT ![t].phase = "answered"]
  /\ UNCHANGED <<textVars, call, currentVars, observing, sent, written, turnEnds>>

\* One update more reaches the client.
Written ==
  /\ written < sent /\ written' = written + 1
  /\ UNCHANGED <<textVars, callVars, currentVars, observing, sent, turnEnds>>

-----------------------------------------------------------------------------
\* session/prompt: its turn is over, and it shows the runtime's state itself before
\* it waits for the client to have it all.
TurnOver == \A c \in Completions : stage[c] \in {"settled", "failed"}
                                   \/ \E d \in Completions : d < c /\ stage[d] = "failed"

LastLook(n) == Observes(Snapshot(records)) /\ UNCHANGED <<stage, emitted, plain, records>>

PromptFlushes ==
  /\ turnEnds.phase = "running" /\ TurnOver
  /\ \A t \in Calls : call[t].status # "pending"
  /\ LastLook(Len(records))
  /\ turnEnds' = [phase |-> "flushing", at |-> sent']
  /\ UNCHANGED <<callVars, observing, written, selected, accounts, used>>

\* resetTurn, and the answer.
PromptAnswers ==
  /\ turnEnds.phase = "flushing" /\ Flushed(turnEnds.at)
  /\ turnEnds' = [turnEnds EXCEPT !.phase = "answered"]
  /\ streamed' = [c \in Completions |-> << >>]
  /\ UNCHANGED <<stage, emitted, plain, records, revision, shown, callVars, currentVars,
                 observing, sent, written>>

-----------------------------------------------------------------------------
\* updatePolicy of a client while the turn runs: the runtime selects, and observes.
Selects(v) ==
  /\ v > selected
  /\ selected' = v /\ observing' = Append(observing, Snapshot(records))
  /\ UNCHANGED <<textVars, callVars, projected, accounts, reading, readAt, used, sent, written,
                 turnEnds>>

\* The environment's accounting changes and says so.
AccountsChange ==
  /\ accounts < MaxChanges /\ accounts' = accounts + 1
  /\ Refreshes(TRUE, Usage(Len(records)) + 1)
  /\ UNCHANGED <<textVars, callVars, selected, projected, used, observing, sent, written,
                 turnEnds>>

\* A read that ends late is dropped: the session has moved on, and is read again.
Current == reading.at = Len(records)

UsageRead ==
  /\ reading.out /\ reading' = NoRead
  /\ IF Current /\ reading.value # used
       THEN used' = reading.value /\ sent' = sent + 1
       ELSE UNCHANGED <<used, sent>>
  /\ UNCHANGED <<textVars, callVars, selected, projected, accounts, readAt, observing, written,
                 turnEnds>>

DisplayNext ==
  \/ Observed \/ Written \/ PromptFlushes \/ PromptAnswers \/ AccountsChange \/ UsageRead
  \/ \E c \in Completions : Begins(c) \/ Streams(c) \/ Settles(c) \/ Fails(c)
  \/ \E t \in Calls : CardOpens(t) \/ CardEnds(t) \/ Asks(t) \/ AskedOut(t) \/ AskEnds(t)
  \/ \E v \in 1..MaxChanges : Selects(v)

DisplaySpec == DisplayInit /\ [][DisplayNext]_displayVars

-----------------------------------------------------------------------------
DisplayTypeOK ==
  /\ stage \in [Completions -> {"none", "streaming", "settled", "failed"}]
  /\ emitted \in [Completions -> 0..2] /\ plain \subseteq Completions
  /\ revision \in 0..Len(records) /\ written \in 0..sent
  /\ \A c \in Completions : streamed[c] \in Seq({1, 2})
  /\ call \in [Calls -> [status : {"none", "pending", "ended"}, at : 0..sent]]
  /\ asking \in [Calls -> [phase : {"none", "flushing", "out", "answered"}, at : 0..sent]]
  /\ turnEnds.phase \in {"running", "flushing", "answered"}
  /\ projected \in 0..MaxChanges /\ selected \in 0..MaxChanges
  /\ reading.at <= Len(records) /\ readAt <= Len(records)

\* A completion's text is shown once and in order, whether it was streamed in part,
\* in full or not at all, and however often and late its record is observed: by the
\* prompt's answer the client has it all.
TextIsShownOnce ==
  \A c \in Completions :
    /\ c \in plain => IsPrefix(shown[c], Whole)
    /\ c \notin plain => Len(shown[c]) <= Len(Whole)
    /\ turnEnds.phase = "answered" /\ stage[c] = "settled" /\ c \in plain => shown[c] = Whole

\* The client is asked about a call whose card it has, and its prompt is answered
\* when it has every update the turn caused.
AskedAfterShown ==
  /\ \A t \in Calls : asking[t].phase = "out" => call[t].at \in 1..written
  /\ turnEnds.phase = "answered" => turnEnds.at <= written

\* When nothing is under way the client has the policy that is selected and the
\* usage that is current, whatever changed while it was being read.
DisplayIsCurrent ==
  observing = << >> =>
    /\ projected = selected
    /\ ~reading.out => used = Usage(Len(records))
=============================================================================

----------------------------- MODULE ConsoleForms -----------------------------
(***************************************************************************)
(* The forms of the web console (console/Console.tsx) and the routes they    *)
(* post to (web/index.ts, server/session-host.ts): several browsers compose *)
(* inputs with attachments for one session, and change its selection, while  *)
(* requests fail on their way, are answered late or not at all.  The events  *)
(* pushed to a browser are those of WebConsole; notices and previews are     *)
(* left out.                                                                *)
(***************************************************************************)
EXTENDS Integers, Sequences, FiniteSets

CONSTANTS Browsers,
          Attachments,
          Sends,    \* submissions, numbered; bound
          Thinking, \* model -> the thinking levels it can be asked for
          MaxEdits, \* bound: what users type and attach
          MaxChoices, \* bound: what users choose in the selection form
          MaxApplies \* bound: selections applied

Models == DOMAIN Thinking
Nobody == 0
Empty  == [text |-> 0, files |-> {}]

VARIABLES
  composer,  \* what each browser's user is composing; texts are numbered, 0 is none
  waiting,   \* awaitingReceipt
  overtaken, \* browsers told to wait no longer while a submission was out
  send,      \* the submissions
  blobs,     \* the files the server has stored
  inputs,    \* the submissions accepted into the session, in order
  receipts,  \* receipt events on their way to each browser
  selected,  \* selectedPolicy of the session
  news,      \* selections on their way to each browser, in snapshots
  form,      \* the selection form of each browser
  shown,     \* shownSelection: the selection a browser last took over
  edited,    \* browsers whose form was edited since
  count      \* edits, choices and applies, counted

formVars == <<composer, waiting, overtaken, send, blobs, inputs, receipts, selected, news,
              form, shown, edited, count>>
composing == <<composer, waiting, overtaken, send, blobs, inputs, receipts>>
selecting == <<selected, news, form, shown, edited>>

NoSend == [by |-> Nobody, at |-> "unused", what |-> Empty, left |-> {}, accepted |-> FALSE]

FormsInit ==
  /\ composer = [b \in Browsers |-> Empty] /\ waiting = {} /\ overtaken = {}
  /\ send = [s \in Sends |-> NoSend] /\ blobs = {} /\ inputs = << >>
  /\ receipts = [b \in Browsers |-> 0]
  /\ \E m \in Models : \E t \in Thinking[m] : selected = [model |-> m, thinking |-> t]
  /\ news = [b \in Browsers |-> << >>] /\ form = [b \in Browsers |-> selected]
  /\ shown = [b \in Browsers |-> selected] /\ edited = {}
  /\ count = [edits |-> 0, choices |-> 0, applies |-> 0]

Out(s) == send[s].at \in {"uploading", "posted", "answered"}
OutOf(b) == {s \in Sends : send[s].by = b /\ Out(s)}

-----------------------------------------------------------------------------
(* Composing and sending.                                                   *)

\* The text may be edited while a submission is out.
Composes(b) ==
  /\ count.edits < MaxEdits /\ count' = [count EXCEPT !.edits = @ + 1]
  /\ \/ composer' = [composer EXCEPT ![b].text = count'.edits]
     \/ \E f \in Attachments : composer' = [composer EXCEPT ![b].files = @ \union {f}]
  /\ UNCHANGED <<waiting, overtaken, send, blobs, inputs, receipts, selecting>>

\* send: it takes what is composed now, and uploads the files one after the other.
Submits(b, s) ==
  /\ b \notin waiting /\ composer[b] # Empty
  /\ send[s].at = "unused" /\ \A r \in Sends : r < s => send[r].at # "unused"
  /\ waiting' = waiting \union {b}
  /\ send' = [send EXCEPT ![s] = [by |-> b, at |-> "uploading", what |-> composer[b],
                                  left |-> composer[b].files, accepted |-> FALSE]]
  /\ UNCHANGED <<composer, overtaken, blobs, inputs, receipts, selecting, count>>

\* The submission ends without an answer: what was composed stays.
Fails(s) ==
  /\ send' = [send EXCEPT ![s].at = "failed"] /\ waiting' = waiting \ {send[s].by}
  /\ UNCHANGED <<composer, overtaken, inputs, receipts, selecting, count>>

\* storeBlob answers, or fails; the console goes on only when it did.
Uploads(s, f, ok) ==
  IF ok THEN /\ send' = [send EXCEPT ![s].left = @ \ {f}]
             /\ UNCHANGED <<composer, waiting, overtaken, inputs, receipts, selecting, count>>
        ELSE Fails(s)

Attaches(s) ==
  \E f \in send[s].left, stored, ok \in BOOLEAN :
    /\ send[s].at = "uploading" /\ (ok => stored)
    /\ blobs' = IF stored THEN blobs \union {f} ELSE blobs
    /\ Uploads(s, f, ok)

Posts(s) ==
  /\ send[s].at = "uploading" /\ send[s].left = {}
  /\ send' = [send EXCEPT ![s].at = "posted"]
  /\ UNCHANGED <<composer, waiting, overtaken, blobs, inputs, receipts, selecting, count>>

\* admit: the receipt is published to every browser before the answer is sent.
Admits(s) ==
  /\ send[s].at = "posted"
  /\ \E accepted \in BOOLEAN :
       /\ send' = [send EXCEPT ![s].at = "answered", ![s].accepted = accepted]
       /\ inputs' = IF accepted THEN Append(inputs, s) ELSE inputs
  /\ receipts' = [b \in Browsers |-> receipts[b] + 1]
  /\ UNCHANGED <<composer, waiting, overtaken, blobs, selecting, count>>

\* The request is refused, or the answer lost.
LosesAnswer(s) == send[s].at \in {"posted", "answered"} /\ Fails(s) /\ UNCHANGED blobs

\* An accepted input clears the composer, with what was typed meanwhile.
Answered(s) ==
  LET b == send[s].by
  IN  /\ send[s].at = "answered" /\ send' = [send EXCEPT ![s].at = "done"]
      /\ waiting' = waiting \ {b}
      /\ composer' = IF send[s].accepted THEN [composer EXCEPT ![b] = Empty] ELSE composer
      /\ UNCHANGED <<overtaken, blobs, inputs, receipts, selecting, count>>

\* Any receipt of the session ends the wait, be it another browser's.
ReadsReceipt(b) ==
  /\ receipts[b] > 0 /\ receipts' = [receipts EXCEPT ![b] = @ - 1]
  /\ waiting' = waiting \ {b}
  /\ overtaken' = IF OutOf(b) # {} THEN overtaken \union {b} ELSE overtaken
  /\ UNCHANGED <<composer, send, blobs, inputs, selecting, count>>

-----------------------------------------------------------------------------
(* The selection.                                                           *)

\* applyModel: a thinking level the chosen model does not have is replaced.
Fitting(m, t) == IF t \in Thinking[m] THEN {t}
                 ELSE IF Thinking[m] = {"off"} THEN {"off"} ELSE Thinking[m] \ {"off"}

Chooses(b) ==
  /\ count.choices < MaxChoices /\ count' = [count EXCEPT !.choices = @ + 1]
  /\ \/ \E m \in Models : \E t \in Fitting(m, form[b].thinking) :
          form' = [form EXCEPT ![b] = [model |-> m, thinking |-> t]]
     \/ \E t \in Thinking[form[b].model] : form' = [form EXCEPT ![b].thinking = t]
  /\ edited' = edited \union {b} /\ UNCHANGED <<composing, selected, news, shown>>

\* applyPolicy: the session selects what the form shows, or refuses; it is told to every
\* browser.
Applies(b) ==
  /\ count.applies < MaxApplies /\ count' = [count EXCEPT !.applies = @ + 1]
  /\ selected' \in {selected, form[b]}
  /\ news' = [c \in Browsers |-> Append(news[c], selected')]
  /\ receipts' = [c \in Browsers |-> receipts[c] + 1]
  /\ UNCHANGED <<composer, waiting, overtaken, send, blobs, inputs, form, shown, edited>>

\* Other records are observed too, and show the selection again.
Observes ==
  /\ \A c \in Browsers : Len(news[c]) < MaxApplies
  /\ news' = [c \in Browsers |-> Append(news[c], selected)]
  /\ UNCHANGED <<composing, selected, form, shown, edited, count>>

\* A snapshot changes the form only when its selection is another than the last.
ReadsNews(b) ==
  /\ news[b] # << >> /\ news' = [news EXCEPT ![b] = Tail(@)]
  /\ LET new == Head(news[b])
     IN  IF new = shown[b] THEN UNCHANGED <<form, shown, edited>>
         ELSE /\ form' = [form EXCEPT ![b] = new] /\ shown' = [shown EXCEPT ![b] = new]
              /\ edited' = edited \ {b}
  /\ UNCHANGED <<composing, selected, count>>

FormsNext ==
  \/ Observes
  \/ \E b \in Browsers :
       \/ Composes(b) \/ ReadsReceipt(b) \/ Chooses(b) \/ Applies(b) \/ ReadsNews(b)
       \/ \E s \in Sends : Submits(b, s)
  \/ \E s \in Sends : Attaches(s) \/ Posts(s) \/ Admits(s) \/ LosesAnswer(s) \/ Answered(s)

FormsSpec == FormsInit /\ [][FormsNext]_formVars

-----------------------------------------------------------------------------
FormsTypeOK ==
  /\ waiting \subseteq Browsers /\ blobs \subseteq Attachments
  /\ \A i \in DOMAIN inputs : inputs[i] \in Sends

\* An input that was accepted has all its attachments stored (send's check of each
\* upload), and what a browser submitted is not accepted twice.
InputsAreWhole ==
  /\ \A i \in DOMAIN inputs : send[inputs[i]].what.files \subseteq blobs
  /\ \A i, j \in DOMAIN inputs : inputs[i] = inputs[j] => i = j

\* One submission of a browser is out at a time, unless a receipt that was another's, or
\* that came ahead of the answer, ended the wait (awaitingReceipt).
OneIsOut == \A b \in Browsers : b \notin overtaken => Cardinality(OutOf(b)) <= 1

\* A browser that has read its events and was not edited since shows the session's
\* selection, and one that can be applied (the effect on shownSelection, applyModel).
FormsAreCurrent ==
  \A b \in Browsers :
    /\ news[b] = << >> /\ b \notin edited => form[b] = selected
    /\ form[b].thinking \in Thinking[form[b].model]
=============================================================================

------------------------------- MODULE ChatView -------------------------------
(***************************************************************************)
(* The chat view of the VS Code extension (ui/ChatWebviewProvider.ts): the  *)
(* extension posts what the active session does, the page shows it as a     *)
(* list of messages and asks the extension to render those that are         *)
(* complete.  Both run on their own, and their messages cross; sessions are *)
(* opened, loaded and left meanwhile (extension.ts, SessionManager.ts).     *)
(* Thoughts, tool cards, plans, error notices, pickers and the banner are   *)
(* left out.                                                                *)
(***************************************************************************)
EXTENDS Integers, Sequences, SequencesExt

CONSTANTS Sessions,
          Stored,     \* session -> its turns from before: texts, each a number of chunks
          MaxChunks,  \* bound: chunks of a turn's text
          MaxActs     \* bound: what the user does: prompts, moves to a session, closes the view

None == 0

VARIABLES
  active,  \* SessionManager.activeSessionId
  turn,    \* the turn of each session that runs, and what it has said
  log,     \* the texts of each session's ended turns
  replay,  \* the session being loaded, and what is left to replay
  toView,  \* messages posted to the page
  toHost,  \* messages the page posted
  view,    \* the page
  kept,    \* vscode.setState: what outlives the page
  due,     \* what each session said while it was the active one, since the page was last
           \* told to wipe
  calm,    \* no session was left, and no view closed, in the middle of something
  acts     \* what the user did, counted

chatVars == <<active, turn, log, replay, toView, toHost, view, kept, due, calm, acts>>

NoReplay == [session |-> None, left |-> << >>]
NoTurn   == [on |-> FALSE, said |-> << >>]

Assistants(history) == SelectSeq(history, LAMBDA m : m.role = "assistant")
TextsOf(history)    == [i \in DOMAIN Assistants(history) |-> Assistants(history)[i].text]

\* The page: whether a prompt runs, the history and the elements of the assistant's
\* messages, the text being said, the session of the banner, the input.
Page(history, shown) ==
  [live |-> TRUE, processing |-> FALSE, history |-> history, saying |-> << >>,
   shown |-> shown, enabled |-> shown # None,
   elements |-> [i \in 1..Len(Assistants(history)) |->
                  [text |-> Assistants(history)[i].text, rendered |-> FALSE]]]

Said(s, t, k) == <<s, t, k>>
Old(s) == [t \in 1..Len(Stored[s]) |-> [k \in 1..Stored[s][t] |-> Said(s, t, k)]]

ChatInit ==
  /\ active = None /\ turn = [s \in Sessions |-> NoTurn] /\ log = [s \in Sessions |-> Old(s)]
  /\ replay = NoReplay /\ toView = << >> /\ toHost = << >>
  /\ view = Page(<< >>, None) /\ kept = [history |-> << >>, shown |-> None]
  /\ due = << >> /\ calm = TRUE /\ acts = 0

-----------------------------------------------------------------------------
(* The extension.                                                           *)

Msg(kind, s, text, items) == [kind |-> kind, session |-> s, text |-> text, items |-> items]
State(s)      == Msg("state", s, << >>, << >>)
Says(chunk)   == Msg("chunk", None, <<chunk>>, << >>)
Simple(kind)  == Msg(kind, None, << >>, << >>)

\* postMessage: nobody is told when there is no view.
Post(messages) == toView' = IF view.live THEN toView \o messages ELSE toView

\* The user does something.
Acts == acts < MaxActs /\ acts' = acts + 1

InTurn == \E s \in Sessions : turn[s].on
Quiet  == toView = << >> /\ toHost = << >>

\* Sessions change hands only in between: no turn runs, none is being loaded.
Moves(s) ==
  /\ Acts
  /\ active' = s /\ calm' = (calm /\ ~InTurn /\ replay = NoReplay)

\* disconnectAgent or a process that closed; a new conversation clears the chat too.
Leaves(cleared) ==
  /\ active # None /\ Moves(None)
  /\ Post(<<State(None)>> \o IF cleared THEN <<Simple("clearChat")>> ELSE << >>)
  /\ due' = IF cleared /\ view.live THEN << >> ELSE due
  /\ UNCHANGED <<turn, log, replay, toHost, view, kept>>

\* A session is created, resumed or shown again: what the page shows stays.
Opens(s) ==
  /\ s # active /\ Moves(s) /\ Post(<<State(s)>>)
  /\ UNCHANGED <<turn, log, replay, toHost, view, kept, due>>

\* loadSession, with the chat in focus: the session is active before it is replayed.
Loads(s) ==
  /\ view.live /\ s # active /\ ~turn[s].on /\ replay = NoReplay /\ Moves(s)
  /\ Post(<<State(s), Simple("loadSessionStart")>>)
  /\ due' = << >> /\ replay' = [session |-> s, left |-> log[s]]
  /\ UNCHANGED <<turn, log, toHost, view, kept>>

\* handleSessionUpdate: only the active session's updates are forwarded.
Forwards(s, messages) == Post(IF s = active THEN messages ELSE << >>)

\* What a session says is due on the page that is open while it is active.
Owes(s, chunks) == due' = IF s = active /\ view.live THEN due \o chunks ELSE due

\* The agent replays one turn: the user's message, then the assistant's text.
Replays ==
  LET s == replay.session  text == Head(replay.left)
      t == Len(log[s]) - Len(replay.left) + 1
  IN  /\ replay.left # << >>
      /\ Forwards(s, <<Msg("user", None, <<Said(s, t, 0)>>, << >>)>>
                       \o [k \in 1..Len(text) |-> Says(text[k])])
      /\ Owes(s, text) /\ replay' = [replay EXCEPT !.left = Tail(@)]
      /\ UNCHANGED <<active, turn, log, toHost, view, kept, calm, acts>>

Loaded ==
  /\ replay.session # None /\ replay.left = << >>
  /\ Post(<<Simple("loadSessionEnd"), State(active)>>) /\ replay' = NoReplay
  /\ UNCHANGED <<active, turn, log, toHost, view, kept, due, calm, acts>>

LoadFails ==
  /\ replay.session # None /\ replay' = NoReplay
  /\ active' = IF active = replay.session THEN None ELSE active
  /\ Post(<<Simple("loadSessionEnd"), State(active')>>)
  /\ UNCHANGED <<turn, log, toHost, view, kept, due, calm, acts>>

\* The active session's turn goes on, and so does one that was left.
Streams(s) ==
  /\ turn[s].on /\ Len(turn[s].said) < MaxChunks
  /\ LET chunk == Said(s, Len(log[s]) + 1, Len(turn[s].said) + 1)
     IN  /\ turn' = [turn EXCEPT ![s].said = Append(@, chunk)]
         /\ Forwards(s, <<Says(chunk)>>) /\ Owes(s, <<chunk>>)
  /\ UNCHANGED <<active, log, replay, toHost, view, kept, calm, acts>>

\* sendPrompt returns or throws: the end names no session, and is posted in any case.
TurnEnds(s) ==
  /\ turn[s].on
  /\ turn' = [turn EXCEPT ![s] = NoTurn] /\ log' = [log EXCEPT ![s] = Append(@, turn[s].said)]
  /\ Post(<<Simple("promptEnd")>>)
  /\ UNCHANGED <<active, replay, toHost, view, kept, due, calm, acts>>

\* onDidReceiveMessage.  A prompt goes to the session that is active by now; one that
\* is prompted already refuses it.
HandlesPrompt ==
  IF active = None THEN UNCHANGED <<toView, turn, calm>>
  ELSE IF turn[active].on
    THEN /\ Post(<<Simple("promptStart"), Simple("promptEnd")>>)
         /\ calm' = FALSE /\ UNCHANGED turn
    ELSE /\ Post(<<Simple("promptStart")>>)
         /\ turn' = [turn EXCEPT ![active].on = TRUE]
         /\ calm' = (calm /\ replay = NoReplay)

Handles ==
  /\ toHost # << >> /\ toHost' = Tail(toHost)
  /\ LET m == Head(toHost)
     IN  \/ m.kind = "sendPrompt" /\ HandlesPrompt
         \/ /\ m.kind = "renderMarkdown" /\ Post(<<[m EXCEPT !.kind = "markdownRendered"]>>)
            /\ UNCHANGED <<turn, calm>>
         \/ m.kind = "ready" /\ Post(<<State(active)>>) /\ UNCHANGED <<turn, calm>>
  /\ UNCHANGED <<active, log, replay, view, kept, due, acts>>

-----------------------------------------------------------------------------
(* The page.                                                                *)

Item(role, text)    == [role |-> role, text |-> text]

\* The text being said becomes a message of the history.
Committed(v) == IF v.saying = << >> THEN v.history
                ELSE Append(v.history, Item("assistant", v.saying))

Wiped(v) == [v EXCEPT !.history = << >>, !.elements = << >>, !.saying = << >>,
                      !.processing = FALSE]

\* The first chunk of a text makes its element, the others fill it.
Chunk(v, chunk) ==
  LET text == Append(v.saying, chunk)
      el   == [text |-> text, rendered |-> FALSE]
  IN  [v EXCEPT !.saying = text,
         !.elements = IF v.saying = << >> THEN Append(@, el) ELSE [@ EXCEPT ![Len(@)] = el]]

\* A replayed user message ends the assistant's; two in a row are one.
UserChunk(v, text) ==
  LET h == Committed(v)
  IN  [v EXCEPT !.saying = << >>,
         !.history = IF h # << >> /\ Last(h).role = "user"
                       THEN [h EXCEPT ![Len(h)].text = @ \o text]
                       ELSE Append(h, Item("user", text))]

\* markdownRendered: the assistant's messages before the one rendered are counted.
ElementOf(v, i) == Len(Assistants(SubSeq(v.history, 1, i - 1))) + 1

Rendered(v, item) ==
  LET e == ElementOf(v, item.index)
  IN  IF item.index \in DOMAIN v.history /\ v.history[item.index].role = "assistant"
           /\ e \in DOMAIN v.elements
        THEN [v EXCEPT !.elements[e] = [text |-> item.text, rendered |-> TRUE]]
        ELSE v

Ended(v) == [v EXCEPT !.history = Committed(v), !.processing = FALSE, !.saying = << >>]

\* How the page takes a message.
Shows(v, m) ==
  CASE m.kind = "state"  -> [v EXCEPT !.shown = m.session, !.enabled = m.session # None]
    [] m.kind = "promptStart" -> [v EXCEPT !.processing = TRUE, !.saying = << >>]
    [] m.kind = "promptEnd"   -> Ended(v)
    [] m.kind = "clearChat"   -> [Wiped(v) EXCEPT !.shown = None, !.enabled = FALSE]
    [] m.kind = "loadSessionStart"  -> [Wiped(v) EXCEPT !.enabled = FALSE]
    [] m.kind = "loadSessionEnd"    ->
         [v EXCEPT !.history = Committed(v), !.saying = << >>, !.enabled = TRUE]
    [] m.kind = "user"  -> UserChunk(v, m.text)
    [] m.kind = "chunk" -> Chunk(v, m.text[1])
    [] m.kind = "markdownRendered" -> FoldLeft(Rendered, v, m.items)

\* The assistant's messages of the history from one on, with their places in it.
ItemsFrom(history, i) ==
  SelectSeq([j \in 1..Len(history) |-> [index |-> j, text |-> history[j].text]],
            LAMBDA item : item.index >= i /\ history[item.index].role = "assistant")

\* renderMarkdown: what the page asks to be rendered, at the end of a turn and of a load.
Asks(items) == IF items = << >> THEN << >> ELSE <<Msg("renderMarkdown", None, << >>, items)>>

Requests(v, m) ==
  CASE m.kind = "promptEnd" ->
         Asks(IF v.saying = << >> THEN << >> ELSE ItemsFrom(Committed(v), Len(v.history) + 1))
    [] m.kind = "loadSessionEnd" -> Asks(ItemsFrom(Committed(v), 1))
    [] OTHER -> << >>

\* saveState; not every change of the history saves it.
Saves(v, w, m) ==
  IF \/ m.kind \in {"chunk", "promptStart", "markdownRendered"}
     \/ m.kind \in {"promptEnd", "loadSessionEnd"} /\ v.saying = << >>
     \/ m.kind = "user" /\ v.saying = << >> /\ Len(w.history) = Len(v.history)
    THEN kept
    ELSE [history |-> w.history, shown |-> w.shown]

Reads ==
  /\ view.live /\ toView # << >> /\ toView' = Tail(toView)
  /\ LET m == Head(toView)
     IN  /\ view' = Shows(view, m) /\ kept' = Saves(view, view', m)
         /\ toHost' = toHost \o Requests(view, m)
  /\ UNCHANGED <<active, turn, log, replay, due, calm, acts>>

\* handleSend: the page waits for promptStart to turn the button into a stop.
Sends ==
  /\ view.live /\ view.enabled /\ ~view.processing
  /\ Acts
  /\ view' = [view EXCEPT !.history = Append(@, Item("user", << >>))]
  /\ kept' = [history |-> view'.history, shown |-> view.shown]
  /\ toHost' = Append(toHost, Simple("sendPrompt"))
  /\ UNCHANGED <<active, turn, log, replay, toView, due, calm>>

\* The view is closed, with what was on its way; another page starts from what was kept.
Closes ==
  /\ view.live /\ Acts
  /\ view' = [Page(<< >>, None) EXCEPT !.live = FALSE] /\ toView' = << >> /\ toHost' = << >>
  /\ calm' = (calm /\ Quiet /\ ~InTurn /\ replay = NoReplay)
  /\ due' = IF calm' THEN due ELSE FlattenSeq(TextsOf(kept.history))
  /\ UNCHANGED <<active, turn, log, replay, kept>>

Resolves ==
  /\ ~view.live /\ view' = Page(kept.history, kept.shown)
  /\ toHost' = Asks(ItemsFrom(kept.history, 1)) \o <<Simple("ready")>>
  /\ UNCHANGED <<active, turn, log, replay, toView, kept, due, calm, acts>>

ChatNext ==
  \/ Replays \/ Loaded \/ LoadFails \/ Handles \/ Reads \/ Sends \/ Closes \/ Resolves
  \/ \E cleared \in BOOLEAN : Leaves(cleared)
  \/ \E s \in Sessions : \/ Opens(s) \/ Loads(s) \/ Streams(s)
                         \/ TurnEnds(s)

ChatSpec == ChatInit /\ [][ChatNext]_chatVars

-----------------------------------------------------------------------------
\* Chunks of the page's messages, in their order.
Texts(v) == FlattenSeq(TextsOf(v.history)) \o v.saying

ChatTypeOK ==
  /\ active \in Sessions \cup {None} /\ replay.session \in Sessions \cup {None}
  /\ \A i \in DOMAIN due : due[i][1] \in Sessions
  /\ kept.shown \in Sessions \cup {None}
  /\ \A i \in DOMAIN view.history : view.history[i].role \in {"user", "assistant"}

\* The page has caught up: it is open, and nothing is on its way either way.
Settled == view.live /\ Quiet

\* Once the page has read what it was sent, it shows nothing but what a session said
\* while it was the active one, since the page was last told to wipe, in the order it was
\* said and nothing twice: neither a session that goes on after it was left nor a replay
\* that was cut off adds to it.  And it shows all of it, if nobody left in the middle, also
\* after the view was closed (handleSessionUpdate's filter, handleLoadSessionStart,
\* finalizeCurrentAssistantTurn, saveState).
ShowsTheActive ==
  Settled =>
    /\ Texts(view) = SelectSeq(due, LAMBDA c : \E i \in DOMAIN Texts(view) : Texts(view)[i] = c)
    /\ calm => Texts(view) = due

\* "the webview only ever shows one session at a time" (ChatWebviewProvider.ts:163-164),
\* with nothing under way.
ShowsOneSession ==
  calm /\ Settled /\ ~InTurn /\ replay = NoReplay /\ active # None =>
    \A i \in DOMAIN Texts(view) : Texts(view)[i][1] = active

\* Nobody having left in the middle, the button is a stop exactly while the session's
\* turn runs, and every complete message has been rendered as itself: the answers to
\* requests made of a history that was wiped since have done no lasting harm (the
\* markdownRendered handler counts messages by their place in chatHistory).
PageSettles ==
  calm /\ Settled =>
    /\ view.processing <=> active # None /\ turn[active].on
    /\ LET texts == Assistants(view.history)
       IN  /\ Len(view.elements) = Len(texts) + (IF view.saying = << >> THEN 0 ELSE 1)
           /\ replay = NoReplay => \A i \in DOMAIN texts :
                view.elements[i] = [text |-> texts[i].text, rendered |-> TRUE]
=============================================================================

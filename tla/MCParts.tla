------------------------------- MODULE MCParts -------------------------------
(***************************************************************************)
(* The parts that do not share state with the ones of the other runs, each *)
(* on a small instance: those of AdapterTools and SideParts, a completion  *)
(* request, the extension's chat view, and the web console.  A behaviour   *)
(* picks its part once and is one of that part's own behaviours.           *)
(***************************************************************************)
EXTENDS SideParts

VARIABLES
  consoleSession, consolePending, decided, feed, page, consoleDrops,
  dialect, said, wire, ended, buffer, frame, pushed, assembly, delivered, phase, aborted,
  effects, captureFailed,
  active, turn, log, replay, toView, toHost, view, keptState, due, calm, acts,
  composer, waitingBrowsers, overtaken, send, blobs, inputsAccepted, receipts, policy, news,
  form, formShown, edited, count

Console == INSTANCE WebConsole WITH
  Browsers <- {1, 2}, Requests <- {1}, MaxTurns <- 2, MaxDeltas <- 1, MaxDrops <- 1,
  session <- consoleSession, pending <- consolePending, drops <- consoleDrops
Provider == INSTANCE Providers WITH
  MaxEvents <- 3, Dialects <- {"chat", "anthropic", "responses", "google", "none"}
\* A new session, and one with a turn of two texts, of which one is empty.
Chat == INSTANCE ChatView WITH
  Sessions <- {1, 2}, Stored <- << << >>, <<0, 1>> >>, MaxChunks <- 1, MaxActs <- 3,
  kept <- keptState
\* Two browsers compose inputs, or change the selection.
Composing == INSTANCE ConsoleForms WITH
  Browsers <- {1, 2}, Attachments <- {"file"}, Sends <- {1, 2}, MaxEdits <- 2, MaxChoices <- 0,
  Thinking <- << {"off"} >>, MaxApplies <- 0,
  waiting <- waitingBrowsers, inputs <- inputsAccepted, selected <- policy, shown <- formShown
Selecting == INSTANCE ConsoleForms WITH
  Browsers <- {1, 2}, Attachments <- {}, Sends <- {}, MaxEdits <- 0, MaxChoices <- 1,
  Thinking <- << {"off"}, {"off", "low"} >>, MaxApplies <- 2,
  waiting <- waitingBrowsers, inputs <- inputsAccepted, selected <- policy, shown <- formShown

-----------------------------------------------------------------------------
\* The instances of the adapter's tools: two logins, a host tool's URL and two that MCP
\* servers name alike, two calls of one batch of which one writes less than the other.
OneTwo == {1, 2}
OneTwoThree == {1, 2, 3}
OneForm == {4}
UrlNames == <<0, 1, 1>>
TwoLogins == {"login", "second login"}
Lengths == <<1, 2>>

\* The instances of the parts beside a session.
One == {1}
FirstSecond == {"first", "second"}
SecondSecond == <<2, 2>>
SecondFirstFirst == <<2, 1, 1>>

\* Of the store, either two runtimes write one session, or two clients list three of which
\* one is written.
WritingScene ==
  /\ \A s \in Stored \ {2} : batches'[s] = << >>
  /\ rows' \subseteq Tables \X {2} /\ \A l \in Listings : listing'[l] = Store!Idle
ListingScene ==
  /\ \A s \in Stored : batches'[s] \in {<< >>, <<Store!First>>}
  /\ writer'[1].append <= 1 /\ writer'[1].body <= 1 /\ writer'[1].expected = 0
  /\ writer'[2] = Store!NoWrite
  /\ rows' \subseteq {"info"} \X Stored

Parts == ToolParts \cup SideNames \cup
  {"console", "provider", "chat", "composing", "selecting"}

\* The parts not picked stay in one of their initial states.
PartsInit ==
  /\ part \in Parts
  /\ Console!ConsoleInit
  /\ Provider!ProviderInit /\ (part # "provider" => dialect = "none")
  /\ ToolsInit /\ SideInit
  /\ Chat!ChatInit
  /\ IF part = "selecting" THEN Selecting!FormsInit ELSE Composing!FormsInit

cV == <<consoleSession, consolePending, decided, feed, page, consoleDrops>>
rV == <<dialect, said, wire, ended, buffer, frame, pushed, assembly, delivered, phase,
        aborted, effects, captureFailed>>
hV == <<active, turn, log, replay, toView, toHost, view, keptState, due, calm, acts>>
oV == <<composer, waitingBrowsers, overtaken, send, blobs, inputsAccepted, receipts, policy,
        news, form, formShown, edited, count>>
partsVars == <<part, sideVars, cV, rV, toolVars, hV, oV>>

PartsNext ==
  /\ UNCHANGED part
  /\ \/ part \in SideNames /\ SideNext
        /\ (part = "store" => WritingScene \/ ListingScene)
        /\ UNCHANGED <<cV, rV, toolVars, hV, oV>>
     \/ part \in ToolParts /\ ToolsNext
        /\ UNCHANGED <<sideVars, cV, rV, hV, oV>>
     \/ part = "console" /\ Console!ConsoleNext
        /\ UNCHANGED <<sideVars, rV, toolVars, hV, oV>>
     \/ part = "provider" /\ Provider!ProviderNext
        /\ UNCHANGED <<sideVars, cV, toolVars, hV, oV>>
     \/ part = "chat" /\ Chat!ChatNext
        /\ UNCHANGED <<sideVars, cV, rV, toolVars, oV>>
     \/ part = "composing" /\ Composing!FormsNext
        /\ UNCHANGED <<sideVars, cV, rV, toolVars, hV>>
     \/ part = "selecting" /\ Selecting!FormsNext
        /\ UNCHANGED <<sideVars, cV, rV, toolVars, hV>>

PartsSpec == PartsInit /\ [][PartsNext]_partsVars

-----------------------------------------------------------------------------
\* The parts' promises, with their type invariants.  Of a part that is not picked
\* nothing is asked: it stays as it was.

\* The pages (web/server/session-host.ts, console/Console.tsx, and the extension's
\* ChatWebviewProvider.ts): one that has read what it was sent shows what its session is
\* doing, what sessions said while each was the active one, and every complete text rendered
\* as itself; a form shows the selection, and an input that was accepted has what was composed.
PagesAreTrue ==
  /\ part = "console" => Console!ConsoleTypeOK /\ Console!PageIsCurrent
  /\ part = "composing" =>
       Composing!FormsTypeOK /\ Composing!InputsAreWhole /\ Composing!OneIsOut
  /\ part = "selecting" => Selecting!FormsTypeOK /\ Selecting!FormsAreCurrent
  /\ part = "chat" => Chat!ChatTypeOK /\ Chat!ShowsTheActive /\ Chat!PageSettles

\* The chat view shows one session at a time (ChatWebviewProvider.ts:163-164), and another
\* one that is opened replaces what it shows (extension.ts:371).
OneSessionIsShown == part = "chat" => Chat!ShowsOneSession

\* A completion request (core/providers): only a whole stream completes, what it says is
\* what was shown, and its effects come in pairs.
CompletionsAreWhole ==
  part = "provider" =>
    /\ Provider!ProviderTypeOK /\ Provider!OnlyWholeStreams
    /\ Provider!ShownIsAssembled /\ Provider!EffectsPair
=============================================================================

# A formal model of LabKit Agent

LabKit Agent keeps a conversation as an append-only journal.  A *session* is one
journal and the runtime that writes it: clients submit inputs, a writer stages
each against the folded journal, appends it through a persistence port, and only
then dispatches the model requests, tool batches and permission requests that
follow from it.  Around it stand the host that runs those operations, an ACP
adapter that serves sessions to editors, a VS Code extension and a web console.
These modules model all of them where several actors meet, check them with TLC on
small instances, and prove the safety of sessions and their branches, of hosts, of
most of the adapter and of the extension's handlers with TLAPS for all.

Source paths below are relative to `src/packages/core/` unless they start with
`acp/`, `vscode/` or `web/`, which are relative to `src/packages/`.
`PROJECT.json` maps every definition to the lines it models, lists the hazards
the properties are about, and a mutant of the code for each property.

## The system

| component | state | operations | talks to |
| --- | --- | --- | --- |
| Session actor (`session/session-fsm.ts`, `fsm/fsm.ts`) | status, committed state, waiting submissions, append in flight, pending selection | `submit`, `select`, `reselect`, `stored`, `drain`, `appended`, `loaded`, `close` | emits commands to its handlers, one event at a time |
| Command handlers (`session/runtime/session-commands.ts`) | storage operations, admission, queue and turn waiters, receipts, chain of configuration writes | append, load, release of a committed batch, reply, selected, stop | port, host, clients' promises |
| Journal (`session/journal/`) | none: a fold over records | stage an input, replay a journal | called by the actor and by restore |
| Turn machine (`agent/agent-fsm.ts`, `agent-conversation.ts`) | phase, steps left, operation in flight, log | user, abort, result of an operation | called by the fold |
| Runtime facade (`session/runtime/facade.ts`, `env-events.ts`, `instance.ts`) | none | user, system, abort, policy, fork, compact, close | posts to the actor |
| Opening (`session/runtime/open.ts`) | the step of create or restore | load, replay, recover, reselect | port, actor |
| Persistence port (`session/persistence.ts`) | stored batches, stored configuration | append, load, getConfig, putConfig | may fail, lose its answer, be shared by processes |
| Host (`host/`, `agent/operation-actor.ts`, `agent/tool-batch.ts`) | running operations, pending tools, remembered approvals and results | dispatch, cancel, reset permissions, release a tool, close | providers, tools, permission prompts |
| Policy (`policy/policy.ts`) | none | resolve, patch, validate, compare | selections, turn machine, host |
| Registry adoption (`session/runtime/registry-adoption.ts`) | the pending plan | plan, journal before new work | restore, actor |
| Branches (`session/runtime/conversation-effects.ts`) | requests waiting for a boundary | fork, compact | turn machine, port |
| Providers (`providers/`) | one exchange | request, stream, assemble | models' services, host |
| ACP registry (`acp/rpc/lease.ts`, `sessions.ts`, `open.ts`) | who has each session, open sessions, operations in flight | claim, open, fork, close, delete, evict | connections of the process, sessions |
| ACP session (`acp/rpc/prompt.ts`, `session.ts`, `updates.ts`, `permission.ts`, `config.ts`) | active prompt, queue of forks, what the client was shown | prompt, cancel, fork, close, notify | runtime, client |
| ACP tools, store, credentials (`acp/*.ts`) | SQLite store; terminals, MCP links, elicitations, files; access | append, list, delete; create, connect, call, release; authenticate, logout | client, disk, MCP servers |
| VS Code extension (`vscode/src/`) | maps of agents, connections, sessions; dialogs, terminals, documents; the page's list of messages | connect, create, load, prompt, cancel; decide, run, write; post, render, wipe | agent processes, editor, user |
| Web console (`web/`) | hosted sessions, subscribers, forms | subscribe, submit, decide, select | browsers, sessions |

What is hard here: an append whose outcome is unknown and its single retry;
results of storage and of operations that arrive after what they belong to is
gone; selections whose writes to another store settle late, fail, or are
superseded; promises that move between three maps as batches commit; the end of
the process between any two of these steps, with requests already sent that
still land afterwards; a second process on the same journal; and, further out,
asynchronous handlers that share maps across their awaits, and clients that take
over, cancel, disconnect or answer late.  What makes each component correct:

- *writer*: nothing is dispatched that is not stored, nothing twice; receipts
  are true; every caller is answered;
- *journal*: every stored batch follows from those before it; configuration and
  instructions change between turns only; queued input is taken once, in order;
- *promises*: always where the input is, and settled with the turn that took it;
- *selections*: no turn overtakes one; a refused one has no effect; approvals do
  not survive a permission mode that was left and entered again;
- *opening*: ends, at rest, under the stored configuration;
- *host*: an operation settles once, a tool result is counted when its record is
  committed, nothing runs unapproved or for no one, turns and aborts end;
- *branches*: whole turns, one owner, and the registry journaled before work;
- *completions*: a cut stream never becomes a message;
- *ACP*: one runtime serves a session, a deletion is alone with it, prompts take
  turns with forks, the client is shown everything once, what was obtained late
  is still let go;
- *user interfaces*: their maps and lists agree with what the session is doing
  once everything sent has arrived.

## Modules

    Journal <- SessionWriter <- Session <- SessionProperties <- SessionInvariant
                                               |                 |
                                         SessionLedger       MCSession <- MCScenes
    SessionInvariant <- SessionStorageProofs <- SessionQueueProofs
      <- SessionOpeningProofs
    Host <- HostProperties <- MCHost
                           <- HostInvariant <- HostProofs
    AcpSessions <- AcpProperties <- AcpServing (-> AcpPrompt) <- AcpInvariant <- AcpProofs
    AdapterTools <- SideParts <- MCParts
    AdapterTools <- ToolsInvariant <- ToolsProofs,  SideParts <- SideProofs, EditorProofs
    AdapterTools -> ClientTerminals McpProxy McpServers Elicitations Credentials
                    WorkspaceFiles
    SideParts -> Branches AcpDisplay AcpStorage EditorPermissions EditorTerminals EditorFiles
                 EditorSessions
    MCParts -> ChatView WebConsole ConsoleForms Providers

### The session

- `Journal` has no variables.  `Stage(j, input)` is the state that the batch of
  `input` proposes, `Stageable` the conditions under which staging throws,
  `Accepts` those under which an input is stale.  A state keeps the number and
  phase of the turn, the steps it has left, the generation of its operation, the
  queued inputs and the configuration.
- `SessionWriter` is `decideSession` with what the handlers do on its commands.
  The actor takes an event from `mailbox`, decides, and runs the commands of the
  decision before the next event, so each disjunct of `Decide` is one step.
  Commands with a later result leave it in the state: `io` is the storage call
  awaited, `storing` the chained configuration writes, `running` the operations
  dispatched.  `answers` is what each caller was told, `waits` in which of the
  three maps (or how settled) the promise of each user input is, `released` a
  history of the dispatched batches.
- `Session` adds everyone else: clients, host, port, other processes, the end of
  the runtime at any step (`Crash`), and the opening sequence.  Requests of a
  process that is gone stay in `orphans` and `orphanPuts` and may land later.
- `SessionLedger` is what callers are promised: a log that only grows, a cursor
  that dispatches each entry at most once and skips what a restart found there,
  and one verdict a caller, `accepted` only when dispatched.  `Session`
  implements it under the mapping in `SessionProperties` (the log is the owners
  of stored batches, the cursor the revision the writer has reached).
- `SessionProperties` states types and properties, `SessionInvariant` the
  inductive invariants, `MCSession` the small instances, `MCScenes` three scenes of
  clients in one state graph; the proofs are described below.

### The host

`Host` is the inside of what `Session` abstracts as one operation that reports
once.  Each operation actor (`ops`) and tool batch (`batches`) has an inbox and
decides one event at a time; the turn has its own inbox, which in a journaled
session is drained through an append (`writing`) and in the in-memory runtime at
once.  A tool's result goes to the journal first and is released to its batch
when its record commits (`Settlement`, `unreleased`).  Deadlines, cancellations,
validation, questions to the user, remembered approvals, policy changes and
`close` are actions that may come at any time.  Which runtime, policy and limits
apply is chosen in the initial state (`mode`, `left`), as one of the scenarios
of `MCHost`.  `HostInvariant` is the inductive invariant and `HostProofs` its
proof.

### The ACP adapter

- `AcpSessions`: one session among the connections of a process.  `holder` and
  `claims` are the lease and its queue, `entry` each connection's open session,
  `request` the handlers under way with the step they await, `live` the runtimes
  there are.  A claim evicts the holder: the handlers in flight are aborted and
  awaited, the runtime is closed.  Clients need not wait for answers: a request may be
  sent while others of its connection are under way, and meets the handlers' guards.
  `crossed` is a history of requests that met one of their own connection which lets
  go of the lease they rely on: a load and a fork, or a deletion and a close or change
  of credentials.
- `AcpPrompt`: the prompts, forks and cancellations of one open session, with the
  two queues that wait for each other (`promptDone`, `forkTail`).  `AcpServing` puts
  it beside the claims of `AcpSessions`; a behaviour is one of either.
- `AcpDisplay`: what the client was shown (`sent`, `written`) against what the
  runtime committed, streamed and selected, each observed a little later.
- `AcpStorage`: the SQLite store: what several runtimes append to a session and
  keep beside it, deletions, and the pages of its listing, each a set of sessions.
- `Credentials`: changes of credentials, cancelled at any await, against the
  handlers that check access.
- `ClientTerminals`, `McpProxy`, `McpServers`, `Elicitations`: what the tools
  obtain from the client or a server and must let go again.
- `WorkspaceFiles`: `write_file` to disk or through the editor while other calls
  and other programs write the same path.
- `AdapterTools` puts the last six side by side, with all their bounds as
  constants, and states their promises; `SideParts` does so for the display, the
  store, the branches, and the handlers of the extension.

### Branches and providers

- `Branches`: a request for a fork or a compaction is journaled, waits in the
  conversation, is published at a boundary with the blobs it inherits, and is
  handed over or closed; and the record by which a restored session adopts a
  changed registry.  The writer is reduced to a line of submissions.
- `Providers`: the exchange, the framing of the stream, its four dialects, the
  deltas shown and the effects reported, the bytes cut anywhere.

### The user interfaces

- `EditorSessions`: `SessionManager`'s maps (`sessions`, `owner`, `current`,
  `pending`, `loading`, ...) under overlapping commands and dying agents.
- `EditorPermissions`, `EditorTerminals`, `EditorFiles`: the client side of
  permissions, terminals and writes.
- `ChatView`: the extension and its page, two queues between them (`toView`,
  `toHost`), and the wipes, replays and rendering that cross on them.
- `WebConsole`: a session pushed to browsers over connections that break.
  `ConsoleForms`: what the browsers compose and post.

### What is abstracted

In the session a tool batch is one operation, so records of single results and
the gate that releases them are absent there and in `Host` instead.  Revisions
count batches instead of records.  Content, agents, versions of instructions and
policies, providers and blobs do not occur; a policy is two fields, one standing
for those that govern grants and one for all others, and its admission rule,
barge-in and steps are constants.  Patches are valid.  Adoption, forks and
compactions are in `Branches` over a reduced writer.  A failed `putConfig` wrote
nothing.  A restore whose load or `getConfig` fails rejects without effect and is
the same as no restore.  Closing a closed session is left out.  One runtime at a
time is modelled in full; other processes appear by what they append.

In the other modules, text, files and messages are pieces that can be told apart,
never characters; times are orders; handlers interleave at their awaits and
nowhere else, as JavaScript runs them; and clients, agents, users, MCP servers
and services may answer anything, late or never, unless a module's header says
otherwise.

## Runs

None checks deadlock: clients that have made all their requests leave a system at
rest, and so does a failed or closed session.

| run | instance | shows |
| --- | --- | --- |
| `clients` | scenes chosen at the start, with restarts, faults and foreign batches as each needs: *storage* (2 users, a system change, two faults of all kinds, a foreign batch, close), *queue* (4 requests: up to 3 users, a selection, system, abort, around queued input, with a restart), *selections* (2 users, 3 selections of two permission modes, or 2 with a write that fails; the third while one user has asked); users and selections ask in a fixed order | `TypeOK`, `JournalFolds`, `DurableIsStored`, `AnswersAreTrue`, `BoundaryRecords`, `QueueIsFair`, `ImplementsLedger`, `RestoreOpensAtRest`, `TurnStartsUnderSelection`, `SwitchingBackRevokes` |
| `turns` | 2 users, 1 abort, 2 steps, all results of operations, barge-in, tools aborted by user input, one lost acknowledgement | `WaitsFollowJournal` |
| `restart` | 1 user, 1 selection, one refusal, missing acknowledgement, wrong receipt or failed load, two restores after a crash anywhere or a close, one foreign batch | `StorageInv`, `ReleasedOnceInOrder`, `RestoreOpensAtRest`, `ImplementsLedger`, `OpeningEnds` |
| `liveness` | 2 users, system, 1 selection, one fault of the journal or of the configuration store | `OneLostAckIsHarmless`, `RequestsAreAnswered`, `PromisesSettle`, `SelectionsResolve` |
| `host` | two calls of one tool: both at once, or one in each of two steps, or in two turns around a policy change, or met by a barge-in; a session that asks, one with deadlines, and the in-memory runtime | `TypeOK`, `BatchFollowsJournal`, `RunsAreApproved`, `NoOrphans`, `TurnsEnd`, `AbortsEnd` |
| `acp` | two connections with three requests that do not wait for each other, and one end of a connection; or two prompts and two forks of one session, one request cancelled, and cancellation and close of the session | `OneServes`, `DeletesAlone`, `ClaimsEnd`; `PromptsTakeTurns`, `PromptsAreAnswered` |
| `parts` | eighteen instances of the seventeen modules that `MCParts` puts side by side, in one state graph of which each behaviour is in one instance | nine invariants, one for each group of parts, named and explained in `MCParts`, `SideParts` and `AdapterTools` |
| `recovery_ids` | 3 users, two restores | violates `AppendIdsAreStable` |
| `refused_selection` | 2 selections, one write fails | violates `RefusedPatchIsNotApplied` |
| `acp_forks` | as `acp` | violates `OneRuntime` |
| `acp_overlaps` | as `acp` | violates `NeverUnderRuntime` |
| `chat_sessions` | as `parts` | violates `OneSessionIsShown` |

The invariants of `parts`:

| invariant | modules | shows |
| --- | --- | --- |
| `DisplayFollowsJournal` | `AcpDisplay` | each text is shown once and whole by the prompt's answer, a call before the question about it, policy and usage as they are |
| `StoreKeepsItsWord` | `AcpStorage`, with two runtimes that write one session, or two clients that list three | deleted stays deleted, an append is stored once, a listing shows each session once |
| `EditorMapsAgree` | `EditorSessions` | the maps agree under overlapping commands and dying agents, a replay has a load that ends it, a session one prompt; one that was created shows its options |
| `HandlersKeepTheirWord` | `EditorPermissions`, `EditorFiles`, `EditorTerminals` | the user is asked for the running turn only, a confirmed write is on disk, no process runs on when its connection has ended unless its kill was refused |
| `PagesAreTrue` | `WebConsole`, `ConsoleForms`, `ChatView` | a browser that has read what it was sent shows its session; the chat page shows what sessions said while shown since the last wipe, once, in order, and nothing else; an accepted input has what was composed |
| `BranchesAreWhole` | `Branches` | a branch has whole turns and one owner, and adoption is journaled before work |
| `CompletionsAreWhole` | `Providers` | exactly whole streams complete, as what was shown, with paired effects |
| `ToolsKeepTheirWord` | `ClientTerminals`, `McpProxy`, `McpServers`, `Elicitations`, `WorkspaceFiles` | what was obtained is let go, also when it came late; `write_file` tells what it did |
| `AccessFollowsCredentials` | `Credentials` | no late grant, and sessions end before credentials change |

Bounds are constants: `MaxFaults`, `MaxRestores`, `MaxForeign`, `MaxRequests`,
`MaxEnds`, `MaxDrops`, `Steps` and so on, and the sets of requests, each made at
most once.  Two users are enough for every interaction of an input with a turn
and with a queued input, three for an order among queued inputs while a turn
runs.  Two faults lose the append and its retry; a third finds a failed session.
One restore meets requests of one dead process; two meet the records of a
recovery.  Three selections are the least in which one replaced leaves a fallback
that is itself replaced, and the least that changes a mode and changes it back
with one between.  Two calls are the least with one settled and one not when
their batch is cancelled, and two calls of one tool meet over its approval.
Three requests of two connections are a holder, one who takes over, and one that
meets either.  The parts have two of whatever competes in them (commands,
transports, runs, browsers, writes), or three where an order among those that
wait matters (permissions, elicitations).

In run `parts` a variable `part` is chosen once and only that part moves; each
invariant is that of its parts.  It joins modules that share no state, so TLC's
coverage shows one action a part there; each part alone was explored too, and all
its actions are taken.  A part's mutant stands for the other parts of its
invariant, for which mutations were tried in the same way.  Run `clients` chooses
its `scene` likewise; every request of a scene is made at most once, and where its
users or selections are interchangeable they ask in the order of their names, which
leaves out only copies of behaviours it has.  The rule that refuses user input during
tools is met by no run: the theorems, which hold for every `Admission`, cover it.

### Fairness

`FairSpec` of the session has weak fairness of four groups.  `WriterDecides`: the
actor drains its mailbox in a chain of promises.  `Port`: the contract of
`SessionPersistence` says an adapter must settle.  `Opening`: a sequence of
awaits that go on when their promise settles.  `Host`: a child operation
reports, which the host ensures by its deadlines; a permission request without a
deadline may wait for its user for ever, and then only `PromisesSettle` fails.
Nothing is assumed of clients, other processes or crashes; `liveness` has no
crash since a promise of a dead process never settles.

`FairSpec` of the host: the session drains its inbox, actors drain theirs,
deadlines fire, validations end and the user answers what is asked; a model or a
tool that runs may run for ever, which is why `TurnsEnd` is stated for runtimes
with deadlines, and `AbortsEnd` for all.  `ServingFairSpec` of the adapter: what
awaits a settled promise goes on, cancelled work unwinds, restores, removals and
closes end; clients, MCP servers and the prompt a fork waits for may take for
ever where claims are concerned, while `PromptsAreAnswered` also assumes that a
turn ends, as run `host` shows.  Requests are bounded, so that fairness to the
whole of a part is enough: something goes on when something can.

## Proofs

Every theorem holds for all constants that satisfy the assumptions below: any
number of users, selections, faults, restarts and foreign batches of a session;
any calls, tools, steps and policies of a host; any connections, requests, ends,
prompts and forks of a process; any terminals, transports, servers, elicitations,
writes and logins of its tools; any requests and restores of a parent with branches,
completions and calls of a prompt, sessions, writers and listings of a store, and
questions, processes and writes of an editor, and the agents, processes, sessions and
commands it has.

| module | inductive invariant | theorems for the runs' properties |
| --- | --- | --- |
| `SessionStorageProofs` | `TypeOK`, `StorageInv` | `TypeCorrect`, `JournalAlwaysFolds`, `WriterFollowsStorage`, `ReleasedAtMostOnce` |
| `SessionQueueProofs` | `AdmissionInv`, `QueueInv`, `ReceiptInv` | `BoundariesHold`, `QueueStaysFair`, `ReceiptsAreTrue` |
| `SessionOpeningProofs` | `OpeningInv`, `LedgerInv`, `WaitInv`, `SelectionInv`, `HarmlessInv` | `RestoresAtRest`, `SessionImplementsLedger`, `PromisesFollowJournal`, `TurnsFollowSelections`, `SwitchesRevoke`, `OneFaultIsSurvived` (of a first runtime that writes alone) |
| `HostProofs` | `HostInv`, `RecordInv` | `HostTypeCorrect`, `RunsStayApproved`, `NothingIsOrphaned`, `BatchesFollowJournal` |
| `AcpProofs` | `AcpInv`, `PromptInv` | `OneConnectionServes`, `JournalsAreDeletedAlone`, `PromptsHaveTurns` |
| `ToolsProofs` | `ToolsInv` | `ToolsKeepFaith`, `AccessIsGranted` |
| `SideProofs` | `SideInv` | `BranchesStayWhole`, `DisplayFollows`, `StoreIsKept`, `HandlersKeepFaith` |
| `EditorProofs` | `EditorInv` | `EditorMapsStay` |

Each invariant is proved over the ones above it, which its steps may use before
and after; run `restart` checks `StorageInv` as one of its properties, and the
others were checked by TLC on the instances of the runs before they were proved.
A proof has one lemma an action, a step under it for each conjunct the action can
disturb, and frame lemmas for what it leaves alone.  None of the properties is
inductive by itself; what each needs:

- *Storage.*  That the writer's state is a stored prefix needs that a good receipt
  is of the append in flight and that the batch it reports is where it says
  (`ResultsStayTrue`); that needs that no result of an earlier append or attempt
  is around (`OneStorageCall`); that the journal folds needs that every request
  which may still land, whichever process sent it, was staged against a prefix of
  the journal (`RequestsAreStaged`), so that its expected revision decides whether
  it still fits; that nothing is dispatched twice needs that dispatched batches lie
  below the writer's revision, in order, and that append IDs are unique
  (`ReleasedIsStored`, `JournalIsIndexed`); and a restart keeps all of it because
  a runtime that is gone leaves no event behind (`GoneIsQuiet`).
- *Boundaries and queue.*  A batch is at a boundary because the state it was staged
  against admitted it, which has to be known of requests that are still under way,
  also those of dead processes (`RequestsAreFit`), and because IDs of different
  kinds cannot be confused (`IdsAreOwn`).  That the queue is fair needs where each
  of those who still wait stands in the journal (`QueueIsOrdered`).
- *Receipts.*  A refusal is final because a submission is in one place at a time
  (mailbox, queue, chain of writes, selection, fallback, append: `PlacesAreOwn`)
  and in none once it is refused (`FateFollowsAnswer`).
- *Opening.*  Each phase of a restore says which event, append or state may be
  there (`RestoresOnly`), so that nothing else can slip between recovery and the
  stored selection.
- *Ledger.*  Each step of a session is a step of `SessionLedger` or leaves its
  variables alone: a dispatch moves the cursor to a batch nobody was dispatched
  before, a restart skips what it finds, an answer is given once and `accepted`
  only below the cursor.  `LedgerInv` is the conjunction of what precedes.
- *Selections.*  The configuration stored last is not in the writer's state but
  spread over the selection, its fallback, the writes under way and the results not
  yet decided; `Standing`, `SeenStands` and `SelectionIsLast` say which of them it
  is.  `RevocationIsKept` and `DepartureIsKept` carry the memory of a permission
  mode that was left through every way of superseding, failing and merging.
- *Promises.*  Turn numbers grow along the journal, and a promise has gone to a turn
  only if its input joined that turn (`TurnsGrow`, `TurnsAreJoined`); recovery,
  which cancels queued inputs, happens only where nobody waits (`NeverRecovers`,
  `WaitsAreServed`).
- *One fault.*  A writer without rivals finds in the journal what it has released
  and perhaps the append in flight (`WritesAlone`), so that reconciliation sees
  either its own batch or nothing new.  That needs each append to have an ID the
  journal does not have: a client's because it is in one place only
  (`PlacesAreOwn`), the record of a queued input because each is taken once
  (`QueueIsOrdered`), a report because the turn machine never returns to an
  operation that was reported on (`ChildrenAreOver`; for this, staging never lowers
  the generation of a turn).  Faults are counted where they are waited for
  (`FaultsAreCounted`): an append in flight was repeated at most once for each
  fault, and a writer that reconciles, or is told that the outcome is unknown, has
  spent one more, so that giving up takes two.
- *Host.*  An operation holds at most the one event its status waits for
  (`OperationInv`), so that it settles once.  What its turn awaits is what its
  phase says and nothing later exists (`Spawning`); a settlement on its way is of
  an operation that is over, and a permission of a grant that answered every call
  (`Settling`, `Approving`); an outcome is counted only of a tool that is over
  (`Reporting`).  `Serving` gives `NoOrphans`: whoever lives is awaited or has the
  event in its inbox that ends it.  A tool that was not allowed may have been
  spawned, and is safe only because its input is invalid or a stop comes before
  the event that would run it (`Unrun`, `Blocked`).  `Appending` says that nothing
  the turn decides overtakes the submission being appended.  The lemmas go from
  sequences and actors to what a spawned, stopped or settled actor keeps, then one
  an action, with one for each decision of the turn.
- *Records and batches.*  `RecordInv` follows an outcome from its tool to its
  batch.  Until it is recorded it waits to be released, as what was reported
  (`Withheld`); once it is, the batch has counted it or finds it in its inbox
  before any event that settles the batch otherwise (`CountsRecorded`), because the
  session records nothing after a failure or a cancellation; and when the batch has
  settled nothing more is recorded for it (`CountedAll`).
- *Lease.*  That one connection serves needs an account of who may start what.
  What runs or is published on a connection holds the lease (`Held`), and the
  lease changes hands only at the end of an eviction, when nothing of the holder's
  that claimed it goes on: `Evicting` says for each stage what it still waits for,
  and `Operating`, that the operation it aborts and awaits is the only one there
  can be.  A runtime is on its way or published (`Runtimes`); one that is published
  lets go of the lease only where nothing else of its connection relies on it
  (`Published`), so that a close cannot release what a later request has claimed;
  and a claim that was cancelled is never granted (`ClaimsInOrder`).  `Shape` ties
  each handler's progress to that of its opening; an opening a fork gave up stays
  cancelled, which is why it cannot publish.  Where requests of one connection cross,
  each conjunct says what is left: a connection still has one runtime, and no other
  request relies on one that crossed.
- *Prompts.*  That a turn runs for the active prompt alone needs which phases of a
  prompt belong to which states of its turn (`TurnsWithin`) and that a prompt which
  has the session is the active one (`OneHolds`).  That no fork takes its parent
  during a turn needs both queues: the forks stand in one line, of which each waits
  for its predecessor (`ForksInLine`), and one that works has seen every prompt
  end, while the next prompt waits for the last of them (`ForksWait`).
- *Tools.*  Each says what is under way at every await.  A terminal is known, asked
  for or cancelled as its run's place says, and its cleanup has released it once or
  not yet (`RunShape`); a transport has no connection before its answer, and what
  was sent belongs to one (`ProxyInv`); servers have clients exactly up to the one
  being opened (`McpInv`); what is kept under a server's ID is a request of that ID
  (`AskingInv`).  Of a write, `WriteShape` says at each place what the call knows,
  what it has done, and, unless another wrote in between (`stale`, `crossed`), what
  the file therefore holds.
- *Credentials.*  The change under way has the lock, and while one has it there is
  no access and no session but those being closed (`AuthInv`).
- *Branches.*  That a branch is of whole turns is about counts: the turns that began
  in the journal are those that ended, and one more exactly while a turn runs
  (`TurnsInv`), so that a request journaled in a turn that still runs was taken
  within the turn that is counted next (`RequestsInv`).  That no caller is forgotten
  needs that a request is in one place of the line only, and there while it is
  submitted (`LineInv`); that adoption comes first, that while nothing is journaled
  under a changed registry its record heads the line or has not been sent
  (`AdoptingInv`).
- *Display.*  Until the record of a completion is observed, what was streamed and
  shown of it are the pieces emitted; when it is observed the rest is shown, of which
  a text without deltas is all (`TextInv`).  A question's update lies behind its
  call's, and is sent before it is put (`CardInv`).  Usage and configuration settle
  because whatever changes them leaves an observation, or a read of the latest, still
  to come (`UsageInv`).
- *Store.* A batch is at the place its append expected, so that a repeated append
  finds its own and no other (`StorageInv`). Of a listing, the last cursor is where
  its pages end: they show nothing that lies behind it, and all that lies before it
  and was there throughout (`ListingInv`), so that the next page shows nothing again
  and the last one completes them, whatever was stored or deleted in between. A page
  is the first sessions after another by their count, which is why it ends before
  all that it leaves (`PagesAreFirst`).
- *Handlers.*  Requests come in their order, and one is shown only while its turn is
  neither stopped nor over, which is what cancelling it withdraws (`PermissionInv`);
  a terminal is kept from before its process starts until its release is asked for
  (`TerminalInv`); and a text on disk, or in a document without changes, is one that
  was saved or foreign (`FileInv`).
- *Editor.*  The maps agree because a registered session is of a process of its agent
  whose link was opened, and an agent's entry of one of its own sessions
  (`SessionInv`); which rests on what a command has at each of its phases
  (`CommandInv`), a process of its agent above all, though it may have ended.  An
  answer is under way once, to a command that waits for it (`MessageInv`), so that a
  load is ended by the one that began it (`LoadingInv`).  That a new session shows
  its options follows each update to where it takes effect: those said before the
  answer are kept for the session, those after it come behind it, and whichever is
  the last once all that was said is read is what the agent has (`Comes`,
  `CreatingInv`, `CreatedInv`); nobody has such a session before (`NewInv`).

Assumptions, all in the modules that declare the constants and evaluated on every
run: of a session, `Steps` is positive and barge-in excludes queueing (the policy
schema refuses it), the first configuration is one, patches are patches, bounds
are numbers, and `None` is no record of the model; of a host, the calls of a step
are a sequence of calls of tools, and a scenario proposes some of them, allows at
most `MaxSteps` steps and bounds what it may meet; of the adapter, bounds are
numbers, `None` is neither a connection, a request nor an entry, and `Nobody`
neither a prompt nor a fork; of its tools, 0, which stands for none, is no transport,
ID or URL, `"none"` is no change of credentials, and calls and bounds are numbers; of
the parts in `SideParts`, a request for a branch is none of the other records, 0 is no
agent, process, session or command of the editor and each of its sessions has an agent,
completions, questions and writes are numbers, and bounds too; the stored sessions
are finitely many positive numbers, a writer has one of them, a page shows at least
one, and the table of sessions is among the tables.

The theorems about the lease assume nothing of clients; what they leave out is what
findings 3 and 4 below say the code does not keep: a runtime that a fork gave up,
and loads and deletions in `crossed`.
`OneFaultIsSurvived` is about what `OneLostAckIsHarmless` is about: no batch of
another process (`MaxForeign` is 0), no restart (recovery submits under the ID
it had before, and a second runtime may find it stored), faults that lose an
acknowledgement, leave an append undone or fail the load that reconciles it, but
not a refusal or a wrong receipt, each of which fails a session at once by
design, and operations that report nothing they may not, which the turn machine
answers by failing. Faults of any number remain, and writes of the configuration
may fail; run `liveness` is such an instance.

Proving the host found two flaws of its model, not of the code.  A turn's decision
on a permission had two overlapping guards in one `CASE`, which says nothing of
which applies; and a turn could be allowed more steps than the bound on steps
left, so that its types could not be shown; the allowance is now cut at the bound
by an operator that says so (`Allowance`).

Proving the editor found a property stated too strongly.  Overlapping connects may
start two processes of one agent; two resumes of a session that was created on one of
them, answered by the other and then by that one again, bring back options changed in
between, which are shown only when the second resume goes on with its answer.
`CreatedIsCurrent` now leaves out a session that is being opened again
(`Reopening`).  Run `parts` has too few commands to get there.

Only model-checked:

- liveness (`TurnsEnd`, `OpeningEnds`, `RequestsAreAnswered` and the others that
  state fairness) and `ENABLED`, which are out of the prover's reach;
- `PagesAreTrue`, about a page as what filtering and concatenating sequences leaves of
  others, and `CompletionsAreWhole`, about what a recursive function reads in a stream:
  what these compute for every input is induction over data.

## Where the code and its text differ

1. **A recovered idle session may become impossible to restore.**  Restore
   recovers under the append ID `recovery/<session>/<turn>`.  With only queued
   inputs interrupted no turn runs and recovery does not advance it, so that the
   next turn to be recovered has the same number.  If that turn was started and
   interrupted, its recovery is another append of the same ID, which the port
   must refuse; the restore rejects, and so does each later one
   (`recovery_ids`).
2. **A refused patch is applied by the selection made after it.**  A selection
   is made of the one pending though that one is still being written; when the
   write fails its caller is told so, but the later selection still contains the
   patch (`refused_selection`).
3. **A fork that gives up leaves an opening behind.**  A fork of a session that is
   not open opens it privately.  Cancelled or evicted, it stops waiting for that
   open, finds no parent to close, and lets go of the lease while the open is
   still restoring.  Until that notices its cancellation another connection may
   open the session, and the process has two runtimes of one journal, which the
   lease says it never has (`acp_forks`).  `OneServes` is what does hold: all
   others are one, and the forgotten one is on its way out.
4. **A journal may be deleted under a runtime.**  A fork lets go of its parent's lease
   when it ends, also when a load of the same connection claimed it before and is still
   opening.  A deletion by another connection then finds no holder to close, and removes
   the journal of a runtime that is about to be published: "never delete under a
   runtime", says `acp/rpc/sessions.ts:376` (`acp_overlaps`).  A change of credentials
   during a deletion lets go of the deletion's lease too.  `OneServes` and
   `DeletesAlone` say what holds for all other requests, and what is left for these.
5. **The chat page shows two sessions.**  Only a load clears the page.  A session that
   is resumed or shown again is named above the texts of the one before, though "the
   webview only ever shows one session at a time" and the dialog promises to "replace
   the current chat history" (`chat_sessions`).  `PagesAreTrue` says what it does show.

### Behaviours met on the way

Nothing in the repository's text speaks against these, so no property does; the
properties are stated so as not to depend on them.

- *Adapter.*  A `session/cancel` that arrives while its prompt waits for queued
  forks finds no prompt to cancel and is lost.  A completion an MCP server announces before the user
  accepted the URL is forgotten, and the slot stays held until an abort.
- *Tools.*  Two parallel writes of one path may leave the tail of the longer
  under the shorter; a write aborted between truncation and content leaves an
  empty file; one given up on may still be done by the editor.
- *Providers.*  Where the service ends a stream without a terminator, trailing
  usage cut off is not noticed.  A capture sink that rejects in the handler of a
  failure replaces that failure and suppresses its effects.
- *Extension.*  The late close event of a killed agent drops the agent's new
  session; a failed older load forgets a newer session; overlapping connects
  start two processes; notifications that cross a resume or a load are
  overwritten by its answer.  In the chat view the late end of a prompt of a
  session that was left ends the new session's message, and closing the view during a
  replay restores what was wiped.  A terminal whose kill the system refuses stays as it
  is: its release is remembered as failed, asking again gets that failure, and the end
  of the connection only logs it, so that the process may run on.
- *Console.*  Any receipt, also another browser's, ends the wait for one's own,
  so that a text may be sent twice; an accepted input clears what was typed
  meanwhile; a browser that reconnects in the middle of a turn goes on showing a
  question somebody else has answered.

## Not modelled

Agents, prompts and content are pure projections.  Environment, effects and
logging are wiring, tables and diagnostics.  Request encoding, catalogs, usage
figures and replies that are not streamed are pure translations of formats.
Validation of schemas (policies, elicitation forms, MCP tools), path checks, sizes
and encodings of files, and `read_file` and `list_dir` have no state.  Of the
adapter: the replay of a loaded session's history into updates, slash commands,
plans, HTTP and stdio framing.  Of the extension: authentication, modes and
options, titles, the session tree, the status bar, markup, style and pickers.  Of
the console: creation of sessions, numeric fields and previews.  A configuration
write that fails without telling whether it wrote is left out because the port's
contract does not say what a rejection leaves stored.  Composing `Host` with
`Session` in one state graph is out of TLC's reach; the two meet at what each
assumes of the other: an operation reports once, and results are released when
their records commit.

## Plan

1. *Done*: the session core, its storage invariant and proofs.
2. *Done*: the host and its batches, branches and adoption, a completion request,
   the adapter, the extension and the console.
3. *Done*: the safety of the session, its refinement of the ledger, types,
   approvals, orphans and counted results of the host, and the lease,
   prompts, tools and credentials of the adapter, branches, display, store and
   the extension's handlers and sessions as theorems.
4. Not planned: what is out of the prover's reach, as said under Proofs.

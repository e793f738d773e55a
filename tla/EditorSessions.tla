--------------------------- MODULE EditorSessions ---------------------------
(***************************************************************************)
(* The VS Code extension's agents, connections and sessions                 *)
(* (core/SessionManager.ts, ConnectionManager.ts, AgentManager.ts).  The    *)
(* user's commands are asynchronous functions that share the maps below and *)
(* run one at a time between their awaits.  Agents are processes that       *)
(* answer, notify and end on their own.                                     *)
(***************************************************************************)
EXTENDS Integers, Sequences

CONSTANTS Names,      \* configured agents
          Processes,  \* agent processes, in the order they are spawned
          Ids,        \* sessions agents have or issue
          Old,        \* those of Ids that the history of the workspace has from before
          AgentOf,    \* the agent each session is of
          Commands,   \* commands of the user, in the order they are given
          MaxChanges  \* bound: changes of a session's options by its agent

None == 0

VARIABLES
  process,  \* AgentManager.agents, ConnectionManager.connections
  sessions, \* sessions: the process of each one registered, and its options
  owner,    \* agentSessions: the session of each agent
  current,  \* activeSessionId
  pending,  \* pendingConfigOptions, and the other pending maps
  loading,  \* loadingSessionIds
  command,  \* what each command has come to
  history,  \* the history store: the sessions the user is offered
  options,  \* the agents' side: the options of each session
  serving   \* the process that has each session open

editorVars == <<process, sessions, owner, current, pending, loading, command, history, options,
                serving>>

NoProcess == [name |-> None, state |-> "unused", listed |-> FALSE, watched |-> FALSE,
              link |-> "none", inbox |-> << >>]
Unregistered == [process |-> None, options |-> 0, created |-> FALSE]
NoCommand == [kind |-> "none", name |-> None, session |-> None, process |-> None,
              phase |-> "none", answer |-> "none", options |-> 0]

Kinds == {"connect", "new", "disconnect", "load", "resume", "list", "prompt"}

\* No agent is connected yet, or one is, with a session it has created.
EditorInit ==
  /\ \/ /\ current = None /\ sessions = [s \in Ids |-> Unregistered] /\ history = Old
        /\ owner = [n \in Names |-> None] /\ serving = [s \in Ids |-> None]
        /\ process = [p \in Processes |-> NoProcess]
     \/ \E s \in Ids \ Old, p \in Processes :
          /\ (\A q \in Processes : p <= q) /\ (\A t \in Ids \ Old : s <= t)
          /\ current = s /\ history = Old \cup {s}
          /\ sessions = [t \in Ids |-> IF t = s THEN [process |-> p, options |-> 0, created |-> TRUE]
                                      ELSE Unregistered]
          /\ owner = [n \in Names |-> IF n = AgentOf[s] THEN s ELSE None]
          /\ serving = [t \in Ids |-> IF t = s THEN p ELSE None]
          /\ process = [q \in Processes |-> IF q # p THEN NoProcess ELSE
                [NoProcess EXCEPT !.name = AgentOf[s], !.state = "running", !.listed = TRUE,
                                  !.watched = TRUE, !.link = "open"]]
  /\ pending = [s \in Ids |-> -1] /\ loading = {}
  /\ command = [c \in Commands |-> NoCommand] /\ options = [s \in Ids |-> 0]

Registered(s) == s # None /\ sessions[s].process # None
NameOf(s)     == process[sessions[s].process].name
ActiveName    == IF Registered(current) THEN NameOf(current) ELSE None

\* getConnection of a session's process.
Linked(p) == p # None /\ process[p].link \in {"open", "dead"}

\* killAgent, removeConnection.
Killed(ps, p) ==
  [ps EXCEPT ![p].state = IF @ = "running" /\ ps[p].listed THEN "killed" ELSE @,
             ![p].listed = FALSE]
Unlinked(ps, p) ==
  [ps EXCEPT ![p].link = IF @ \in {"open", "dead"} THEN "removed" ELSE @, ![p].inbox = << >>]

Unregister(s) == [sessions EXCEPT ![s] = Unregistered]

\* disconnectAgent.
Disconnects(n) ==
  LET s == IF n = None THEN None ELSE owner[n]
  IN  IF Registered(s)
        THEN /\ process' = Unlinked(Killed(process, sessions[s].process), sessions[s].process)
             /\ sessions' = Unregister(s)
             /\ owner' = [owner EXCEPT ![n] = None]
             /\ current' = IF current = s THEN None ELSE current
        ELSE UNCHANGED <<process, sessions, owner, current>>

\* drainPending: what was buffered for a session wins over its answer.
Registers(s, p, value, created) ==
  /\ sessions' = [sessions EXCEPT ![s] = [process |-> p, created |-> created,
                    options |-> IF pending[s] >= 0 THEN pending[s] ELSE value]]
  /\ pending' = [pending EXCEPT ![s] = -1]

Becomes(c, phase) == command' = [command EXCEPT ![c].phase = phase]
Over(c)           == command' = [command EXCEPT ![c] = [NoCommand EXCEPT !.kind = @, !.phase = "over"]]

Given(c, kind, name, s, phase, p) ==
  /\ command[c].phase = "none" /\ \A d \in Commands : d < c => command[d].phase # "none"
  /\ command' = [command EXCEPT ![c] = [NoCommand EXCEPT !.kind = kind, !.name = name,
                                          !.session = s, !.phase = phase, !.process = p]]

-----------------------------------------------------------------------------
\* connectToAgent and newConversation: a live session is used again; otherwise the
\* active agent is disconnected and a process is spawned.
Reuses(c, n) ==
  /\ Registered(owner[n]) /\ Given(c, "connect", n, None, "over", None)
  /\ current' = owner[n]
  /\ UNCHANGED <<process, sessions, owner, pending, loading, history, options, serving>>

Connects(c, n) ==
  /\ ~Registered(owner[n]) /\ Given(c, "connect", n, None, "folder", None)
  /\ Disconnects(ActiveName)
  /\ UNCHANGED <<pending, loading, history, options, serving>>

StartsAnew(c) ==
  /\ ActiveName # None /\ Given(c, "new", ActiveName, None, "folder", None)
  /\ Disconnects(ActiveName)
  /\ UNCHANGED <<pending, loading, history, options, serving>>

DisconnectsAgent(c, n) ==
  /\ Given(c, "disconnect", n, None, "over", None) /\ Disconnects(n)
  /\ UNCHANGED <<pending, loading, history, options, serving>>

\* loadSession and resumeSession: another active agent is disconnected first.
Opens(c, kind, n, s) ==
  /\ s \in history /\ AgentOf[s] = n /\ Given(c, kind, n, s, "ensuring", None)
  /\ IF ActiveName # n THEN Disconnects(ActiveName)
     ELSE UNCHANGED <<process, sessions, owner, current>>
  /\ UNCHANGED <<pending, loading, history, options, serving>>

\* listSessions, and the tree's probe of an agent's capabilities.
Probes(c, n) ==
  /\ Given(c, "list", n, None, "ensuring", None)
  /\ UNCHANGED <<process, sessions, owner, current, pending, loading, history, options, serving>>

\* ensureConnected: the session's connection, that of a process already spawned, or
\* a new process.
Known(n) ==
  {p \in Processes : /\ Linked(p) /\ process[p].name = n
                     /\ \/ process[p].listed
                        \/ Registered(owner[n]) /\ sessions[owner[n]].process = p}

Ensures(c) ==
  /\ command[c].phase = "ensuring"
  /\ LET n == command[c].name
     IN  IF Known(n) = {} THEN Becomes(c, "folder")
         ELSE \E p \in Known(n) :
                /\ Registered(owner[n]) /\ Linked(sessions[owner[n]].process)
                     => p = sessions[owner[n]].process
                /\ command' = [command EXCEPT ![c].process = p, ![c].phase = "connected"]
  /\ UNCHANGED <<process, sessions, owner, current, pending, loading, history, options, serving>>

\* spawnAgent and connect; only connectToAgent listens for the process to close.
Spawns(c, p) ==
  /\ command[c].phase = "folder" /\ process[p].state = "unused"
  /\ \A q \in Processes : q < p => process[q].state # "unused"
  /\ process' = [process EXCEPT ![p] = [NoProcess EXCEPT !.name = command[c].name,
                   !.state = "running", !.listed = TRUE, !.link = "opening",
                   !.watched = command[c].kind \in {"connect", "new"}]]
  /\ command' = [command EXCEPT ![c].process = p, ![c].phase = "initializing"]
  /\ UNCHANGED <<sessions, owner, current, pending, loading, history, options, serving>>

\* No folder was chosen, or the program is missing.
SpawnFails(c) ==
  /\ command[c].phase = "folder" /\ Over(c)
  /\ UNCHANGED <<process, sessions, owner, current, pending, loading, history, options, serving>>

Initialized(c) ==
  LET p == command[c].process
  IN  /\ command[c].phase = "initializing" /\ process[p].link = "opening"
      /\ process' = [process EXCEPT ![p].link = "open"]
      /\ Becomes(c, IF command[c].kind \in {"connect", "new"} THEN "asked" ELSE "connected")
      /\ UNCHANGED <<sessions, owner, current, pending, loading, history, options, serving>>

\* initialize failed: the process is killed.
InitializeFails(c) ==
  LET p == command[c].process
  IN  /\ command[c].phase = "initializing"
      /\ process' = Killed([process EXCEPT ![p].link = "removed"], p)
      /\ Over(c)
      /\ UNCHANGED <<sessions, owner, current, pending, loading, history, options, serving>>

\* Mutant: the agents' entry stays when its session makes room.
MakesRoom_Keeps(c) ==
  /\ sessions' = IF current # command[c].session /\ Registered(current)
                   THEN Unregister(current) ELSE sessions
  /\ current' = IF current = command[c].session THEN current ELSE None
  /\ UNCHANGED owner

\* The session that is active makes room for the one to be opened; a loaded session
\* is registered and active before its history is replayed.
MakesRoom(c) ==
  /\ current' = IF current = command[c].session THEN current ELSE None
  /\ IF current # command[c].session /\ Registered(current)
       THEN /\ sessions' = Unregister(current)
            /\ owner' = [owner EXCEPT ![NameOf(current)] = None]
       ELSE UNCHANGED <<sessions, owner>>

AsksToOpen(c) ==
  /\ command[c].phase = "connected" /\ command[c].kind \in {"load", "resume"}
  /\ MakesRoom(c) /\ Becomes(c, "picking")
  /\ UNCHANGED <<process, pending, loading, history, options, serving>>

\* The folder is chosen; the process must still be one the editor knows.
Requests(c) ==
  LET s == command[c].session  p == command[c].process
  IN  /\ command[c].phase = "picking" /\ Linked(p)
      /\ \/ process[p].listed
         \/ \E t \in Ids : Registered(t) /\ sessions[t].process = p
      /\ Becomes(c, "asked")
      /\ IF command[c].kind = "load"
           THEN /\ Registers(s, p, 0, FALSE) /\ loading' = loading \cup {s}
                /\ owner' = [owner EXCEPT ![command[c].name] = s] /\ current' = s
           ELSE UNCHANGED <<sessions, pending, loading, owner, current>>
      /\ UNCHANGED <<process, history, options, serving>>

RequestFails(c) ==
  /\ command[c].phase = "picking" /\ Over(c)
  /\ UNCHANGED <<process, sessions, owner, current, pending, loading, history, options, serving>>

AsksToList(c) ==
  /\ command[c].phase = "connected" /\ command[c].kind = "list" /\ Becomes(c, "asked")
  /\ UNCHANGED <<process, sessions, owner, current, pending, loading, history, options, serving>>

\* promptingSessionIds.
Prompting(s) ==
  \E d \in Commands : /\ command[d].kind = "prompt" /\ command[d].session = s
                      /\ command[d].phase # "over"

Prompts(c) ==
  /\ Registered(current)
  /\ LET p == sessions[current].process
     IN  IF Linked(p) /\ ~Prompting(current)
           THEN Given(c, "prompt", NameOf(current), current, "asked", p)
           ELSE Given(c, "prompt", NameOf(current), current, "over", None)
  /\ UNCHANGED <<process, sessions, owner, current, pending, loading, history, options, serving>>

-----------------------------------------------------------------------------
\* The agent: it answers a request, changes a session's options and says so, or ends.
Say(p, message) == [process EXCEPT ![p].inbox = Append(@, message)]

Message(kind, c, s, value) == [kind |-> kind, command |-> c, session |-> s, options |-> value]

Fresh(s) ==
  LET new == {t \in Ids \ Old : serving[t] = None /\ AgentOf[t] = AgentOf[s]}
  IN  s \in new /\ \A t \in new : s <= t

Answers(c, s) ==
  LET p == command[c].process
  IN  /\ command[c].phase = "asked" /\ process[p].link = "open"
      /\ IF command[c].kind \in {"connect", "new"}
           THEN Fresh(s) /\ AgentOf[s] = command[c].name
           ELSE command[c].kind # "list" /\ s = command[c].session
      /\ process' = Say(p, Message("answer", c, s, options[s]))
      /\ command' = [command EXCEPT ![c].phase = "told", ![c].session = s]
      /\ serving' = IF command[c].kind = "prompt" THEN serving ELSE [serving EXCEPT ![s] = p]
      /\ UNCHANGED <<sessions, owner, current, pending, loading, history, options>>

AnswersList(c) ==
  LET p == command[c].process
  IN  /\ command[c].phase = "asked" /\ command[c].kind = "list" /\ process[p].link = "open"
      /\ process' = Say(p, Message("answer", c, None, 0))
      /\ Becomes(c, "told")
      /\ UNCHANGED <<sessions, owner, current, pending, loading, history, options, serving>>

Refuses(c) ==
  LET p == command[c].process
  IN  /\ command[c].phase = "asked" /\ process[p].link = "open"
      /\ process' = Say(p, Message("error", c, None, 0))
      /\ Becomes(c, "told")
      /\ UNCHANGED <<sessions, owner, current, pending, loading, history, options, serving>>

Changes(s) ==
  LET p == serving[s]
  IN  /\ p # None /\ process[p].link = "open" /\ options[s] < MaxChanges
      /\ options' = [options EXCEPT ![s] = @ + 1]
      /\ process' = Say(p, Message("options", None, s, options[s] + 1))
      /\ UNCHANGED <<sessions, owner, current, pending, loading, command, history, serving>>

ClosesEntry(n, s) == [owner EXCEPT ![n] = None]

\* The process closes: its requests fail, and the listener drops the session its
\* agent has now.
Ends(p) ==
  LET n == process[p].name
      s == IF n = None THEN None ELSE owner[n]
  IN  /\ process[p].state \in {"running", "killed"}
      /\ process' = [process EXCEPT ![p].state = "closed", ![p].listed = FALSE,
                       ![p].inbox = << >>,
                       ![p].link = IF @ \in {"open", "dead"} THEN "dead" ELSE "removed"]
      /\ IF process[p].watched /\ Registered(s)
           THEN /\ sessions' = Unregister(s)
                /\ owner' = ClosesEntry(n, s)
                /\ current' = IF current = s THEN None ELSE current
           ELSE UNCHANGED <<sessions, owner, current>>
      /\ UNCHANGED <<pending, loading, command, history, options, serving>>

Buffered(s, value) == [pending EXCEPT ![s] = value]

\* The editor reads the next message: an update is applied, or kept until its
\* session is registered; an answer wakes its command.
Receives(p) ==
  /\ process[p].link = "open" /\ process[p].inbox # << >>
  /\ process' = [process EXCEPT ![p].inbox = Tail(@)]
  /\ LET m == Head(process[p].inbox)
     IN  IF m.kind = "options"
           THEN /\ UNCHANGED command
                /\ IF Registered(m.session)
                     THEN /\ sessions' = [sessions EXCEPT ![m.session].options = m.options]
                          /\ UNCHANGED pending
                     ELSE /\ pending' = Buffered(m.session, m.options)
                          /\ UNCHANGED sessions
           ELSE /\ command' = [command EXCEPT ![m.command].phase = "answered",
                                 ![m.command].answer = m.kind, ![m.command].options = m.options]
                /\ UNCHANGED <<sessions, pending>>
  /\ UNCHANGED <<owner, current, loading, history, options, serving>>

-----------------------------------------------------------------------------
\* The command goes on with its answer.
Cut(c) == /\ command[c].phase \in {"asked", "told"}
          /\ process[command[c].process].link \in {"dead", "removed"}

Succeeds(c) == command[c].phase = "answered" /\ command[c].answer = "answer"
Fails(c)    == (command[c].phase = "answered" /\ command[c].answer = "error") \/ Cut(c)

Created(c) ==
  LET s == command[c].session
  IN  /\ Succeeds(c) /\ command[c].kind \in {"connect", "new"}
      /\ Registers(s, command[c].process, command[c].options, TRUE)
      /\ owner' = [owner EXCEPT ![command[c].name] = s] /\ current' = s
      /\ history' = history \cup {s}
      /\ Over(c) /\ UNCHANGED <<process, loading, options, serving>>

CreateFails(c) ==
  /\ Fails(c) /\ command[c].kind \in {"connect", "new"}
  /\ process' = Killed(process, command[c].process)
  /\ Over(c) /\ UNCHANGED <<sessions, owner, current, pending, loading, history, options, serving>>

Resumed(c) ==
  LET s == command[c].session
  IN  /\ Succeeds(c) /\ command[c].kind = "resume"
      /\ Registers(s, command[c].process, command[c].options, FALSE)
      /\ owner' = [owner EXCEPT ![command[c].name] = s] /\ current' = s
      /\ Over(c) /\ UNCHANGED <<process, loading, history, options, serving>>

\* The placeholder takes the answer's options, registered still or not.
Loaded(c) ==
  LET s == command[c].session
  IN  /\ Succeeds(c) /\ command[c].kind = "load"
      /\ loading' = loading \ {s}
      /\ sessions' = IF Registered(s) THEN [sessions EXCEPT ![s].options = command[c].options]
                     ELSE sessions
      /\ Over(c) /\ UNCHANGED <<process, owner, current, pending, history, options, serving>>

\* An agent that says it has no such session is believed.
Forgets(c) ==
  \/ UNCHANGED history
  \/ command[c].phase = "answered" /\ history' = history \ {command[c].session}

LoadFails(c) ==
  LET s == command[c].session
  IN  /\ Fails(c) /\ command[c].kind = "load"
      /\ loading' = loading \ {s} /\ sessions' = Unregister(s)
      /\ owner' = [owner EXCEPT ![command[c].name] = None]
      /\ current' = IF current = s THEN None ELSE current
      /\ Forgets(c)
      /\ Over(c) /\ UNCHANGED <<process, pending, options, serving>>

ResumeFails(c) ==
  /\ Fails(c) /\ command[c].kind = "resume" /\ Forgets(c) /\ Over(c)
  /\ UNCHANGED <<process, sessions, owner, current, pending, loading, options, serving>>

\* The agent's first page of sessions is what stays of the history; the agent's own
\* sessions come first, and a page may end before the last.
Listed(c) ==
  /\ Succeeds(c) /\ command[c].kind = "list" /\ Over(c)
  /\ history' \in SUBSET history
  /\ UNCHANGED <<process, sessions, owner, current, pending, loading, options, serving>>

\* A prompt that ends, and a list that fails, change nothing here.
Returns(c) ==
  /\ \/ command[c].kind = "prompt" /\ Succeeds(c)
     \/ command[c].kind \in {"list", "prompt"} /\ Fails(c)
  /\ Over(c)
  /\ UNCHANGED <<process, sessions, owner, current, pending, loading, history, options, serving>>

-----------------------------------------------------------------------------
UserActs(c) ==
  \/ \E n \in Names : \/ Reuses(c, n) \/ Connects(c, n) \/ DisconnectsAgent(c, n) \/ Probes(c, n)
                      \/ \E s \in Ids, kind \in {"load", "resume"} :
                           Opens(c, kind, n, s)
  \/ StartsAnew(c) \/ Prompts(c)

Proceeds(c) ==
  \/ Ensures(c) \/ SpawnFails(c) \/ Initialized(c) \/ InitializeFails(c)
  \/ (\E p \in Processes : Spawns(c, p))
  \/ AsksToOpen(c) \/ Requests(c) \/ RequestFails(c) \/ AsksToList(c)
  \/ Created(c) \/ CreateFails(c) \/ Resumed(c) \/ Loaded(c) \/ LoadFails(c) \/ ResumeFails(c)
  \/ Listed(c) \/ Returns(c)

AgentActs ==
  \/ \E c \in Commands : AnswersList(c) \/ Refuses(c) \/ \E s \in Ids : Answers(c, s)
  \/ \E s \in Ids : Changes(s)
  \/ \E p \in Processes : Ends(p)

EditorNext ==
  \/ \E c \in Commands : UserActs(c) \/ Proceeds(c)
  \/ \E p \in Processes : Receives(p)
  \/ AgentActs

EditorSpec == EditorInit /\ [][EditorNext]_editorVars

-----------------------------------------------------------------------------
Messages == [kind : {"answer", "error", "options"}, command : Commands \cup {None},
             session : Ids \cup {None}, options : 0..MaxChanges]
Spawned  == [name : Names \cup {None}, state : {"unused", "running", "killed", "closed"},
             listed : BOOLEAN, watched : BOOLEAN,
             link : {"none", "opening", "open", "dead", "removed"}, inbox : Seq(Messages)]
Entries  == [process : Processes \cup {None}, options : 0..MaxChanges, created : BOOLEAN]
Commanded ==
  [kind : Kinds \cup {"none"}, name : Names \cup {None}, session : Ids \cup {None},
   process : Processes \cup {None},
   phase : {"none", "folder", "ensuring", "initializing", "connected", "picking", "asked", "told",
            "answered", "over"},
   answer : {"none", "answer", "error"}, options : 0..MaxChanges]

EditorTypeOK ==
  /\ process \in [Processes -> Spawned] /\ sessions \in [Ids -> Entries]
  /\ owner \in [Names -> Ids \cup {None}] /\ current \in Ids \cup {None}
  /\ pending \in [Ids -> -1..MaxChanges] /\ options \in [Ids -> 0..MaxChanges]
  /\ loading \subseteq Ids /\ history \subseteq Ids /\ serving \in [Ids -> Processes \cup {None}]
  /\ command \in [Commands -> Commanded]

\* The maps agree, whatever commands overlap and whenever a process ends: the active
\* session is registered, and so is the session of every agent, under that agent.
MapsAgree ==
  /\ current # None => Registered(current)
  /\ \A n \in Names : owner[n] # None => Registered(owner[n]) /\ NameOf(owner[n]) = n

\* Another command has opened the session again, and has not gone on with the answer.
Reopening(s) ==
  \E c \in Commands : /\ command[c].kind = "resume" /\ command[c].session = s
                      /\ command[c].phase \in {"told", "answered"}

\* The updates of a session that arrive before, while and after its creation is
\* answered are all in effect: nothing under way, it has the options its agent has.
CreatedIsCurrent ==
  \A s \in Ids :
    LET p == sessions[s].process
    IN  Registered(s) /\ sessions[s].created /\ process[p].link = "open"
          /\ process[p].inbox = << >> /\ serving[s] = p /\ ~Reopening(s)
          => sessions[s].options = options[s]

\* A session whose history is being replayed has a load that will end it.
LoadingIsLoaded ==
  \A s \in loading :
    \E c \in Commands : /\ command[c].kind = "load" /\ command[c].session = s
                        /\ command[c].phase \in {"asked", "told", "answered"}

\* However commands overlap, an agent has one prompt of a session at a time.
OnePromptEach ==
  \A c, d \in Commands :
    (/\ command[c].kind = "prompt" /\ command[c].phase = "asked"
     /\ command[d].kind = "prompt" /\ command[d].phase = "asked"
     /\ command[c].session = command[d].session)
    => c = d
=============================================================================

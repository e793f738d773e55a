----------------------------- MODULE EditorProofs -----------------------------
(***************************************************************************)
(* The maps of the extension's sessions agree, for every number of agents, *)
(* processes, sessions and commands.  The argument is EditorInv: what each *)
(* command has at each of its phases, what is still said to it, and what   *)
(* has been said of the options of every session that is being created or  *)
(* was.                                                                    *)
(***************************************************************************)
EXTENDS SideParts, SequenceTheorems, TLAPS

-----------------------------------------------------------------------------
\* The invariant

AnsweredPhases == {"connected", "picking", "asked", "told", "answered"}
Requested == {"asked", "told", "answered"}
Past == {"open", "dead", "removed"}

ProcessInv ==
  \A p \in AgentProcesses :
    /\ process[p].link # "open" => process[p].inbox = << >>
    /\ process[p].state = "unused" <=> process[p].link = "none"

\* What a command has at each phase.
Early == {"none", "over", "folder", "ensuring"}

Fits(c) ==
  LET r == command[c]
  IN  /\ r.phase \in Early => r.process = Editor!None
      /\ r.phase \notin Early => r.process \in AgentProcesses /\ process[r.process].name = r.name
      /\ r.phase = "initializing" => process[r.process].link \in {"opening", "removed"}
      /\ r.phase \in AnsweredPhases => process[r.process].link \in Past
      /\ r.phase \in {"ensuring", "connected", "picking"} => r.kind \in {"load", "resume", "list"}
      /\ r.phase \in {"folder", "initializing"} => r.kind # "prompt"
      /\ r.phase \notin {"none", "over"} =>
           /\ r.name # Editor!None /\ r.kind \notin {"none", "disconnect"}
           /\ r.session # Editor!None => AgentOf[r.session] = r.name
           /\ r.kind \in {"load", "resume", "prompt"} => r.session # Editor!None
      /\ r.kind = "list" => r.session = Editor!None
      /\ r.kind \in {"connect", "new"} =>
           IF r.phase = "answered" /\ r.answer = "answer" THEN r.session # Editor!None
           ELSE r.phase \notin {"told", "answered"} => r.session = Editor!None

CommandInv ==
  /\ \A c \in Commands : Fits(c)
  /\ \A c, d \in Commands :
       command[c].phase = "initializing" /\ command[d].phase = "initializing"
         /\ command[c].process = command[d].process => c = d

\* A registered session is of its agent's process.
SessionInv ==
  /\ \A s \in EditorIds : Editor!Registered(s) => Editor!NameOf(s) = AgentOf[s]
     /\ process[sessions[s].process].link \in Past
  /\ current # Editor!None => Editor!Registered(current)
  /\ \A n \in Agents : owner[n] # Editor!None => Editor!Registered(owner[n]) /\ AgentOf[owner[n]] = n
  /\ \A s \in EditorIds : serving[s] # Editor!None => process[serving[s]].link \in Past

\* What is said to a command is said once, and to one that waits for it.
MessageInv ==
  \A p \in AgentProcesses : \A i \in DOMAIN process[p].inbox :
    LET m == process[p].inbox[i]
    IN  /\ m.kind = "options" => m.session # Editor!None
        /\ m.kind # "options" =>
             /\ m.command # Editor!None /\ command[m.command].phase = "told" /\ command[m.command].process = p
             /\ m.kind = "answer" => m.session = command[m.command].session
             /\ m.kind = "answer" /\ command[m.command].kind # "list" => m.session # Editor!None
             /\ \A k \in DOMAIN process[p].inbox :
                  process[p].inbox[k].kind # "options" /\ process[p].inbox[k].command = m.command => i = k

LoadingInv ==
  /\ Editor!LoadingIsLoaded
  /\ \A c \in Commands : command[c].kind = "load" /\ command[c].phase \in Requested
                           => ~sessions[command[c].session].created

PromptsInv ==
  \A c, d \in Commands :
    (/\ command[c].kind = "prompt" /\ command[c].phase # "over"
     /\ command[d].kind = "prompt" /\ command[d].phase # "over"
     /\ command[c].session = command[d].session) => c = d

Says(p, s) == {i \in DOMAIN process[p].inbox : process[p].inbox[i].kind = "options"
                                            /\ process[p].inbox[i].session = s}

\* Once what p has said of s is read, v has become the options of s.
Comes(p, s, v) ==
  /\ Says(p, s) = {} => v = options[s]
  /\ \A i \in Says(p, s) : (\A k \in Says(p, s) : k <= i) => process[p].inbox[i].options = options[s]

\* A session nobody has opened yet.
NewInv ==
  \A s \in EditorIds \ OldIds :
    serving[s] = Editor!None =>
      /\ pending[s] = -1 /\ ~Editor!Registered(s) /\ s \notin history
      /\ \A c \in Commands : command[c].session # s
      /\ \A p \in AgentProcesses : Says(p, s) = {}

Creates(c) == command[c].kind \in {"connect", "new"} /\ command[c].phase \in {"told", "answered"}
  /\ command[c].session # Editor!None

\* One that c creates on p.
Creating(c, s, p) ==
  /\ ~Editor!Registered(s) /\ s \notin history /\ s \notin OldIds /\ serving[s] = p
  /\ \A d \in Commands : d # c => command[d].session # s
  /\ \A q \in AgentProcesses : q # p => Says(q, s) = {}
  /\ process[p].link = "open" /\ command[c].phase = "told" =>
       \A i \in DOMAIN process[p].inbox :
         process[p].inbox[i].kind = "answer" /\ process[p].inbox[i].command = c =>
           /\ pending[s] = -1
           /\ \A v \in 0..MaxOptionChanges : process[p].inbox[i].options = v => Comes(p, s, v)
           /\ \A k \in Says(p, s) : i < k
  /\ process[p].link = "open" /\ command[c].phase = "answered" /\ command[c].answer = "answer" =>
       \A v \in 0..MaxOptionChanges :
         (IF pending[s] >= 0 THEN pending[s] ELSE command[c].options) = v => Comes(p, s, v)

CreatingInv ==
  \A c \in Commands, s \in EditorIds, p \in AgentProcesses :
    Creates(c) /\ command[c].session = s /\ command[c].process = p => Creating(c, s, p)

Reopened(s, p) ==
  \E c \in Commands :
    /\ command[c].kind = "resume" /\ command[c].session = s /\ command[c].process = p
    /\ \/ command[c].phase = "answered" /\ command[c].answer = "answer"
       \/ command[c].phase = "told" /\ \E i \in DOMAIN process[p].inbox :
             process[p].inbox[i].kind = "answer" /\ process[p].inbox[i].command = c

\* One that was created on p, and not opened again.
Original(s, p) ==
  /\ s \notin OldIds
  /\ process[p].link = "open" /\ serving[s] = p /\ ~Reopened(s, p) =>
       /\ \A q \in AgentProcesses : q # p => Says(q, s) = {}
       /\ \A v \in 0..MaxOptionChanges : sessions[s].options = v => Comes(p, s, v)

CreatedInv ==
  \A s \in EditorIds, p \in AgentProcesses :
    sessions[s].process = p /\ sessions[s].created => Original(s, p)

EditorInv ==
  /\ Editor!EditorTypeOK /\ ProcessInv /\ CommandInv /\ SessionInv /\ MessageInv
  /\ LoadingInv /\ PromptsInv /\ NewInv /\ CreatingInv /\ CreatedInv

-----------------------------------------------------------------------------
\* The start

\* What the constants are.
LEMMA EditorNames ==
  /\ Editor!None \notin Agents /\ Editor!None \notin AgentProcesses /\ Editor!None \notin EditorIds
     /\ Editor!None \notin Commands
  /\ OldIds \subseteq EditorIds /\ AgentOf \in [EditorIds -> Agents] /\ 0 \in 0..MaxOptionChanges
     /\ -1 \in -1..MaxOptionChanges
  /\ MaxOptionChanges \in Nat
BY SideAssumption DEF Editor!None

\* At the start no command was given, and one session at most was created.
LEMMA EditorStarts == Editor!EditorInit => EditorInv
<1> SUFFICES ASSUME Editor!EditorInit PROVE EditorInv
  OBVIOUS
<1>1. /\ pending = [s \in EditorIds |-> -1] /\ loading = {}
      /\ command = [c \in Commands |-> Editor!NoCommand] /\ options = [s \in EditorIds |-> 0]
  BY Zenon DEF Editor!EditorInit
<1>2. /\ Editor!NoCommand \in Editor!Commanded /\ Editor!NoCommand.phase = "none" /\ Editor!NoCommand.kind = "none"
      /\ Editor!NoCommand.session = Editor!None /\ Editor!NoCommand.process = Editor!None
         /\ Editor!NoCommand.name = Editor!None
  BY EditorNames DEF Editor!NoCommand, Editor!Commanded
<1>3. /\ Editor!NoProcess \in Editor!Spawned /\ Editor!NoProcess.inbox = << >> /\ Editor!NoProcess.state = "unused"
      /\ Editor!NoProcess.link = "none"
  <2>1. << >> \in Seq(Editor!Messages)
    OBVIOUS
  <2> QED BY <2>1 DEF Editor!NoProcess, Editor!Spawned
<1>4. Editor!Unregistered \in Editor!Entries /\ Editor!Unregistered.process = Editor!None
  /\ ~Editor!Unregistered.created
  BY EditorNames DEF Editor!Unregistered, Editor!Entries
<1>5. \A c \in Commands : command[c] = Editor!NoCommand
  BY <1>1
<1>6. /\ process \in [AgentProcesses -> Editor!Spawned] /\ sessions \in [EditorIds -> Editor!Entries]
      /\ owner \in [Agents -> EditorIds \cup {Editor!None}] /\ current \in EditorIds \cup {Editor!None}
      /\ history \subseteq EditorIds /\ serving \in [EditorIds -> AgentProcesses \cup {Editor!None}]
      /\ \A p \in AgentProcesses : process[p].inbox = << >> /\ (process[p].state = "unused"
         <=> process[p].link = "none")
      /\ \A s \in EditorIds \ OldIds : serving[s] = Editor!None
         => sessions[s] = Editor!Unregistered /\ s \notin history
      /\ \A s \in EditorIds : sessions[s] # Editor!Unregistered =>
           /\ sessions[s].process \in AgentProcesses /\ process[sessions[s].process].name = AgentOf[s]
           /\ process[sessions[s].process].link \in Past /\ s \notin OldIds /\ sessions[s].options = 0
      /\ current # Editor!None => sessions[current].process # Editor!None
      /\ \A n \in Agents : owner[n] # Editor!None => sessions[owner[n]].process # Editor!None
         /\ AgentOf[owner[n]] = n
      /\ \A s \in EditorIds : serving[s] # Editor!None => process[serving[s]].link \in Past
  <2>1. CASE /\ current = Editor!None /\ sessions = [s \in EditorIds |-> Editor!Unregistered] /\ history = OldIds
             /\ owner = [n \in Agents |-> Editor!None] /\ serving = [s \in EditorIds |-> Editor!None]
             /\ process = [p \in AgentProcesses |-> Editor!NoProcess]
    BY <1>3, <1>4, <2>1, EditorNames
  <2>2. ASSUME NEW new \in EditorIds \ OldIds, NEW own \in AgentProcesses,
               current = new, history = OldIds \cup {new},
               sessions = [t \in EditorIds |-> IF t = new THEN [process |-> own, options |-> 0, created |-> TRUE]
                                            ELSE Editor!Unregistered],
               owner = [n \in Agents |-> IF n = AgentOf[new] THEN new ELSE Editor!None],
               serving = [t \in EditorIds |-> IF t = new THEN own ELSE Editor!None],
               process = [q \in AgentProcesses |-> IF q # own THEN Editor!NoProcess ELSE
                [Editor!NoProcess EXCEPT !.name = AgentOf[new], !.state = "running", !.listed = TRUE,
                                         !.watched = TRUE, !.link = "open"]]
        PROVE  /\ process \in [AgentProcesses -> Editor!Spawned] /\ sessions \in [EditorIds -> Editor!Entries]
               /\ owner \in [Agents -> EditorIds \cup {Editor!None}] /\ current \in EditorIds \cup {Editor!None}
               /\ history \subseteq EditorIds /\ serving \in [EditorIds -> AgentProcesses \cup {Editor!None}]
               /\ \A p \in AgentProcesses : process[p].inbox = << >>
                  /\ (process[p].state = "unused" <=> process[p].link = "none")
               /\ \A s \in EditorIds \ OldIds : serving[s] = Editor!None
                  => sessions[s] = Editor!Unregistered /\ s \notin history
               /\ \A s \in EditorIds : sessions[s] # Editor!Unregistered =>
                    /\ sessions[s].process \in AgentProcesses /\ process[sessions[s].process].name = AgentOf[s]
                    /\ process[sessions[s].process].link \in Past /\ s \notin OldIds /\ sessions[s].options = 0
               /\ current # Editor!None => sessions[current].process # Editor!None
               /\ \A n \in Agents : owner[n] # Editor!None => sessions[owner[n]].process # Editor!None
                  /\ AgentOf[owner[n]] = n
               /\ \A s \in EditorIds : serving[s] # Editor!None => process[serving[s]].link \in Past
    <3> DEFINE e == [process |-> own, options |-> 0, created |-> TRUE]
               q == [Editor!NoProcess EXCEPT !.name = AgentOf[new], !.state = "running", !.listed = TRUE,
                                         !.watched = TRUE, !.link = "open"]
    <3>1. e \in Editor!Entries /\ e.process = own /\ e.options = 0 /\ own # Editor!None
      BY EditorNames DEF Editor!Entries
    <3>2. q \in Editor!Spawned /\ q.name = AgentOf[new] /\ q.state = "running" /\ q.link = "open" /\ q.inbox = << >>
      BY EditorNames, <1>3, Zenon DEF Editor!Spawned, Editor!NoProcess
    <3>3. sessions = [t \in EditorIds |-> IF t = new THEN e ELSE Editor!Unregistered]
      BY <2>2
    <3>4. process = [r \in AgentProcesses |-> IF r # own THEN Editor!NoProcess ELSE q]
      BY <2>2
    <3> HIDE DEF e, q
    <3>9. /\ sessions \in [EditorIds -> Editor!Entries] /\ process \in [AgentProcesses -> Editor!Spawned]
      BY <1>3, <1>4, <3>1, <3>2, <3>3, <3>4
    <3>10. AgentOf[new] \in Agents
      BY EditorNames
    <3>5. /\ process \in [AgentProcesses -> Editor!Spawned] /\ sessions \in [EditorIds -> Editor!Entries]
          /\ owner \in [Agents -> EditorIds \cup {Editor!None}] /\ current \in EditorIds \cup {Editor!None}
          /\ history \subseteq EditorIds /\ serving \in [EditorIds -> AgentProcesses \cup {Editor!None}]
      BY <2>2, <3>9, <3>10, EditorNames, Zenon
    <3>6. \A r \in AgentProcesses : process[r].inbox = << >> /\ (process[r].state = "unused"
      <=> process[r].link = "none")
      BY <1>3, <3>2, <3>4
    <3>7. /\ sessions[new] = e /\ process[own] = q /\ serving[new] = own
          /\ \A t \in EditorIds : t # new => sessions[t] = Editor!Unregistered /\ serving[t] = Editor!None
          /\ \A n \in Agents : owner[n] # Editor!None => owner[n] = new /\ n = AgentOf[new]
      BY <2>2, <3>3, <3>4
    <3> QED BY <2>2, <3>1, <3>2, <3>5, <3>6, <3>7, EditorNames, Zenon DEF Past
  <2> QED BY <2>1, <2>2, Zenon DEF Editor!EditorInit
<1>7. Editor!EditorTypeOK
  BY <1>1, <1>2, <1>6, EditorNames DEF Editor!EditorTypeOK
<1>8. \A p \in AgentProcesses : \A s : Says(p, s) = {}
  BY <1>6 DEF Says
<1>9. ProcessInv /\ SessionInv
  BY <1>4, <1>6 DEF ProcessInv, SessionInv, Editor!Registered, Editor!NameOf
<1>10. CommandInv /\ PromptsInv
  BY <1>2, <1>5 DEF CommandInv, Fits, Early, AnsweredPhases, Requested, PromptsInv
<1>11. MessageInv
  BY <1>6 DEF MessageInv
<1>12. LoadingInv
  BY <1>1, <1>2, <1>5 DEF LoadingInv, Editor!LoadingIsLoaded, Requested
<1>13. NewInv /\ CreatingInv
  BY <1>1, <1>2, <1>4, <1>5, <1>6, <1>8, EditorNames DEF NewInv, CreatingInv, Creates, Editor!Registered
<1>14. CreatedInv
  BY <1>1, <1>4, <1>6, <1>8, EditorNames DEF CreatedInv, Original, Comes, Editor!Registered
<1> QED BY <1>7, <1>9, <1>10, <1>11, <1>12, <1>13, <1>14 DEF EditorInv

-----------------------------------------------------------------------------
\* A process moves on, to its link's end at last.
Moves(p) ==
  /\ process'[p].name = process[p].name \/ process[p].link = "none"
  /\ process'[p].state = "unused" <=> process'[p].link = "none"
  /\ \/ /\ process'[p].inbox = process[p].inbox
        /\ \/ process'[p].link = process[p].link
           \/ process[p].link = "none" /\ process'[p].link = "opening"
           \/ process[p].link = "opening" /\ process'[p].link = "open"
     \/ /\ process[p].link # "none" /\ process'[p].link \in {"dead", "removed"}
        /\ process[p].link = "opening" => process'[p].link = "removed"
        /\ process'[p].inbox = << >>

\* A session that is not new: it was offered, or a command that does not create it has it.
Settled(s) ==
  s \in EditorIds /\ (s \in history \/ Editor!Registered(s) \/ \E c \in Commands : command[c].session = s
    /\ ~Creates(c))

\* A command goes on where nothing is said to it.
Calm(c) ==
  LET r == command'[c]
  IN  /\ command[c].phase = "told" => process'[command[c].process].link # "open"
      /\ r.phase \notin {"told", "answered"}
      /\ r.session # Editor!None => Settled(r.session)
      /\ r.kind = "load" /\ r.phase \in Requested => ~sessions'[r.session].created
      /\ command[c].kind = "resume" /\ command[c].phase = "answered" /\ command[c].answer = "answer"
           => ~sessions'[command[c].session].created

\* A command that creates a session has it, and a process.
LEMMA CreatesOn ==
  ASSUME EditorInv, NEW c \in Commands, Creates(c)
  PROVE  /\ command[c].session \in EditorIds /\ command[c].process \in AgentProcesses
         /\ Creating(c, command[c].session, command[c].process)
<1>1. command[c] \in Editor!Commanded
  BY DEF EditorInv, Editor!EditorTypeOK
<1>2. command[c].session \in EditorIds /\ command[c].process \in AgentProcesses
  BY <1>1 DEF EditorInv, CommandInv, Fits, Creates, Early, Editor!Commanded
<1> QED BY <1>2 DEF EditorInv, CreatingInv

\* What is settled has been served, and nobody creates it.
LEMMA SettledIs ==
  ASSUME EditorInv, NEW s, Settled(s)
  PROVE  /\ s \in EditorIds /\ s # Editor!None /\ (s \notin OldIds => serving[s] # Editor!None)
         /\ \A c \in Commands : Creates(c) => command[c].session # s
<1>1. s \in EditorIds /\ s # Editor!None
  BY EditorNames DEF Settled
<1>2. s \notin OldIds => serving[s] # Editor!None
  BY <1>1 DEF EditorInv, NewInv, Settled
<1>3. ASSUME NEW c \in Commands, Creates(c), command[c].session = s PROVE FALSE
  <2>1. ~Editor!Registered(s) /\ s \notin history /\ \A d \in Commands : d # c => command[d].session # s
    BY <1>1, <1>3, CreatesOn DEF Creating
  <2> QED BY <2>1, <1>3 DEF Settled
<1> QED BY <1>1, <1>2, <1>3

\* Steps that say nothing, read nothing and create nothing keep the accounts.
LEMMA QuietSafe ==
  ASSUME EditorInv,
         Editor!EditorTypeOK', ProcessInv', CommandInv', SessionInv', Editor!LoadingIsLoaded', PromptsInv',
         UNCHANGED <<options, serving>>, history' \subseteq history,
         \A p \in AgentProcesses : Moves(p),
         \A s \in EditorIds : \/ sessions'[s] = sessions[s]
                              \/ ~sessions'[s].created /\ (sessions'[s].process # Editor!None => Settled(s)),
         \A s \in EditorIds : pending'[s] = pending[s] \/ Settled(s),
         \A c \in Commands : command'[c] = command[c] \/ Calm(c)
  PROVE  EditorInv'
<1>1. \A c \in Commands : command[c].session \in EditorIds \cup {Editor!None}
  /\ command'[c].session \in EditorIds \cup {Editor!None}
  <2>1. command \in [Commands -> Editor!Commanded] /\ command' \in [Commands -> Editor!Commanded]
    BY DEF EditorInv, Editor!EditorTypeOK
  <2> QED BY <2>1 DEF Editor!Commanded
<1>2. \A p \in AgentProcesses : process'[p].inbox = process[p].inbox
  \/ (process'[p].inbox = << >> /\ process'[p].link # "open")
  BY DEF Moves
<1>3. \A p \in AgentProcesses : process'[p].link = "open" /\ process[p].link # "opening"
        => process[p].link = "open" /\ process'[p].inbox = process[p].inbox
  BY DEF Moves
<1>4. \A p \in AgentProcesses : \A s : Says(p, s)' = Says(p, s) \/ Says(p, s)' = {}
  BY <1>2 DEF Says
<1>5. MessageInv'
  <2> SUFFICES ASSUME NEW p \in AgentProcesses, NEW i \in DOMAIN process'[p].inbox
               PROVE  LET m == process'[p].inbox[i]
                      IN  /\ m.kind = "options" => m.session # Editor!None
                          /\ m.kind # "options" =>
                               /\ m.command # Editor!None /\ command'[m.command].phase = "told"
                                  /\ command'[m.command].process = p
                               /\ m.kind = "answer" => m.session = command'[m.command].session
                               /\ m.kind = "answer" /\ command'[m.command].kind # "list" => m.session # Editor!None
                               /\ \A k \in DOMAIN process'[p].inbox :
                                    process'[p].inbox[k].kind # "options"
                                      /\ process'[p].inbox[k].command = m.command => i = k
    BY DEF MessageInv
  <2> DEFINE m == process[p].inbox[i]
  <2>1. process'[p].inbox = process[p].inbox
    BY <1>2
  <2>2. m \in Editor!Messages
    BY <2>1 DEF EditorInv, Editor!EditorTypeOK, Editor!Spawned
  <2>3. /\ m.kind = "options" => m.session # Editor!None
        /\ m.kind # "options" =>
             /\ m.command # Editor!None /\ command[m.command].phase = "told" /\ command[m.command].process = p
             /\ m.kind = "answer" => m.session = command[m.command].session
             /\ m.kind = "answer" /\ command[m.command].kind # "list" => m.session # Editor!None
             /\ \A k \in DOMAIN process[p].inbox :
                  process[p].inbox[k].kind # "options" /\ process[p].inbox[k].command = m.command => i = k
    BY <2>1 DEF EditorInv, MessageInv
  <2>4. m.kind # "options" => m.command \in Commands
    BY <2>2, <2>3 DEF Editor!Messages
  <2>5. m.kind # "options" => command'[m.command] = command[m.command]
    <3>1. process'[p].link = "open"
      BY <2>1 DEF ProcessInv
    <3> QED BY <2>3, <2>4, <3>1 DEF Calm
  <2> QED BY <2>1, <2>3, <2>4, <2>5
<1>6. LoadingInv'
  <2>1. ASSUME NEW c \in Commands, command'[c].kind = "load", command'[c].phase \in Requested
        PROVE  ~sessions'[command'[c].session].created
    <3>1. CASE command'[c] = command[c]
      <4>1. ~sessions[command[c].session].created
        BY <2>1, <3>1 DEF EditorInv, LoadingInv
      <4>2. command[c].session \in EditorIds
        BY <1>1, <2>1, <3>1 DEF CommandInv, Fits, Requested
      <4> QED BY <3>1, <4>1, <4>2
    <3>2. CASE Calm(c)
      BY <2>1, <3>2 DEF Calm
    <3> QED BY <3>1, <3>2
  <2> QED BY <2>1 DEF LoadingInv
<1>7. NewInv'
  <2> SUFFICES ASSUME NEW s \in EditorIds \ OldIds, serving[s] = Editor!None
               PROVE  /\ pending'[s] = -1 /\ ~Editor!Registered(s)' /\ s \notin history'
                      /\ \A c \in Commands : command'[c].session # s
                      /\ \A p \in AgentProcesses : Says(p, s)' = {}
    BY DEF NewInv
  <2>1. ~Settled(s)
    BY SettledIs
  <2>2. /\ pending[s] = -1 /\ ~Editor!Registered(s) /\ s \notin history
        /\ \A c \in Commands : command[c].session # s
        /\ \A p \in AgentProcesses : Says(p, s) = {}
    BY DEF EditorInv, NewInv
  <2>3. \A c \in Commands : command'[c].session # s
    BY <2>1, <2>2, EditorNames DEF Calm
  <2> QED BY <1>4, <2>1, <2>2, <2>3 DEF Editor!Registered
<1>8. CreatingInv'
  <2> SUFFICES ASSUME NEW c \in Commands, NEW s \in EditorIds, NEW p \in AgentProcesses,
                      Creates(c)', command'[c].session = s, command'[c].process = p
               PROVE  Creating(c, s, p)'
    BY DEF CreatingInv
  <2>1. command'[c] = command[c] /\ Creates(c)
    BY DEF Calm, Creates
  <2>2. Creating(c, s, p)
    BY <2>1 DEF EditorInv, CreatingInv
  <2>3. ~Settled(s)
    BY <2>1, SettledIs
  <2>4. ~Editor!Registered(s)' /\ s \notin history' /\ pending'[s] = pending[s] /\ s \notin OldIds
    /\ serving'[s] = p
    BY <2>2, <2>3 DEF Editor!Registered, Creating
  <2>5. \A d \in Commands : d # c => command'[d].session # s
    BY <2>2, <2>3, EditorNames DEF Calm, Creating
  <2>6. process[p].link \in Past
    BY <2>1 DEF EditorInv, CommandInv, Fits, Creates, AnsweredPhases, Requested, Early
  <2>7. process'[p].link = "open" => /\ process[p].link = "open" /\ process'[p].inbox = process[p].inbox
                                     /\ Says(p, s)' = Says(p, s)
    BY <1>3, <2>6 DEF Past, Says
  <2>8. ASSUME NEW v \in 0..MaxOptionChanges, process'[p].link = "open", Comes(p, s, v) PROVE Comes(p, s, v)'
    BY <2>7, <2>8 DEF Comes
  <2>9. \A q \in AgentProcesses : q # p => Says(q, s)' = {}
    BY <1>4, <2>2 DEF Creating
  <2> QED BY <2>1, <2>2, <2>4, <2>5, <2>7, <2>8, <2>9 DEF Creating
<1>9. CreatedInv'
  <2> SUFFICES ASSUME NEW s \in EditorIds, NEW p \in AgentProcesses, sessions'[s].process = p, sessions'[s].created
               PROVE  Original(s, p)'
    BY DEF CreatedInv
  <2>1. sessions'[s] = sessions[s] /\ Original(s, p) /\ Editor!Registered(s)
    BY EditorNames DEF EditorInv, CreatedInv, Editor!Registered
  <2>2. process[p].link \in Past
    BY <2>1 DEF EditorInv, SessionInv
  <2>4. ASSUME process'[p].link = "open", serving'[s] = p, ~Reopened(s, p)'
        PROVE  /\ \A q \in AgentProcesses : q # p => Says(q, s)' = {}
               /\ \A v \in 0..MaxOptionChanges : sessions'[s].options = v => Comes(p, s, v)'
    <3>1. /\ process[p].link = "open" /\ process'[p].inbox = process[p].inbox
          /\ Says(p, s)' = Says(p, s)
      BY <1>3, <2>2, <2>4 DEF Past, Says
    <3>2. ~Reopened(s, p)
      <4> SUFFICES ASSUME NEW c \in Commands, command[c].kind = "resume", command[c].session = s,
                          command[c].process = p,
                          \/ command[c].phase = "answered" /\ command[c].answer = "answer"
                          \/ command[c].phase = "told" /\ \E i \in DOMAIN process[p].inbox :
                                process[p].inbox[i].kind = "answer" /\ process[p].inbox[i].command = c
                   PROVE FALSE
        BY DEF Reopened
      <4>1. ~Calm(c)
        BY <2>4 DEF Calm
      <4>2. command'[c] = command[c]
        BY <4>1
      <4> QED BY <2>4, <3>1, <4>2 DEF Reopened
    <3>3. /\ \A q \in AgentProcesses : q # p => Says(q, s) = {}
          /\ \A v \in 0..MaxOptionChanges : sessions[s].options = v => Comes(p, s, v)
      BY <2>1, <2>4, <3>1, <3>2 DEF Original
    <3>4. \A v \in 0..MaxOptionChanges : Comes(p, s, v) => Comes(p, s, v)'
      BY <3>1 DEF Comes
    <3> QED BY <1>4, <2>1, <3>3, <3>4
  <2> QED BY <2>1, <2>4 DEF Original
<1> QED BY <1>5, <1>6, <1>7, <1>8, <1>9 DEF EditorInv

-----------------------------------------------------------------------------
\* A message joins the ones a process has said.
LEMMA SayAdds ==
  ASSUME Editor!EditorTypeOK, NEW p \in AgentProcesses, NEW m \in Editor!Messages, process' = Editor!Say(p, m)
  PROVE  /\ process' \in [AgentProcesses -> Editor!Spawned]
         /\ \A q \in AgentProcesses : /\ process'[q].link = process[q].link /\ process'[q].name = process[q].name
                                      /\ process'[q].state = process[q].state
                                      /\ process'[q].inbox = process[q].inbox \/ q = p
         /\ \A q \in AgentProcesses : \A i \in DOMAIN process[q].inbox :
              i \in DOMAIN process'[q].inbox /\ process'[q].inbox[i] = process[q].inbox[i]
         /\ \A q \in AgentProcesses : \A i \in DOMAIN process'[q].inbox :
              \/ i \in DOMAIN process[q].inbox /\ process'[q].inbox[i] = process[q].inbox[i]
              \/ q = p /\ process'[q].inbox[i] = m /\ \A k \in DOMAIN process'[q].inbox : k # i
                 => k \in DOMAIN process[q].inbox /\ k < i
         /\ \E i \in DOMAIN process'[p].inbox : process'[p].inbox[i] = m
            /\ \A k \in DOMAIN process'[p].inbox : k <= i
<1> DEFINE x == process[p].inbox
           y == Append(x, m)
<1>1. process \in [AgentProcesses -> Editor!Spawned] /\ process[p] \in Editor!Spawned /\ x \in Seq(Editor!Messages)
  BY DEF Editor!EditorTypeOK, Editor!Spawned
<1>2. /\ y \in Seq(Editor!Messages) /\ Len(x) \in Nat /\ DOMAIN x = 1..Len(x)
      /\ DOMAIN y = 1..Len(x) + 1 /\ y # << >>
      /\ \A i \in 1..Len(x) : y[i] = x[i] /\ i \in DOMAIN y
      /\ y[Len(x) + 1] = m
  BY <1>1, AppendProperties
<1>3. process' = [process EXCEPT ![p] = [process[p] EXCEPT !.inbox = y]]
  BY <1>1 DEF Editor!Say
<1> HIDE DEF y
<1>4. [process[p] EXCEPT !.inbox = y] \in Editor!Spawned
  BY <1>1, <1>2, Zenon DEF Editor!Spawned
<1>5. /\ process'[p] = [process[p] EXCEPT !.inbox = y] /\ process'[p].inbox = y
      /\ process'[p].link = process[p].link /\ process'[p].name = process[p].name
         /\ process'[p].state = process[p].state
      /\ \A q \in AgentProcesses : q # p => process'[q] = process[q]
      /\ process' \in [AgentProcesses -> Editor!Spawned]
  BY <1>1, <1>3, <1>4 DEF Editor!Spawned
<1> HIDE DEF x, y
<1>6. process[p].inbox = x /\ process'[p].inbox = y
  BY <1>5 DEF x
<1>7. /\ \A i \in DOMAIN x : i \in DOMAIN y /\ y[i] = x[i]
      /\ \A i \in DOMAIN y : \/ i \in DOMAIN x /\ y[i] = x[i]
                             \/ y[i] = m /\ \A k \in DOMAIN y : k # i => k \in DOMAIN x /\ k < i
      /\ \E i \in DOMAIN y : y[i] = m /\ \A k \in DOMAIN y : k <= i
  BY <1>2
<1>10. /\ \A i \in DOMAIN process[p].inbox :
            i \in DOMAIN process'[p].inbox /\ process'[p].inbox[i] = process[p].inbox[i]
       /\ \A i \in DOMAIN process'[p].inbox :
            \/ i \in DOMAIN process[p].inbox /\ process'[p].inbox[i] = process[p].inbox[i]
            \/ process'[p].inbox[i] = m /\ \A k \in DOMAIN process'[p].inbox : k # i
               => k \in DOMAIN process[p].inbox /\ k < i
  BY <1>6, <1>7
<1>8. ASSUME NEW q \in AgentProcesses
      PROVE  /\ process'[q].link = process[q].link /\ process'[q].name = process[q].name
             /\ process'[q].state = process[q].state
             /\ process'[q].inbox = process[q].inbox \/ q = p
             /\ \A i \in DOMAIN process[q].inbox :
                  i \in DOMAIN process'[q].inbox /\ process'[q].inbox[i] = process[q].inbox[i]
             /\ \A i \in DOMAIN process'[q].inbox :
                  \/ i \in DOMAIN process[q].inbox /\ process'[q].inbox[i] = process[q].inbox[i]
                  \/ q = p /\ process'[q].inbox[i] = m /\ \A k \in DOMAIN process'[q].inbox : k # i
                     => k \in DOMAIN process[q].inbox /\ k < i
  <2>1. CASE q = p
    BY <1>5, <1>10, <2>1, Zenon
  <2>2. CASE q # p
    BY <1>5, <2>2
  <2> QED BY <2>1, <2>2
<1>9. \E i \in DOMAIN process'[p].inbox : process'[p].inbox[i] = m /\ \A k \in DOMAIN process'[p].inbox : k <= i
  BY <1>6, <1>7
<1> QED BY <1>5, <1>8, <1>9

\* What is said of options stays, and what comes of it.
LEMMA SayKeeps ==
  ASSUME Editor!EditorTypeOK, NEW p \in AgentProcesses, NEW m \in Editor!Messages, process' = Editor!Say(p, m),
         m.kind # "options",
         UNCHANGED options
  PROVE  /\ \A q \in AgentProcesses : \A s : Says(q, s)' = Says(q, s)
         /\ \A q \in AgentProcesses : \A s, v : Comes(q, s, v) => Comes(q, s, v)'
<1>1. \A q \in AgentProcesses : \A i \in DOMAIN process[q].inbox :
        i \in DOMAIN process'[q].inbox /\ process'[q].inbox[i] = process[q].inbox[i]
  BY SayAdds
<1>2. \A q \in AgentProcesses : \A i \in DOMAIN process'[q].inbox :
        \/ i \in DOMAIN process[q].inbox /\ process'[q].inbox[i] = process[q].inbox[i]
        \/ process'[q].inbox[i] = m
  BY SayAdds
<1>3. \A q \in AgentProcesses : \A s : Says(q, s)' = Says(q, s)
  BY <1>1, <1>2 DEF Says
<1>4. \A q \in AgentProcesses : \A s : \A i \in Says(q, s) : process'[q].inbox[i] = process[q].inbox[i]
  BY <1>1 DEF Says
<1> QED BY <1>3, <1>4 DEF Comes

\* A command is answered, or told that it failed.
LEMMA TellsSafe ==
  ASSUME EditorInv, NEW c \in Commands, NEW p \in AgentProcesses, NEW m \in Editor!Messages,
         NEW t \in EditorIds \cup {Editor!None},
         command[c].phase = "asked", command[c].process = p, process[p].link = "open", process' = Editor!Say(p, m),
         m.kind \in {"answer", "error"}, m.command = c, m.kind = "answer" => m.session = t,
         m.kind = "answer" /\ command[c].kind # "list" => t # Editor!None,
         command' \in [Commands -> Editor!Commanded], \A d \in Commands : d # c => command'[d] = command[d],
         command'[c].phase = "told", command'[c].session = t, command'[c].kind = command[c].kind,
         command'[c].process = p, command'[c].name = command[c].name,
         \/ t = command[c].session
         \/ command[c].kind \in {"connect", "new"} /\ Editor!Fresh(t) /\ AgentOf[t] = command[c].name
            /\ m.kind = "answer" /\ m.options = options[t] /\ serving'[t] = p,
         serving' \in [EditorIds -> AgentProcesses \cup {Editor!None}],
         \A s \in EditorIds : \/ serving'[s] = serving[s]
                              \/ s = t /\ serving'[s] = p /\ m.kind = "answer"
                                 /\ command[c].kind \notin {"list", "prompt"},
         UNCHANGED <<sessions, owner, current, pending, loading, history, options>>
  PROVE  EditorInv'
<1>1. /\ process' \in [AgentProcesses -> Editor!Spawned]
      /\ \A q \in AgentProcesses : /\ process'[q].link = process[q].link /\ process'[q].name = process[q].name
                                   /\ process'[q].state = process[q].state
                                   /\ process'[q].inbox = process[q].inbox \/ q = p
      /\ \A q \in AgentProcesses : \A i \in DOMAIN process[q].inbox :
           i \in DOMAIN process'[q].inbox /\ process'[q].inbox[i] = process[q].inbox[i]
      /\ \A q \in AgentProcesses : \A i \in DOMAIN process'[q].inbox :
           \/ i \in DOMAIN process[q].inbox /\ process'[q].inbox[i] = process[q].inbox[i]
           \/ q = p /\ process'[q].inbox[i] = m /\ \A k \in DOMAIN process'[q].inbox : k # i
              => k \in DOMAIN process[q].inbox /\ k < i
      /\ \E i \in DOMAIN process'[p].inbox : process'[p].inbox[i] = m /\ \A k \in DOMAIN process'[p].inbox : k <= i
  BY SayAdds DEF EditorInv
<1>3. /\ \A q \in AgentProcesses : \A s : Says(q, s)' = Says(q, s)
      /\ \A q \in AgentProcesses : \A s, v : Comes(q, s, v) => Comes(q, s, v)'
  BY SayKeeps DEF EditorInv
<1>5. t # Editor!None /\ t # command[c].session => t \in EditorIds \ OldIds /\ serving[t] = Editor!None
  /\ command[c].kind \in {"connect", "new"}
  BY DEF Editor!Fresh
<1>6. Editor!EditorTypeOK' /\ ProcessInv'
  <2>1. Editor!EditorTypeOK'
    BY <1>1 DEF EditorInv, Editor!EditorTypeOK
  <2>2. \A q \in AgentProcesses : process'[q].link # "open" => process'[q].inbox = process[q].inbox
    BY <1>1
  <2> QED BY <1>1, <2>1, <2>2 DEF EditorInv, ProcessInv
<1>7. SessionInv'
  <2>1. \A s \in EditorIds : serving'[s] # Editor!None => process'[serving'[s]].link \in Past
    <3> SUFFICES ASSUME NEW s \in EditorIds, serving'[s] # Editor!None PROVE process'[serving'[s]].link \in Past
      OBVIOUS
    <3>1. CASE serving'[s] = p
      BY <1>1, <3>1 DEF Past
    <3>2. CASE serving'[s] = serving[s]
      BY <1>1, <3>2 DEF EditorInv, Editor!EditorTypeOK, SessionInv
    <3> QED BY <3>1, <3>2
  <2>2. \A s \in EditorIds : Editor!Registered(s) => sessions[s].process \in AgentProcesses
    BY DEF EditorInv, Editor!EditorTypeOK, Editor!Entries, Editor!Registered
  <2>3. /\ \A s \in EditorIds : Editor!Registered(s)' = Editor!Registered(s)
        /\ \A s \in EditorIds : Editor!Registered(s) => Editor!NameOf(s)' = Editor!NameOf(s)
           /\ process'[sessions[s].process].link = process[sessions[s].process].link
    BY <1>1, <2>2 DEF Editor!Registered, Editor!NameOf
  <2>4. current \in EditorIds \cup {Editor!None} /\ \A n \in Agents : owner[n] \in EditorIds \cup {Editor!None}
    BY DEF EditorInv, Editor!EditorTypeOK
  <2> QED BY <2>1, <2>3, <2>4 DEF EditorInv, SessionInv
<1>8. CommandInv'
  <2>1. \A d \in Commands : d # c => Fits(d)'
    <3> SUFFICES ASSUME NEW d \in Commands, d # c PROVE Fits(d)'
      OBVIOUS
    <3>1. Fits(d) /\ command'[d] = command[d]
      BY DEF EditorInv, CommandInv
    <3>2. command[d].process \in AgentProcesses =>
            /\ process'[command[d].process].name = process[command[d].process].name
            /\ process'[command[d].process].link = process[command[d].process].link
      BY <1>1
    <3> QED BY <3>1, <3>2 DEF Fits, Early, AnsweredPhases, Requested
  <2>2. Fits(c)'
    <3>1. Fits(c)
      BY DEF EditorInv, CommandInv
    <3>2. process'[p].link \in Past /\ process'[p].name = command[c].name
      BY <1>1, <3>1 DEF Fits, Early, Past
    <3> QED BY <3>1, <3>2 DEF Fits, Early, AnsweredPhases, Requested
  <2>3. \A d \in Commands : command'[d].phase = "initializing" => d # c /\ command'[d] = command[d]
    OBVIOUS
  <2> QED BY <2>1, <2>2, <2>3 DEF EditorInv, CommandInv
<1>9. MessageInv'
  <2> SUFFICES ASSUME NEW q \in AgentProcesses, NEW i \in DOMAIN process'[q].inbox
               PROVE  LET r == process'[q].inbox[i]
                      IN  /\ r.kind = "options" => r.session # Editor!None
                          /\ r.kind # "options" =>
                               /\ r.command # Editor!None /\ command'[r.command].phase = "told"
                                  /\ command'[r.command].process = q
                               /\ r.kind = "answer" => r.session = command'[r.command].session
                               /\ r.kind = "answer" /\ command'[r.command].kind # "list" => r.session # Editor!None
                               /\ \A k \in DOMAIN process'[q].inbox :
                                    process'[q].inbox[k].kind # "options"
                                      /\ process'[q].inbox[k].command = r.command => i = k
    BY DEF MessageInv
  <2>1. ASSUME NEW k \in DOMAIN process[q].inbox, process[q].inbox[k].kind # "options"
        PROVE  process[q].inbox[k].command \in Commands /\ process[q].inbox[k].command # c
    <3>1. process[q].inbox[k] \in Editor!Messages
      BY DEF EditorInv, Editor!EditorTypeOK, Editor!Spawned
    <3> QED BY <2>1, <3>1 DEF EditorInv, MessageInv, Editor!Messages
  <2>2. CASE q = p /\ process'[q].inbox[i] = m /\ \A k \in DOMAIN process'[q].inbox : k # i
    => k \in DOMAIN process[q].inbox
    BY <1>1, <2>1, <2>2, EditorNames
  <2>3. CASE i \in DOMAIN process[q].inbox /\ process'[q].inbox[i] = process[q].inbox[i]
    <3> DEFINE r == process[q].inbox[i]
    <3>1. i \in DOMAIN process[q].inbox /\ process'[q].inbox[i] = r
      BY <2>3
    <3>2. /\ r.kind = "options" => r.session # Editor!None
          /\ r.kind # "options" =>
               /\ r.command # Editor!None /\ command[r.command].phase = "told" /\ command[r.command].process = q
               /\ r.kind = "answer" => r.session = command[r.command].session
               /\ r.kind = "answer" /\ command[r.command].kind # "list" => r.session # Editor!None
               /\ \A k \in DOMAIN process[q].inbox :
                    process[q].inbox[k].kind # "options" /\ process[q].inbox[k].command = r.command => i = k
      BY <3>1 DEF EditorInv, MessageInv
    <3>3. r.kind # "options" => r.command \in Commands /\ r.command # c /\ command'[r.command] = command[r.command]
      BY <2>1, <3>1
    <3>4. \A k \in DOMAIN process'[q].inbox :
            \/ k \in DOMAIN process[q].inbox /\ process'[q].inbox[k] = process[q].inbox[k]
            \/ process'[q].inbox[k].command = c
      BY <1>1
    <3> HIDE DEF r
    <3> QED BY <3>1, <3>2, <3>3, <3>4
  <2>4. \/ q = p /\ process'[q].inbox[i] = m /\ \A k \in DOMAIN process'[q].inbox : k # i
           => k \in DOMAIN process[q].inbox
        \/ i \in DOMAIN process[q].inbox /\ process'[q].inbox[i] = process[q].inbox[i]
    BY <1>1
  <2> QED BY <2>2, <2>3, <2>4
<1>10. LoadingInv' /\ PromptsInv'
  <2>1. Editor!LoadingIsLoaded'
    BY <1>5 DEF EditorInv, LoadingInv, Editor!LoadingIsLoaded
  <2>2. \A d \in Commands : command'[d].kind = "load" /\ command'[d].phase \in Requested
                              => command[d].kind = "load" /\ command[d].phase \in Requested
                                /\ command'[d].session = command[d].session
    BY <1>5 DEF Requested
  <2>3. PromptsInv'
    BY <1>5 DEF EditorInv, PromptsInv
  <2> QED BY <2>1, <2>2, <2>3 DEF EditorInv, LoadingInv
<1>11. NewInv'
  <2> SUFFICES ASSUME NEW s \in EditorIds \ OldIds, serving'[s] = Editor!None
               PROVE  /\ pending[s] = -1 /\ ~Editor!Registered(s) /\ s \notin history
                      /\ \A d \in Commands : command'[d].session # s
                      /\ \A q \in AgentProcesses : Says(q, s)' = {}
    BY DEF NewInv, Editor!Registered
  <2>1. serving[s] = Editor!None /\ s # t
    BY <1>5, EditorNames DEF EditorInv, NewInv, Editor!Fresh
  <2> QED BY <1>3, <2>1 DEF EditorInv, NewInv
<1>12. CreatingInv'
  <2> SUFFICES ASSUME NEW d \in Commands, NEW s \in EditorIds, NEW q \in AgentProcesses,
                      Creates(d)', command'[d].session = s, command'[d].process = q
               PROVE  Creating(d, s, q)'
    BY DEF CreatingInv
  <2>1. CASE d # c
    <3>1. command'[d] = command[d] /\ Creates(d) /\ command[d].session = s /\ command[d].process = q
      BY <2>1 DEF Creates
    <3>2. Creating(d, s, q)
      BY <3>1 DEF EditorInv, CreatingInv
    <3>3. s # t
      BY <1>5, <2>1, <3>2, EditorNames DEF Creating
    <3>4. /\ ~Editor!Registered(s)' /\ s \notin history' /\ s \notin OldIds /\ serving'[s] = q
          /\ \A e \in Commands : e # d => command'[e].session # s
          /\ \A r \in AgentProcesses : r # q => Says(r, s)' = {}
      BY <1>3, <1>5, <3>2, <3>3 DEF Creating, Editor!Registered
    <3>5. \A i \in DOMAIN process'[q].inbox :
            process'[q].inbox[i].kind = "answer" /\ process'[q].inbox[i].command = d
              => i \in DOMAIN process[q].inbox /\ process'[q].inbox[i] = process[q].inbox[i]
      BY <1>1, <2>1
    <3> QED BY <1>1, <1>3, <3>1, <3>2, <3>4, <3>5 DEF Creating
  <2>2. CASE d = c
    <3>1. t \in EditorIds \ OldIds /\ serving[t] = Editor!None /\ m.kind = "answer" /\ m.options = options[t]
      /\ serving'[t] = p
          /\ s = t /\ q = p
      <4>1. command[c].session = Editor!None
        BY <2>2 DEF EditorInv, CommandInv, Fits, Creates
      <4> QED BY <1>5, <2>2, <4>1, EditorNames
    <3>2. /\ pending[t] = -1 /\ ~Editor!Registered(t) /\ t \notin history
          /\ \A e \in Commands : command[e].session # t
          /\ \A r \in AgentProcesses : Says(r, t) = {}
      BY <3>1 DEF EditorInv, NewInv
    <3>3. ASSUME NEW i \in DOMAIN process'[p].inbox,
                 process'[p].inbox[i].kind = "answer", process'[p].inbox[i].command = c
          PROVE  process'[p].inbox[i] = m
      <4>1. ASSUME i \in DOMAIN process[p].inbox PROVE FALSE
        BY <1>1, <3>3, <4>1 DEF EditorInv, MessageInv
      <4> QED BY <1>1, <4>1
    <3>4. Comes(p, t, options[t])'
      BY <1>3, <3>2 DEF Comes
    <3> QED BY <1>3, <2>2, <3>1, <3>2, <3>3, <3>4 DEF Creating, Editor!Registered
  <2> QED BY <2>1, <2>2
<1>13. CreatedInv'
  <2> SUFFICES ASSUME NEW s \in EditorIds, NEW q \in AgentProcesses, sessions[s].process = q, sessions[s].created
               PROVE  Original(s, q)'
    BY DEF CreatedInv
  <2>1. Original(s, q) /\ Editor!Registered(s)
    BY EditorNames DEF EditorInv, CreatedInv, Editor!Registered
  <2>2. ASSUME NEW d \in Commands PROVE
          /\ command[d].kind = "resume" /\ command[d].session = s /\ command[d].process = q
          /\ \/ command[d].phase = "answered" /\ command[d].answer = "answer"
             \/ command[d].phase = "told" /\ \E i \in DOMAIN process[q].inbox :
                   process[q].inbox[i].kind = "answer" /\ process[q].inbox[i].command = d
          => Reopened(s, q)'
    <3>1. \A i \in DOMAIN process[q].inbox : i \in DOMAIN process'[q].inbox
      /\ process'[q].inbox[i] = process[q].inbox[i]
      BY <1>1
    <3> QED BY <3>1 DEF Reopened
  <2>3. Reopened(s, q) => Reopened(s, q)'
    BY <2>2 DEF Reopened
  <2>4. serving'[s] = q /\ serving[s] # q => Reopened(s, q)'
    <3> SUFFICES ASSUME serving'[s] = q, serving[s] # q PROVE Reopened(s, q)'
      OBVIOUS
    <3>1. s = t /\ q = p /\ m.kind = "answer" /\ command[c].kind \notin {"list", "prompt"}
      BY <1>5
    <3>2. ~(s \notin OldIds /\ serving[s] = Editor!None)
      BY <2>1 DEF EditorInv, NewInv
    <3>3. command[c].session = s /\ command[c].kind \in {"load", "resume"}
      <4>1. t = command[c].session
        BY <1>5, <3>1, <3>2
      <4>2. command[c].kind \in Editor!Kinds \ {"disconnect"}
        BY DEF EditorInv, Editor!EditorTypeOK, Editor!Commanded, CommandInv, Fits
      <4>3. command[c].kind \notin {"connect", "new"}
        BY <3>1, <4>1, EditorNames DEF EditorInv, CommandInv, Fits
      <4> QED BY <3>1, <4>1, <4>2, <4>3 DEF Editor!Kinds
    <3>4. command[c].kind # "load"
      BY <3>3 DEF EditorInv, LoadingInv, Requested
    <3>5. \E i \in DOMAIN process'[p].inbox : process'[p].inbox[i] = m
      BY <1>1
    <3> QED BY <3>1, <3>3, <3>4, <3>5 DEF Reopened
  <2> QED BY <1>1, <1>3, <2>1, <2>3, <2>4 DEF Original
<1> QED BY <1>6, <1>7, <1>8, <1>9, <1>10, <1>11, <1>12, <1>13 DEF EditorInv

\* An agent changes the options of a session, and says so.
LEMMA ChangesSafe ==
  ASSUME EditorInv, NEW t \in EditorIds, Editor!Changes(t)
  PROVE  EditorInv'
<1> DEFINE p == serving[t]
           m == Editor!Message("options", Editor!None, t, options[t] + 1)
<1>1. /\ p \in AgentProcesses /\ process[p].link = "open" /\ m \in Editor!Messages /\ m.kind = "options"
         /\ m.session = t
      /\ m.options = options'[t] /\ options' \in [EditorIds -> 0..MaxOptionChanges] /\ process' = Editor!Say(p, m)
      /\ \A s \in EditorIds : s # t => options'[s] = options[s]
      /\ UNCHANGED <<sessions, owner, current, pending, loading, command, history, serving>>
  <2>1. options \in [EditorIds -> 0..MaxOptionChanges]
    /\ serving \in [EditorIds -> AgentProcesses \cup {Editor!None}]
    BY DEF EditorInv, Editor!EditorTypeOK
  <2>2. /\ p # Editor!None /\ process[p].link = "open" /\ options[t] < MaxOptionChanges
        /\ options' = [options EXCEPT ![t] = options[t] + 1] /\ process' = Editor!Say(p, m)
        /\ UNCHANGED <<sessions, owner, current, pending, loading, command, history, serving>>
    BY DEF Editor!Changes
  <2>3. options[t] + 1 \in 0..MaxOptionChanges
    BY <2>1, <2>2, EditorNames
  <2>4. m \in Editor!Messages /\ m.kind = "options" /\ m.session = t /\ m.options = options[t] + 1
    BY <2>3 DEF Editor!Message, Editor!Messages
  <2> QED BY <2>1, <2>2, <2>3, <2>4
<1> HIDE DEF m
<1>2. PICK n : n = p
  OBVIOUS
<1>3. /\ process' \in [AgentProcesses -> Editor!Spawned]
      /\ \A q \in AgentProcesses : /\ process'[q].link = process[q].link /\ process'[q].name = process[q].name
                                   /\ process'[q].state = process[q].state
                                   /\ process'[q].inbox = process[q].inbox \/ q = n
      /\ \A q \in AgentProcesses : \A i \in DOMAIN process[q].inbox :
           i \in DOMAIN process'[q].inbox /\ process'[q].inbox[i] = process[q].inbox[i]
      /\ \A q \in AgentProcesses : \A i \in DOMAIN process'[q].inbox :
           \/ i \in DOMAIN process[q].inbox /\ process'[q].inbox[i] = process[q].inbox[i]
           \/ q = n /\ process'[q].inbox[i] = m /\ \A k \in DOMAIN process'[q].inbox : k # i
              => k \in DOMAIN process[q].inbox /\ k < i
      /\ \E i \in DOMAIN process'[n].inbox : process'[n].inbox[i] = m /\ \A k \in DOMAIN process'[n].inbox : k <= i
  BY <1>1, <1>2, SayAdds DEF EditorInv
<1>4. /\ n \in AgentProcesses /\ process[n].link = "open" /\ serving[t] = n
      /\ m.kind = "options" /\ m.session = t /\ m.options = options'[t]
      /\ UNCHANGED <<sessions, owner, current, pending, loading, command, history, serving>>
      /\ options' \in [EditorIds -> 0..MaxOptionChanges] /\ \A s \in EditorIds : s # t => options'[s] = options[s]
  BY <1>1, <1>2
<1> HIDE DEF p
<1>5. \A q \in AgentProcesses : \A s \in EditorIds : q # n \/ s # t => Says(q, s)' = Says(q, s)
  BY <1>3, <1>4 DEF Says
<1>6. ASSUME NEW q \in AgentProcesses, NEW s \in EditorIds, NEW v, Comes(q, s, v), s # t PROVE Comes(q, s, v)'
  <2>1. Says(q, s)' = Says(q, s) /\ \A i \in Says(q, s) : process'[q].inbox[i] = process[q].inbox[i]
    BY <1>3, <1>5, <1>6 DEF Says
  <2> QED BY <1>4, <1>6, <2>1 DEF Comes
<1>7. /\ \A v : Comes(n, t, v)'
      /\ \A k \in Says(n, t)' : k \in Says(n, t) \/ \A i \in DOMAIN process'[n].inbox : i # k => i < k
  <2>1. PICK i \in DOMAIN process'[n].inbox : process'[n].inbox[i] = m /\ \A k \in DOMAIN process'[n].inbox : k <= i
    BY <1>3
  <2>2. i \in Says(n, t)' /\ \A k \in Says(n, t)' : k <= i
    BY <1>4, <2>1 DEF Says
  <2>3. \A k \in Says(n, t)' : i <= k => k = i
    <3>1. \A k \in DOMAIN process'[n].inbox : k \in Nat
      <4>1. process'[n].inbox \in Seq(Editor!Messages)
        BY <1>3, <1>4 DEF Editor!Spawned
      <4> QED BY <4>1
    <3> QED BY <2>1, <2>2, <3>1 DEF Says
  <2>4. \A v : Comes(n, t, v)'
    BY <1>4, <2>1, <2>2, <2>3 DEF Comes
  <2>5. \A k \in Says(n, t)' : k \in Says(n, t) \/ \A j \in DOMAIN process'[n].inbox : j # k => j < k
    BY <1>3, <1>4 DEF Says
  <2> QED BY <2>4, <2>5
<1>8. Editor!EditorTypeOK' /\ ProcessInv' /\ LoadingInv' /\ PromptsInv'
  <2>1. Editor!EditorTypeOK'
    BY <1>3, <1>4 DEF EditorInv, Editor!EditorTypeOK
  <2>2. \A q \in AgentProcesses : process'[q].link # "open" => process'[q].inbox = process[q].inbox
    BY <1>3, <1>4
  <2>3. ProcessInv'
    BY <1>3, <2>2 DEF EditorInv, ProcessInv
  <2> QED BY <1>4, <2>1, <2>3 DEF EditorInv, LoadingInv, Editor!LoadingIsLoaded, PromptsInv
<1>9. CommandInv'
  <2>1. ASSUME NEW d \in Commands PROVE Fits(d)'
    <3>1. Fits(d)
      BY DEF EditorInv, CommandInv
    <3>2. command[d].process \in AgentProcesses =>
            /\ process'[command[d].process].name = process[command[d].process].name
            /\ process'[command[d].process].link = process[command[d].process].link
      BY <1>3
    <3> QED BY <1>4, <3>1, <3>2 DEF Fits, Early, AnsweredPhases, Requested
  <2> QED BY <1>4, <2>1 DEF EditorInv, CommandInv
<1>10. SessionInv'
  <2>1. \A s \in EditorIds : serving[s] # Editor!None => process'[serving[s]].link \in Past
    BY <1>3 DEF EditorInv, Editor!EditorTypeOK, SessionInv
  <2>2. \A s \in EditorIds : Editor!Registered(s) => sessions[s].process \in AgentProcesses
    BY DEF EditorInv, Editor!EditorTypeOK, Editor!Entries, Editor!Registered
  <2>3. /\ \A s \in EditorIds : Editor!Registered(s)' = Editor!Registered(s)
        /\ \A s \in EditorIds : Editor!Registered(s) => Editor!NameOf(s)' = Editor!NameOf(s)
           /\ process'[sessions[s].process].link = process[sessions[s].process].link
    BY <1>3, <1>4, <2>2 DEF Editor!Registered, Editor!NameOf
  <2>4. current \in EditorIds \cup {Editor!None} /\ \A r \in Agents : owner[r] \in EditorIds \cup {Editor!None}
    BY DEF EditorInv, Editor!EditorTypeOK
  <2> QED BY <1>4, <2>1, <2>3, <2>4 DEF EditorInv, SessionInv
<1>11. MessageInv'
  <2> SUFFICES ASSUME NEW q \in AgentProcesses, NEW i \in DOMAIN process'[q].inbox
               PROVE  LET r == process'[q].inbox[i]
                      IN  /\ r.kind = "options" => r.session # Editor!None
                          /\ r.kind # "options" =>
                               /\ r.command # Editor!None /\ command'[r.command].phase = "told"
                                  /\ command'[r.command].process = q
                               /\ r.kind = "answer" => r.session = command'[r.command].session
                               /\ r.kind = "answer" /\ command'[r.command].kind # "list" => r.session # Editor!None
                               /\ \A k \in DOMAIN process'[q].inbox :
                                    process'[q].inbox[k].kind # "options"
                                      /\ process'[q].inbox[k].command = r.command => i = k
    BY DEF MessageInv
  <2>1. CASE process'[q].inbox[i] = m
    BY <1>4, <2>1, EditorNames
  <2>2. CASE i \in DOMAIN process[q].inbox /\ process'[q].inbox[i] = process[q].inbox[i]
    <3> DEFINE r == process[q].inbox[i]
    <3>1. /\ r.kind = "options" => r.session # Editor!None
          /\ r.kind # "options" =>
               /\ r.command # Editor!None /\ command[r.command].phase = "told" /\ command[r.command].process = q
               /\ r.kind = "answer" => r.session = command[r.command].session
               /\ r.kind = "answer" /\ command[r.command].kind # "list" => r.session # Editor!None
               /\ \A k \in DOMAIN process[q].inbox :
                    process[q].inbox[k].kind # "options" /\ process[q].inbox[k].command = r.command => i = k
      BY <2>2 DEF EditorInv, MessageInv
    <3>2. \A k \in DOMAIN process'[q].inbox :
            \/ k \in DOMAIN process[q].inbox /\ process'[q].inbox[k] = process[q].inbox[k]
            \/ process'[q].inbox[k].kind = "options"
      BY <1>3, <1>4
    <3> QED BY <1>4, <2>2, <3>1, <3>2
  <2> QED BY <1>3, <2>1, <2>2
<1>12. NewInv'
  <2> SUFFICES ASSUME NEW s \in EditorIds \ OldIds, serving[s] = Editor!None
               PROVE  /\ pending[s] = -1 /\ ~Editor!Registered(s) /\ s \notin history
                      /\ \A d \in Commands : command[d].session # s
                      /\ \A q \in AgentProcesses : Says(q, s)' = {}
    BY <1>4 DEF NewInv, Editor!Registered
  <2>1. s # t
    BY <1>4, EditorNames
  <2> QED BY <1>5, <2>1 DEF EditorInv, NewInv
<1>13. CreatingInv'
  <2> SUFFICES ASSUME NEW d \in Commands, NEW s \in EditorIds, NEW q \in AgentProcesses,
                      Creates(d), command[d].session = s, command[d].process = q
               PROVE  Creating(d, s, q)'
    BY <1>4 DEF CreatingInv, Creates
  <2>1. Creating(d, s, q)
    BY DEF EditorInv, CreatingInv
  <2>2. s = t => q = n
    BY <1>4, <2>1 DEF Creating
  <2>3. \A v \in 0..MaxOptionChanges : Comes(q, s, v) => Comes(q, s, v)'
    BY <1>6, <1>7, <2>2
  <2>4. \A r \in AgentProcesses : r # q => Says(r, s)' = {}
    BY <1>5, <2>1, <2>2 DEF Creating
  <2>5. ASSUME NEW i \in DOMAIN process'[q].inbox, process[q].link = "open", command[d].phase = "told",
               process'[q].inbox[i].kind = "answer", process'[q].inbox[i].command = d
        PROVE  /\ pending[s] = -1
               /\ \A v \in 0..MaxOptionChanges : process'[q].inbox[i].options = v => Comes(q, s, v)'
               /\ \A k \in Says(q, s)' : i < k
    <3>1. i \in DOMAIN process[q].inbox /\ process'[q].inbox[i] = process[q].inbox[i]
      BY <1>3, <1>4, <2>5
    <3>2. /\ pending[s] = -1
          /\ \A v \in 0..MaxOptionChanges : process[q].inbox[i].options = v => Comes(q, s, v)
          /\ \A k \in Says(q, s) : i < k
      BY <2>1, <2>5, <3>1 DEF Creating
    <3>3. ASSUME NEW k \in Says(q, s)' PROVE i < k
      <4>1. CASE k \in Says(q, s)
        BY <3>2, <4>1
      <4>2. CASE k \notin Says(q, s)
        <5>1. s = t /\ q = n
          BY <1>5, <2>2, <4>2
        <5>2. i # k
          BY <2>5, <3>3 DEF Says
        <5> QED BY <1>7, <4>2, <5>1, <5>2
      <4> QED BY <4>1, <4>2
    <3> QED BY <2>3, <3>1, <3>2, <3>3
  <2> QED BY <1>3, <1>4, <2>1, <2>3, <2>4, <2>5 DEF Creating, Editor!Registered
<1>14. CreatedInv'
  <2> SUFFICES ASSUME NEW s \in EditorIds, NEW q \in AgentProcesses, sessions[s].process = q, sessions[s].created
               PROVE  Original(s, q)'
    BY <1>4 DEF CreatedInv
  <2>1. Original(s, q)
    BY DEF EditorInv, CreatedInv
  <2>2. Reopened(s, q) => Reopened(s, q)'
    BY <1>3, <1>4 DEF Reopened
  <2>3. ASSUME process'[q].link = "open", serving'[s] = q, ~Reopened(s, q)'
        PROVE  /\ \A r \in AgentProcesses : r # q => Says(r, s)' = {}
               /\ \A v \in 0..MaxOptionChanges : sessions'[s].options = v => Comes(q, s, v)'
    <3>1. /\ \A r \in AgentProcesses : r # q => Says(r, s) = {}
          /\ \A v \in 0..MaxOptionChanges : sessions[s].options = v => Comes(q, s, v)
      BY <1>3, <1>4, <2>1, <2>2, <2>3 DEF Original
    <3>2. s = t => q = n
      BY <1>4, <2>3
    <3> QED BY <1>4, <1>5, <1>6, <1>7, <3>1, <3>2
  <2> QED BY <2>1, <2>3 DEF Original
<1> QED BY <1>8, <1>9, <1>10, <1>11, <1>12, <1>13, <1>14 DEF EditorInv

\* What is left when a message has been read.
LEMMA TailLeaves ==
  ASSUME Editor!EditorTypeOK, NEW p \in AgentProcesses, process[p].inbox # << >>,
         process' = [process EXCEPT ![p].inbox = Tail(@)]
  PROVE  /\ process' \in [AgentProcesses -> Editor!Spawned]
         /\ \A q \in AgentProcesses : /\ process'[q].link = process[q].link /\ process'[q].name = process[q].name
                                      /\ process'[q].state = process[q].state
                                      /\ process'[q].inbox = process[q].inbox \/ q = p
         /\ Head(process[p].inbox) = process[p].inbox[1] /\ 1 \in DOMAIN process[p].inbox
         /\ process[p].inbox[1] \in Editor!Messages
         /\ \A i \in DOMAIN process'[p].inbox :
              i \in Nat /\ i + 1 \in DOMAIN process[p].inbox /\ process'[p].inbox[i] = process[p].inbox[i + 1]
         /\ \A i \in DOMAIN process[p].inbox :
              i \in Nat /\ i >= 1 /\ (i # 1 => i - 1 \in DOMAIN process'[p].inbox
                /\ process'[p].inbox[i - 1] = process[p].inbox[i])
<1> DEFINE x == process[p].inbox
           y == Tail(x)
<1>1. process \in [AgentProcesses -> Editor!Spawned] /\ process[p] \in Editor!Spawned /\ x \in Seq(Editor!Messages)
  BY DEF Editor!EditorTypeOK, Editor!Spawned
<1>2. /\ y \in Seq(Editor!Messages) /\ Len(x) \in Nat /\ DOMAIN x = 1..Len(x) /\ Len(x) >= 1
      /\ DOMAIN y = 1..Len(x) - 1 /\ Head(x) = x[1] /\ x[1] \in Editor!Messages
      /\ \A i \in 1..Len(x) - 1 : y[i] = x[i + 1]
  BY <1>1, HeadTailProperties
<1>3. process' = [process EXCEPT ![p] = [process[p] EXCEPT !.inbox = y]]
  BY <1>1
<1>4. [process[p] EXCEPT !.inbox = y] \in Editor!Spawned
  BY <1>1, <1>2, Zenon DEF Editor!Spawned
<1> HIDE DEF y
<1>5. /\ process'[p] = [process[p] EXCEPT !.inbox = y] /\ process'[p].inbox = y
      /\ process'[p].link = process[p].link /\ process'[p].name = process[p].name
         /\ process'[p].state = process[p].state
      /\ \A q \in AgentProcesses : q # p => process'[q] = process[q]
      /\ process' \in [AgentProcesses -> Editor!Spawned]
  <2>1. /\ process'[p] = [process[p] EXCEPT !.inbox = y]
        /\ \A q \in AgentProcesses : q # p => process'[q] = process[q]
        /\ process' \in [AgentProcesses -> Editor!Spawned]
    BY <1>1, <1>3, <1>4, Zenon
  <2>2. /\ [process[p] EXCEPT !.inbox = y].inbox = y /\ [process[p] EXCEPT !.inbox = y].link = process[p].link
        /\ [process[p] EXCEPT !.inbox = y].name = process[p].name
        /\ [process[p] EXCEPT !.inbox = y].state = process[p].state
    BY <1>1 DEF Editor!Spawned
  <2> QED BY <2>1, <2>2, Zenon
<1> HIDE DEF x
<1>6. process[p].inbox = x /\ process'[p].inbox = y
  BY <1>5 DEF x
<1>7. /\ \A i \in DOMAIN y : i \in Nat /\ i + 1 \in DOMAIN x /\ y[i] = x[i + 1]
      /\ \A i \in DOMAIN x : i \in Nat /\ i >= 1 /\ (i # 1 => i - 1 \in DOMAIN y /\ y[i - 1] = x[i])
      /\ 1 \in DOMAIN x
  BY <1>2
<1>8. ASSUME NEW q \in AgentProcesses
      PROVE  /\ process'[q].link = process[q].link /\ process'[q].name = process[q].name
             /\ process'[q].state = process[q].state
             /\ process'[q].inbox = process[q].inbox \/ q = p
  BY <1>5
<1> QED BY <1>2, <1>5, <1>6, <1>7, <1>8

\* What is left of what was said, and what comes of it: the same, or what was read.
LEMMA TailKeeps ==
  ASSUME Editor!EditorTypeOK, NEW p \in AgentProcesses, process[p].inbox # << >>,
         process' = [process EXCEPT ![p].inbox = Tail(@)], UNCHANGED options
  PROVE  /\ \A q \in AgentProcesses : \A s : Says(q, s) = {} => Says(q, s)' = {}
         /\ \A s : \A k \in Says(p, s)' : k \in Nat /\ k + 1 \in Says(p, s)
         /\ \A q \in AgentProcesses : \A s, v :
              Comes(q, s, v) /\ (q = p => 1 \notin Says(p, s)) => Comes(q, s, v)'
         /\ \A s, v, w : Comes(p, s, v) /\ 1 \in Says(p, s) /\ process[p].inbox[1].options = w => Comes(p, s, w)'
<1>1. /\ \A q \in AgentProcesses : process'[q].inbox = process[q].inbox \/ q = p
      /\ 1 \in DOMAIN process[p].inbox
      /\ \A i \in DOMAIN process'[p].inbox :
           i \in Nat /\ i + 1 \in DOMAIN process[p].inbox /\ process'[p].inbox[i] = process[p].inbox[i + 1]
      /\ \A i \in DOMAIN process[p].inbox :
           i \in Nat /\ i >= 1 /\ (i # 1 => i - 1 \in DOMAIN process'[p].inbox
             /\ process'[p].inbox[i - 1] = process[p].inbox[i])
  BY TailLeaves, Zenon
<1>2. ASSUME NEW s
      PROVE  /\ \A k \in Says(p, s)' : k \in Nat /\ k + 1 \in Says(p, s)
                /\ process'[p].inbox[k] = process[p].inbox[k + 1]
             /\ \A k \in Says(p, s) : k \in Nat /\ k >= 1 /\ (k # 1 => k - 1 \in Says(p, s)')
  BY <1>1, Zenon DEF Says
<1>3. \A q \in AgentProcesses : \A s : Says(q, s) = {} => Says(q, s)' = {}
  <2> SUFFICES ASSUME NEW q \in AgentProcesses, NEW s, Says(q, s) = {} PROVE Says(q, s)' = {}
    OBVIOUS
  <2>1. CASE q = p
    BY <1>2, <2>1
  <2>2. CASE process'[q].inbox = process[q].inbox
    BY <2>2, Zenon DEF Says
  <2> QED BY <1>1, <2>1, <2>2
<1>4. ASSUME NEW s, NEW v, NEW w, Comes(p, s, v),
             IF 1 \in Says(p, s) THEN process[p].inbox[1].options = w ELSE v = w
      PROVE  Comes(p, s, w)'
  <2>1. ASSUME Says(p, s)' = {} PROVE w = options[s]
    <3>1. \A k \in Says(p, s) : k = 1
      BY <1>2, <2>1
    <3>2. CASE 1 \in Says(p, s)
      BY <1>4, <3>1, <3>2 DEF Comes
    <3>3. CASE 1 \notin Says(p, s)
      BY <1>4, <3>1, <3>3 DEF Comes
    <3> QED BY <3>2, <3>3
  <2>2. ASSUME NEW i \in Says(p, s)', \A k \in Says(p, s)' : k <= i PROVE process'[p].inbox[i].options = options[s]
    <3>1. i \in Nat /\ i + 1 \in Says(p, s) /\ process'[p].inbox[i] = process[p].inbox[i + 1]
      BY <1>2, Zenon
    <3>2. ASSUME NEW k \in Says(p, s) PROVE k <= i + 1
      <4>1. k \in Nat /\ k >= 1 /\ (k # 1 => k - 1 <= i)
        BY <1>2, <2>2
      <4> QED BY <3>1, <4>1
    <3> QED BY <1>4, <3>1, <3>2, Zenon DEF Comes
  <2> QED BY <2>1, <2>2, Zenon DEF Comes
<1>5. ASSUME NEW q \in AgentProcesses, NEW s, NEW v, Comes(q, s, v), q # p PROVE Comes(q, s, v)'
  <2>1. process'[q].inbox = process[q].inbox
    BY <1>1, <1>5
  <2> QED BY <1>5, <2>1 DEF Comes, Says
<1> QED BY <1>2, <1>3, <1>4, <1>5

\* A message is read: an update is applied or kept, an answer wakes its command.
LEMMA ReceivesSafe ==
  ASSUME EditorInv, NEW p \in AgentProcesses, Editor!Receives(p)
  PROVE  EditorInv'
<1> DEFINE m == process[p].inbox[1]
           t == m.session
           c == m.command
<1>1. /\ process[p].link = "open" /\ process[p].inbox # << >> /\ process' = [process EXCEPT ![p].inbox = Tail(@)]
      /\ Head(process[p].inbox) = m /\ m \in Editor!Messages /\ 1 \in DOMAIN process[p].inbox
      /\ UNCHANGED <<owner, current, loading, history, options, serving>>
  BY TailLeaves, Zenon DEF Editor!Receives, EditorInv
<1>2. /\ process' \in [AgentProcesses -> Editor!Spawned]
      /\ \A q \in AgentProcesses : /\ process'[q].link = process[q].link /\ process'[q].name = process[q].name
                                   /\ process'[q].state = process[q].state
                                   /\ process'[q].inbox = process[q].inbox \/ q = p
      /\ \A i \in DOMAIN process'[p].inbox :
           i \in Nat /\ i + 1 \in DOMAIN process[p].inbox /\ process'[p].inbox[i] = process[p].inbox[i + 1]
      /\ \A i \in DOMAIN process[p].inbox :
           i \in Nat /\ i >= 1 /\ (i # 1 => i - 1 \in DOMAIN process'[p].inbox
             /\ process'[p].inbox[i - 1] = process[p].inbox[i])
  BY <1>1, TailLeaves, Zenon DEF EditorInv
<1>3. /\ \A q \in AgentProcesses : \A s : Says(q, s) = {} => Says(q, s)' = {}
      /\ \A s : \A k \in Says(p, s)' : k \in Nat /\ k + 1 \in Says(p, s)
      /\ \A q \in AgentProcesses : \A s, v : Comes(q, s, v) /\ (q = p => 1 \notin Says(p, s)) => Comes(q, s, v)'
      /\ \A s, v, w : Comes(p, s, v) /\ 1 \in Says(p, s) /\ m.options = w => Comes(p, s, w)'
  BY <1>1, TailKeeps, ZenonT(30) DEF EditorInv
<1>4. \/ /\ m.kind = "options" /\ t \in EditorIds /\ command' = command
         /\ \/ Editor!Registered(t) /\ sessions' = [sessions EXCEPT ![t].options = m.options] /\ pending' = pending
            \/ ~Editor!Registered(t) /\ sessions' = sessions /\ pending' = [pending EXCEPT ![t] = m.options]
      \/ /\ m.kind # "options" /\ c \in Commands /\ command[c].phase = "told" /\ command[c].process = p
         /\ command' = [command EXCEPT ![c].phase = "answered", ![c].answer = m.kind, ![c].options = m.options]
         /\ sessions' = sessions /\ pending' = pending
         /\ m.kind = "answer" => m.session = command[c].session
         /\ m.kind = "answer" /\ command[c].kind # "list" => m.session # Editor!None
         /\ \A k \in DOMAIN process[p].inbox :
              process[p].inbox[k].kind # "options" /\ process[p].inbox[k].command = c => k = 1
  <2>1. /\ m.kind = "options" => m.session # Editor!None
        /\ m.kind # "options" =>
             /\ m.command # Editor!None /\ command[m.command].phase = "told" /\ command[m.command].process = p
             /\ m.kind = "answer" => m.session = command[m.command].session
             /\ m.kind = "answer" /\ command[m.command].kind # "list" => m.session # Editor!None
             /\ \A k \in DOMAIN process[p].inbox :
                  process[p].inbox[k].kind # "options" /\ process[p].inbox[k].command = m.command => 1 = k
    BY <1>1 DEF EditorInv, MessageInv
  <2>2. m.session \in EditorIds \cup {Editor!None} /\ m.command \in Commands \cup {Editor!None}
    BY <1>1 DEF Editor!Messages
  <2>3. CASE m.kind = "options"
    BY <1>1, <2>1, <2>2, <2>3, Zenon DEF Editor!Receives, Editor!Buffered
  <2>4. CASE m.kind # "options"
    BY <1>1, <2>1, <2>2, <2>4, Zenon DEF Editor!Receives
  <2> QED BY <2>3, <2>4, Zenon
<1>5. /\ sessions \in [EditorIds -> Editor!Entries] /\ pending \in [EditorIds -> -1..MaxOptionChanges]
         /\ command \in [Commands -> Editor!Commanded]
      /\ m.options \in 0..MaxOptionChanges
  BY <1>1 DEF EditorInv, Editor!EditorTypeOK, Editor!Messages
<1>6. /\ sessions' \in [EditorIds -> Editor!Entries] /\ pending' \in [EditorIds -> -1..MaxOptionChanges]
         /\ command' \in [Commands -> Editor!Commanded]
      /\ \A s \in EditorIds : sessions'[s].process = sessions[s].process
         /\ sessions'[s].created = sessions[s].created
      /\ \A s \in EditorIds : sessions'[s].options = IF m.kind = "options" /\ s = t
         /\ Editor!Registered(s) THEN m.options ELSE sessions[s].options
      /\ \A s \in EditorIds : pending'[s] = IF m.kind = "options" /\ s = t
         /\ ~Editor!Registered(s) THEN m.options ELSE pending[s]
      /\ \A d \in Commands : /\ command'[d].kind = command[d].kind /\ command'[d].session = command[d].session
                             /\ command'[d].name = command[d].name /\ command'[d].process = command[d].process
                             /\ m.kind = "options" \/ d # c => command'[d] = command[d]
      /\ m.kind # "options" => command'[c].phase = "answered" /\ command'[c].answer = m.kind
         /\ command'[c].options = m.options
  <2>1. CASE m.kind = "options"
    <3>1. m.options \in -1..MaxOptionChanges
      BY <1>5, EditorNames
    <3>2. CASE Editor!Registered(t)
      BY <1>4, <1>5, <2>1, <3>2 DEF Editor!Entries
    <3>3. CASE ~Editor!Registered(t)
      BY <1>4, <1>5, <2>1, <3>1, <3>3
    <3> QED BY <3>2, <3>3
  <2>2. CASE m.kind # "options"
    <3>1. m.kind \in {"answer", "error"}
      BY <1>1, <2>2 DEF Editor!Messages
    <3>2. PICK kind, value : kind = m.kind /\ value = m.options
      BY Zenon
    <3> DEFINE r == [command[c] EXCEPT !.phase = "answered", !.answer = kind, !.options = value]
    <3>3. c \in Commands /\ sessions' = sessions /\ pending' = pending /\ command' = [command EXCEPT ![c] = r]
      BY <1>4, <1>5, <2>2, <3>2, Zenon
    <3>4. kind \in {"answer", "error"} /\ value \in 0..MaxOptionChanges /\ command[c] \in Editor!Commanded
      BY <1>5, <3>1, <3>2, <3>3
    <3>5. /\ r \in Editor!Commanded /\ r.kind = command[c].kind /\ r.session = command[c].session
          /\ r.name = command[c].name /\ r.process = command[c].process
          /\ r.phase = "answered" /\ r.answer = kind /\ r.options = value
      BY <3>4, ZenonT(30) DEF Editor!Commanded
    <3> HIDE DEF r
    <3>6. command' \in [Commands -> Editor!Commanded] /\ command'[c] = r /\ \A d \in Commands : d # c
      => command'[d] = command[d]
      BY <1>5, <3>3, <3>5
    <3> QED BY <1>5, <2>2, <3>2, <3>3, <3>5, <3>6, Zenon
  <2> QED BY <2>1, <2>2
<1>7. m.kind # "options" => c \in Commands /\ command[c].phase = "told" /\ command[c].process = p
  BY <1>4, Zenon
<1> HIDE DEF m, t, c
<1>8. Editor!EditorTypeOK' /\ ProcessInv' /\ PromptsInv'
  <2>1. Editor!EditorTypeOK'
    BY <1>1, <1>2, <1>6 DEF EditorInv, Editor!EditorTypeOK
  <2>2. \A q \in AgentProcesses : process'[q].link # "open" => process'[q].inbox = process[q].inbox
    BY <1>1, <1>2
  <2>3. ProcessInv'
    BY <1>2, <2>2 DEF EditorInv, ProcessInv
  <2>4. \A d \in Commands : command'[d].phase # "over" => command[d].phase # "over"
    BY <1>6, <1>7
  <2>5. PromptsInv'
    BY <1>6, <2>4 DEF EditorInv, PromptsInv
  <2> QED BY <2>1, <2>3, <2>5
<1>9. LoadingInv'
  <2>1. \A d \in Commands : command'[d].phase \in Requested <=> command[d].phase \in Requested
    BY <1>6, <1>7 DEF Requested
  <2>2. Editor!LoadingIsLoaded'
    BY <1>1, <1>6, <2>1 DEF EditorInv, LoadingInv, Editor!LoadingIsLoaded, Requested
  <2>3. \A d \in Commands : command[d].kind = "load" /\ command[d].phase \in Requested
    => command[d].session \in EditorIds
    BY <1>5 DEF EditorInv, CommandInv, Fits, Editor!Commanded, Requested
  <2>4. \A d \in Commands : command'[d].kind = "load" /\ command'[d].phase \in Requested
    => ~sessions'[command'[d].session].created
    BY <1>6, <2>1, <2>3 DEF EditorInv, LoadingInv
  <2> QED BY <2>2, <2>4 DEF LoadingInv
<1>10. CommandInv'
  <2>1. ASSUME NEW d \in Commands PROVE Fits(d)'
    <3>1. Fits(d)
      BY DEF EditorInv, CommandInv
    <3>2. command[d].process \in AgentProcesses =>
            /\ process'[command[d].process].name = process[command[d].process].name
            /\ process'[command[d].process].link = process[command[d].process].link
      BY <1>2
    <3>3. CASE command'[d] = command[d]
      BY <3>1, <3>2, <3>3 DEF Fits, Early, AnsweredPhases, Requested
    <3>4. CASE m.kind # "options" /\ d = c
      <4>1. command'[d].answer = "answer" /\ command[d].kind # "list" => command[d].session # Editor!None
        BY <1>4, <1>6, <3>4, Zenon DEF m, c
      <4>2. /\ command[d].phase = "told" /\ command'[d].phase = "answered"
            /\ command'[d].kind = command[d].kind /\ command'[d].session = command[d].session
            /\ command'[d].name = command[d].name /\ command'[d].process = command[d].process
        BY <1>6, <1>7, <3>4
      <4> QED BY <3>1, <3>2, <4>1, <4>2 DEF Fits, Early, AnsweredPhases, Requested
    <3> QED BY <1>6, <3>3, <3>4
  <2>2. \A d \in Commands : command'[d].phase = "initializing" => command'[d] = command[d]
    BY <1>6
  <2> QED BY <2>1, <2>2 DEF EditorInv, CommandInv
<1>11. SessionInv'
  <2>1. \A s \in EditorIds : serving[s] # Editor!None => process'[serving[s]].link \in Past
    BY <1>2 DEF EditorInv, Editor!EditorTypeOK, SessionInv
  <2>2. \A s \in EditorIds : Editor!Registered(s) => sessions[s].process \in AgentProcesses
    BY <1>5 DEF Editor!Entries, Editor!Registered
  <2>3. /\ \A s \in EditorIds : Editor!Registered(s)' = Editor!Registered(s)
        /\ \A s \in EditorIds : Editor!Registered(s) => Editor!NameOf(s)' = Editor!NameOf(s)
           /\ process'[sessions'[s].process].link = process[sessions[s].process].link
    BY <1>2, <1>6, <2>2 DEF Editor!Registered, Editor!NameOf
  <2>4. current \in EditorIds \cup {Editor!None} /\ \A r \in Agents : owner[r] \in EditorIds \cup {Editor!None}
    BY DEF EditorInv, Editor!EditorTypeOK
  <2> QED BY <1>1, <2>1, <2>3, <2>4 DEF EditorInv, SessionInv
<1>12. ASSUME NEW q \in AgentProcesses, NEW i \in DOMAIN process'[q].inbox
       PROVE  \E k \in DOMAIN process[q].inbox : /\ process'[q].inbox[i] = process[q].inbox[k]
                                                 /\ IF q = p THEN k = i + 1 /\ i \in Nat /\ k # 1 ELSE k = i
  <2>1. CASE q = p
    <3>1. i \in Nat /\ i + 1 \in DOMAIN process[p].inbox /\ process'[p].inbox[i] = process[p].inbox[i + 1]
      BY <1>2, <1>12, <2>1
    <3>2. i + 1 # 1
      <4>1. i \in DOMAIN process'[p].inbox /\ process'[p].inbox \in Seq(Editor!Messages)
        BY <1>2, <1>12, <2>1 DEF Editor!Spawned
      <4> QED BY <4>1
    <3> QED BY <2>1, <3>1, <3>2
  <2>2. CASE q # p
    BY <1>2, <1>12, <2>2
  <2> QED BY <2>1, <2>2
<1>13. ASSUME NEW q \in AgentProcesses, NEW k \in DOMAIN process[q].inbox, process[q].inbox[k].kind # "options",
              m.kind # "options", process[q].inbox[k].command = c
       PROVE  q = p /\ k = 1
  <2>1. command[c].process = q
    BY <1>7, <1>13 DEF EditorInv, MessageInv
  <2> QED BY <1>4, <1>7, <1>13, <2>1, Zenon DEF m, c
<1>14. MessageInv'
  <2> SUFFICES ASSUME NEW q \in AgentProcesses, NEW i \in DOMAIN process'[q].inbox
               PROVE  LET r == process'[q].inbox[i]
                      IN  /\ r.kind = "options" => r.session # Editor!None
                          /\ r.kind # "options" =>
                               /\ r.command # Editor!None /\ command'[r.command].phase = "told"
                                  /\ command'[r.command].process = q
                               /\ r.kind = "answer" => r.session = command'[r.command].session
                               /\ r.kind = "answer" /\ command'[r.command].kind # "list" => r.session # Editor!None
                               /\ \A k \in DOMAIN process'[q].inbox :
                                    process'[q].inbox[k].kind # "options"
                                      /\ process'[q].inbox[k].command = r.command => i = k
    BY DEF MessageInv
  <2>1. PICK j \in DOMAIN process[q].inbox : /\ process'[q].inbox[i] = process[q].inbox[j]
                                             /\ IF q = p THEN j = i + 1 /\ i \in Nat /\ j # 1 ELSE j = i
    BY <1>12
  <2> DEFINE r == process[q].inbox[j]
  <2>2. /\ r.kind = "options" => r.session # Editor!None
        /\ r.kind # "options" =>
             /\ r.command # Editor!None /\ command[r.command].phase = "told" /\ command[r.command].process = q
             /\ r.kind = "answer" => r.session = command[r.command].session
             /\ r.kind = "answer" /\ command[r.command].kind # "list" => r.session # Editor!None
             /\ \A k \in DOMAIN process[q].inbox :
                  process[q].inbox[k].kind # "options" /\ process[q].inbox[k].command = r.command => j = k
    BY DEF EditorInv, MessageInv
  <2>3. r \in Editor!Messages
    BY DEF EditorInv, Editor!EditorTypeOK, Editor!Spawned
  <2>4. r.kind # "options" => r.command \in Commands /\ command'[r.command] = command[r.command]
    <3>1. r.kind # "options" => r.command \in Commands
      BY <2>2, <2>3 DEF Editor!Messages
    <3>2. r.kind # "options" /\ m.kind # "options" => r.command # c
      BY <1>13, <2>1
    <3> QED BY <1>6, <3>1, <3>2
  <2>5. ASSUME r.kind # "options", NEW k \in DOMAIN process'[q].inbox,
               process'[q].inbox[k].kind # "options", process'[q].inbox[k].command = r.command
        PROVE  i = k
    <3>1. PICK l \in DOMAIN process[q].inbox : /\ process'[q].inbox[k] = process[q].inbox[l]
                                               /\ IF q = p THEN l = k + 1 /\ k \in Nat /\ l # 1 ELSE l = k
      BY <1>12
    <3>2. j = l
      BY <2>2, <2>5, <3>1
    <3> QED BY <2>1, <3>1, <3>2
  <2> HIDE DEF r
  <2>6. process'[q].inbox[i] = r
    BY <2>1 DEF r
  <2> QED BY <2>2, <2>4, <2>5, <2>6
<1>15. NewInv'
  <2> SUFFICES ASSUME NEW s \in EditorIds \ OldIds, serving[s] = Editor!None
               PROVE  /\ pending'[s] = -1 /\ ~Editor!Registered(s)' /\ s \notin history
                      /\ \A d \in Commands : command'[d].session # s
                      /\ \A q \in AgentProcesses : Says(q, s)' = {}
    BY <1>1 DEF NewInv
  <2>1. /\ pending[s] = -1 /\ ~Editor!Registered(s) /\ s \notin history
        /\ \A d \in Commands : command[d].session # s
        /\ \A q \in AgentProcesses : Says(q, s) = {}
    BY DEF EditorInv, NewInv
  <2>2. m.kind = "options" => s # t
    BY <1>1, <2>1 DEF Says, m, t
  <2> QED BY <1>3, <1>6, <2>1, <2>2 DEF Editor!Registered
<1>16. m.kind = "options" => 1 \in Says(p, t) /\ \A s : s # t => 1 \notin Says(p, s)
  BY <1>1 DEF Says, m, t
<1>17. m.kind # "options" => \A s : 1 \notin Says(p, s)
  BY <1>1 DEF Says, m
<1>18. CreatingInv'
  <2> SUFFICES ASSUME NEW d \in Commands, NEW s \in EditorIds, NEW q \in AgentProcesses,
                      Creates(d)', command'[d].session = s, command'[d].process = q
               PROVE  Creating(d, s, q)'
    BY DEF CreatingInv
  <2>1. Creates(d) /\ command[d].session = s /\ command[d].process = q
    BY <1>6, <1>7 DEF Creates
  <2>2. Creating(d, s, q)
    BY <2>1 DEF EditorInv, CreatingInv
  <2>3. /\ ~Editor!Registered(s)' /\ s \notin history' /\ s \notin OldIds /\ serving'[s] = q
        /\ \A e \in Commands : e # d => command'[e].session # s
        /\ \A r \in AgentProcesses : r # q => Says(r, s)' = {}
    BY <1>1, <1>3, <1>6, <2>2, ZenonT(30) DEF Creating, Editor!Registered
  <2>4. m.kind = "options" /\ s = t => q = p
    BY <1>16, <2>2 DEF Creating
  <2>5. ASSUME process'[q].link = "open", command'[d].phase = "told"
        PROVE  \A i \in DOMAIN process'[q].inbox :
                 process'[q].inbox[i].kind = "answer" /\ process'[q].inbox[i].command = d =>
                   /\ pending'[s] = -1
                   /\ \A v \in 0..MaxOptionChanges : process'[q].inbox[i].options = v => Comes(q, s, v)'
                   /\ \A k \in Says(q, s)' : i < k
    <3> SUFFICES ASSUME NEW i \in DOMAIN process'[q].inbox,
                        process'[q].inbox[i].kind = "answer", process'[q].inbox[i].command = d
                 PROVE  /\ pending'[s] = -1
                        /\ \A v \in 0..MaxOptionChanges : process'[q].inbox[i].options = v => Comes(q, s, v)'
                        /\ \A k \in Says(q, s)' : i < k
      OBVIOUS
    <3>1. PICK j \in DOMAIN process[q].inbox : /\ process'[q].inbox[i] = process[q].inbox[j]
                                               /\ IF q = p THEN j = i + 1 /\ i \in Nat /\ j # 1 ELSE j = i
      BY <1>12
    <3>2. process[q].link = "open" /\ command[d].phase = "told"
      BY <1>2, <1>6, <1>7, <2>5
    <3>3. /\ pending[s] = -1
          /\ \A v \in 0..MaxOptionChanges : process[q].inbox[j].options = v => Comes(q, s, v)
          /\ \A k \in Says(q, s) : j < k
      BY <2>2, <3>1, <3>2 DEF Creating
    <3>4. q = p => 1 \notin Says(p, s)
      BY <3>1, <3>3
    <3>5. pending'[s] = -1
      BY <1>6, <1>16, <2>4, <3>3, <3>4
    <3>6. \A k \in Says(q, s)' : i < k
      <4>1. CASE q = p
        <5>1. \A k \in Says(p, s)' : k \in Nat /\ j < k + 1
          BY <1>3, <3>3, <4>1
        <5> QED BY <3>1, <4>1, <5>1
      <4>2. CASE q # p
        <5>1. Says(q, s)' = Says(q, s)
          BY <1>2, <4>2 DEF Says
        <5> QED BY <3>1, <3>3, <4>2, <5>1
      <4> QED BY <4>1, <4>2
    <3> QED BY <1>3, <3>1, <3>3, <3>4, <3>5, <3>6
  <2>6. ASSUME process'[q].link = "open", command'[d].phase = "answered", command'[d].answer = "answer",
               NEW v \in 0..MaxOptionChanges, (IF pending'[s] >= 0 THEN pending'[s] ELSE command'[d].options) = v
        PROVE  Comes(q, s, v)'
    <3>1. process[q].link = "open"
      BY <1>2, <2>6
    <3>2. CASE m.kind # "options" /\ d = c
      <4>1. m.kind = "answer" /\ q = p /\ command[d].phase = "told"
        /\ v = IF pending[s] >= 0 THEN pending[s] ELSE m.options
        BY <1>6, <1>7, <2>1, <2>6, <3>2
      <4>2. pending[s] = -1 /\ Comes(p, s, m.options)
        BY <1>1, <1>5, <2>2, <3>1, <3>2, <4>1 DEF Creating, m, c
      <4> QED BY <1>3, <1>17, <3>2, <4>1, <4>2
    <3>3. CASE m.kind = "options" \/ d # c
      <4>1. command'[d] = command[d]
        BY <1>6, <3>3
      <4>2. CASE m.kind = "options" /\ s = t
        <5>1. pending'[s] = m.options /\ m.options >= 0
          BY <1>5, <1>6, <2>2, <4>2 DEF Creating
        <5>2. v = m.options /\ q = p
          BY <2>4, <2>6, <4>2, <5>1
        <5>3. \E u \in 0..MaxOptionChanges : Comes(q, s, u)
          <6>1. pending[s] \in -1..MaxOptionChanges /\ command[d].options \in 0..MaxOptionChanges
            BY <1>5 DEF Editor!Commanded
          <6>2. (IF pending[s] >= 0 THEN pending[s] ELSE command[d].options) \in 0..MaxOptionChanges
            BY <6>1, EditorNames
          <6> QED BY <2>2, <2>6, <3>1, <4>1, <6>2 DEF Creating
        <5> QED BY <1>3, <1>16, <4>2, <5>2, <5>3
      <4>3. CASE ~(m.kind = "options" /\ s = t)
        <5>1. pending'[s] = pending[s]
          BY <1>6, <4>3
        <5>2. Comes(q, s, v)
          BY <2>2, <2>6, <3>1, <4>1, <5>1 DEF Creating
        <5> QED BY <1>3, <1>16, <1>17, <4>3, <5>2
      <4> QED BY <4>2, <4>3
    <3> QED BY <3>2, <3>3
  <2> QED BY <2>3, <2>5, <2>6 DEF Creating
<1>19. CreatedInv'
  <2> SUFFICES ASSUME NEW s \in EditorIds, NEW q \in AgentProcesses, sessions'[s].process = q, sessions'[s].created
               PROVE  Original(s, q)'
    BY DEF CreatedInv
  <2>1. Original(s, q) /\ sessions[s].process = q /\ Editor!Registered(s)
    BY <1>6, EditorNames DEF EditorInv, CreatedInv, Editor!Registered
  <2>2. Reopened(s, q) => Reopened(s, q)'
    <3> SUFFICES ASSUME NEW d \in Commands, command[d].kind = "resume", command[d].session = s,
                        command[d].process = q,
                        \/ command[d].phase = "answered" /\ command[d].answer = "answer"
                        \/ command[d].phase = "told" /\ \E i \in DOMAIN process[q].inbox :
                              process[q].inbox[i].kind = "answer" /\ process[q].inbox[i].command = d
                 PROVE Reopened(s, q)'
      BY DEF Reopened
    <3>0. command'[d].kind = "resume" /\ command'[d].session = s /\ command'[d].process = q
      BY <1>6
    <3>1. CASE command[d].phase = "answered" /\ command[d].answer = "answer"
      <4>1. command'[d] = command[d]
        BY <1>6, <1>7, <3>1
      <4> QED BY <3>1, <4>1 DEF Reopened
    <3>2. ASSUME command[d].phase = "told", NEW i \in DOMAIN process[q].inbox,
                 process[q].inbox[i].kind = "answer", process[q].inbox[i].command = d
          PROVE  Reopened(s, q)'
      <4>1. CASE m.kind # "options" /\ d = c
        <5>1. q = p /\ i = 1
          BY <1>13, <3>2, <4>1
        <5>2. m.kind = "answer"
          BY <3>2, <5>1 DEF m
        <5> QED BY <1>6, <3>0, <4>1, <5>2 DEF Reopened
      <4>2. CASE m.kind = "options" \/ d # c
        <5>1. command'[d] = command[d]
          BY <1>6, <4>2
        <5>2. ~(q = p /\ i = 1)
          BY <3>2, <4>2 DEF m, c
        <5>3. \E k \in DOMAIN process'[q].inbox : process'[q].inbox[k] = process[q].inbox[i]
          BY <1>2, <5>2
        <5> QED BY <3>0, <3>2, <5>1, <5>3 DEF Reopened
      <4> QED BY <4>1, <4>2
    <3> QED BY <3>1, <3>2
  <2>3. ASSUME process'[q].link = "open", serving'[s] = q, ~Reopened(s, q)'
        PROVE  /\ \A r \in AgentProcesses : r # q => Says(r, s)' = {}
               /\ \A v \in 0..MaxOptionChanges : sessions'[s].options = v => Comes(q, s, v)'
    <3>1. /\ \A r \in AgentProcesses : r # q => Says(r, s) = {}
          /\ \A v \in 0..MaxOptionChanges : sessions[s].options = v => Comes(q, s, v)
      BY <1>1, <1>2, <2>1, <2>2, <2>3 DEF Original
    <3>2. sessions[s].options \in 0..MaxOptionChanges
      BY <1>5 DEF Editor!Entries
    <3>3. CASE m.kind = "options" /\ s = t
      <4>1. q = p
        BY <1>16, <3>1, <3>3
      <4>2. sessions'[s].options = m.options
        BY <1>6, <2>1, <3>3
      <4> QED BY <1>3, <1>16, <3>1, <3>2, <3>3, <4>1, <4>2
    <3>4. CASE ~(m.kind = "options" /\ s = t)
      <4>1. sessions'[s].options = sessions[s].options
        BY <1>6, <3>4
      <4>2. q = p => 1 \notin Says(p, s)
        BY <1>16, <1>17, <3>4
      <4> QED BY <1>3, <3>1, <4>1, <4>2
    <3> QED BY <3>3, <3>4
  <2> QED BY <2>1, <2>3 DEF Original
<1> QED BY <1>8, <1>9, <1>10, <1>11, <1>14, <1>15, <1>18, <1>19 DEF EditorInv

\* A command that is over has nothing left.
LEMMA OverIs ==
  ASSUME EditorInv, NEW c \in Commands, Editor!Over(c)
  PROVE  /\ command' \in [Commands -> Editor!Commanded] /\ \A d \in Commands : d # c => command'[d] = command[d]
         /\ command'[c].phase = "over" /\ command'[c].kind = "none" /\ command'[c].session = Editor!None
         /\ command'[c].process = Editor!None /\ Fits(c)'
<1>1. command \in [Commands -> Editor!Commanded]
  BY DEF EditorInv, Editor!EditorTypeOK
<1> DEFINE r == [Editor!NoCommand EXCEPT !.kind = @, !.phase = "over"]
<1>2. command' = [command EXCEPT ![c] = r]
  BY DEF Editor!Over
<1>3. /\ r \in Editor!Commanded /\ r.phase = "over" /\ r.kind = "none" /\ r.session = Editor!None
         /\ r.process = Editor!None
  BY EditorNames, Zenon DEF Editor!NoCommand, Editor!Commanded
<1> HIDE DEF r
<1>4. command' \in [Commands -> Editor!Commanded] /\ command'[c] = r /\ \A d \in Commands : d # c
  => command'[d] = command[d]
  BY <1>1, <1>2, <1>3
<1>5. Fits(c)'
  BY <1>3, <1>4 DEF Fits, Early, AnsweredPhases, Requested
<1> QED BY <1>3, <1>4, <1>5

\* A session is created: what was kept of it, or the answer, is what its agent has.
LEMMA CreatedSafe ==
  ASSUME EditorInv, NEW c \in Commands, Editor!Created(c)
  PROVE  EditorInv'
<1>1. PICK s, p, n, value : s = command[c].session /\ p = command[c].process /\ n = command[c].name
                            /\ value = IF pending[s] >= 0 THEN pending[s] ELSE command[c].options
  OBVIOUS
<1>2. /\ command[c].phase = "answered" /\ command[c].answer = "answer" /\ command[c].kind \in {"connect", "new"}
      /\ sessions' = [sessions EXCEPT ![s] = [process |-> p, created |-> TRUE, options |-> value]]
      /\ pending' = [pending EXCEPT ![s] = -1] /\ owner' = [owner EXCEPT ![n] = s] /\ current' = s
      /\ history' = history \cup {s} /\ Editor!Over(c)
      /\ UNCHANGED <<process, loading, options, serving>>
  BY <1>1 DEF Editor!Created, Editor!Succeeds, Editor!Registers
<1>3. /\ process \in [AgentProcesses -> Editor!Spawned] /\ sessions \in [EditorIds -> Editor!Entries]
         /\ owner \in [Agents -> EditorIds \cup {Editor!None}]
      /\ pending \in [EditorIds -> -1..MaxOptionChanges] /\ command \in [Commands -> Editor!Commanded]
         /\ history \subseteq EditorIds
      /\ current \in EditorIds \cup {Editor!None} /\ serving \in [EditorIds -> AgentProcesses \cup {Editor!None}]
  BY DEF EditorInv, Editor!EditorTypeOK
<1>4. /\ s \in EditorIds /\ p \in AgentProcesses /\ n \in Agents /\ s # Editor!None /\ p # Editor!None
      /\ process[p].name = n /\ AgentOf[s] = n /\ process[p].link \in Past
  <2>1. Fits(c) /\ command[c] \in Editor!Commanded
    BY <1>3 DEF EditorInv, CommandInv
  <2>2. s # Editor!None /\ p \in AgentProcesses /\ n # Editor!None /\ process[p].name = n
    /\ process[p].link \in Past /\ AgentOf[s] = n
    BY <1>1, <1>2, <2>1 DEF Fits, Early, AnsweredPhases, Requested
  <2> QED BY <1>1, <2>1, <2>2, EditorNames DEF Editor!Commanded
<1>5. Creates(c) /\ Creating(c, s, p)
  BY <1>1, <1>2, <1>4, CreatesOn DEF Creates
<1>6. /\ ~Editor!Registered(s) /\ s \notin history /\ s \notin OldIds /\ serving[s] = p
      /\ \A d \in Commands : d # c => command[d].session # s
      /\ \A q \in AgentProcesses : q # p => Says(q, s) = {}
      /\ process[p].link = "open" => Comes(p, s, value)
  <2>1. value \in 0..MaxOptionChanges
    <3>1. pending[s] \in -1..MaxOptionChanges /\ command[c].options \in 0..MaxOptionChanges
      BY <1>3, <1>4 DEF Editor!Commanded
    <3> QED BY <1>1, <3>1, EditorNames
  <2> QED BY <1>1, <1>2, <1>5, <2>1 DEF Creating
<1>7. value \in 0..MaxOptionChanges
  <2>1. pending[s] \in -1..MaxOptionChanges /\ command[c].options \in 0..MaxOptionChanges
    BY <1>3, <1>4 DEF Editor!Commanded
  <2> QED BY <1>1, <2>1, EditorNames
<1>8. /\ sessions' \in [EditorIds -> Editor!Entries] /\ sessions'[s].process = p /\ sessions'[s].created
         /\ sessions'[s].options = value
      /\ \A t \in EditorIds : t # s => sessions'[t] = sessions[t]
  <2> DEFINE e == [process |-> p, created |-> TRUE, options |-> value]
  <2>1. e \in Editor!Entries /\ e.process = p /\ e.created /\ e.options = value
    BY <1>4, <1>7 DEF Editor!Entries
  <2>2. sessions' = [sessions EXCEPT ![s] = e]
    BY <1>2
  <2> HIDE DEF e
  <2> QED BY <1>3, <1>4, <2>1, <2>2
<1>9. /\ pending' \in [EditorIds -> -1..MaxOptionChanges] /\ \A t \in EditorIds : t # s => pending'[t] = pending[t]
      /\ owner' \in [Agents -> EditorIds \cup {Editor!None}] /\ owner'[n] = s /\ \A l \in Agents : l # n
         => owner'[l] = owner[l]
  BY <1>2, <1>3, <1>4, EditorNames
<1>10. /\ command' \in [Commands -> Editor!Commanded] /\ \A d \in Commands : d # c => command'[d] = command[d]
       /\ command'[c].phase = "over" /\ command'[c].kind = "none" /\ command'[c].session = Editor!None
       /\ command'[c].process = Editor!None /\ Fits(c)'
  BY <1>2, OverIs
<1>11. Editor!EditorTypeOK' /\ ProcessInv'
  <2>1. Editor!EditorTypeOK'
    BY <1>2, <1>4, <1>8, <1>9, <1>10 DEF EditorInv, Editor!EditorTypeOK
  <2> QED BY <1>2, <2>1 DEF EditorInv, ProcessInv
<1>12. CommandInv'
  <2>1. ASSUME NEW d \in Commands, d # c PROVE Fits(d)'
    <3>1. Fits(d) /\ command'[d] = command[d]
      BY <1>10, <2>1 DEF EditorInv, CommandInv
    <3> QED BY <1>2, <3>1 DEF Fits
  <2>2. \A d \in Commands : command'[d].phase = "initializing" => command'[d] = command[d]
    BY <1>10
  <2> QED BY <1>10, <2>1, <2>2 DEF EditorInv, CommandInv
<1>13. SessionInv'
  <2>1. \A t \in EditorIds : Editor!Registered(t)' => Editor!NameOf(t)' = AgentOf[t]
    /\ process'[sessions'[t].process].link \in Past
    <3> SUFFICES ASSUME NEW t \in EditorIds, Editor!Registered(t)'
                 PROVE Editor!NameOf(t)' = AgentOf[t] /\ process'[sessions'[t].process].link \in Past
      OBVIOUS
    <3>1. CASE t = s
      BY <1>2, <1>4, <1>8, <3>1 DEF Editor!NameOf
    <3>2. CASE t # s
      BY <1>2, <1>8, <3>2 DEF Editor!NameOf, Editor!Registered, EditorInv, SessionInv
    <3> QED BY <3>1, <3>2
  <2>2. ASSUME NEW l \in Agents, NEW t, owner'[l] = t, t # Editor!None PROVE Editor!Registered(t)' /\ AgentOf[t] = l
    <3>1. CASE l = n
      <4>1. t = s
        BY <1>9, <2>2, <3>1
      <4> QED BY <1>4, <1>8, <3>1, <4>1 DEF Editor!Registered
    <3>2. CASE l # n
      <4>1. t \in EditorIds /\ Editor!Registered(t) /\ AgentOf[t] = l
        BY <1>3, <1>9, <2>2, <3>2 DEF EditorInv, SessionInv
      <4>2. t # s
        BY <1>6, <4>1
      <4> QED BY <1>8, <4>1, <4>2 DEF Editor!Registered
    <3> QED BY <3>1, <3>2
  <2>3. Editor!Registered(s)'
    BY <1>4, <1>8 DEF Editor!Registered
  <2>4. \A t \in EditorIds : serving'[t] # Editor!None => process'[serving'[t]].link \in Past
    BY <1>2 DEF EditorInv, SessionInv
  <2>5. \A l \in Agents : owner'[l] # Editor!None => Editor!Registered(owner[l])' /\ AgentOf[owner'[l]] = l
    BY <2>2 DEF Editor!Registered
  <2>6. current' # Editor!None => Editor!Registered(current)'
    BY <1>2, <2>3 DEF Editor!Registered
  <2> QED BY <2>1, <2>4, <2>5, <2>6 DEF SessionInv
<1>14. MessageInv'
  <2>0. process' = process
    BY <1>2
  <2> SUFFICES ASSUME NEW q \in AgentProcesses, NEW i \in DOMAIN process'[q].inbox
               PROVE  LET r == process'[q].inbox[i]
                      IN  /\ r.kind = "options" => r.session # Editor!None
                          /\ r.kind # "options" =>
                               /\ r.command # Editor!None /\ command'[r.command].phase = "told"
                                  /\ command'[r.command].process = q
                               /\ r.kind = "answer" => r.session = command'[r.command].session
                               /\ r.kind = "answer" /\ command'[r.command].kind # "list" => r.session # Editor!None
                               /\ \A k \in DOMAIN process'[q].inbox :
                                    process'[q].inbox[k].kind # "options"
                                      /\ process'[q].inbox[k].command = r.command => i = k
    BY DEF MessageInv
  <2>5. i \in DOMAIN process[q].inbox
    BY <2>0
  <2> DEFINE r == process[q].inbox[i]
  <2>1. /\ r.kind = "options" => r.session # Editor!None
        /\ r.kind # "options" =>
             /\ r.command # Editor!None /\ command[r.command].phase = "told" /\ command[r.command].process = q
             /\ r.kind = "answer" => r.session = command[r.command].session
             /\ r.kind = "answer" /\ command[r.command].kind # "list" => r.session # Editor!None
             /\ \A k \in DOMAIN process[q].inbox :
                  process[q].inbox[k].kind # "options" /\ process[q].inbox[k].command = r.command => i = k
    BY <2>5 DEF EditorInv, MessageInv
  <2>2. r \in Editor!Messages
    BY <1>3, <2>5 DEF Editor!Spawned
  <2>3. r.kind # "options" => r.command \in Commands /\ r.command # c
    BY <1>2, <2>1, <2>2 DEF Editor!Messages
  <2> HIDE DEF r
  <2>4. process[q].inbox[i] = r
    BY DEF r
  <2> QED BY <1>10, <2>0, <2>1, <2>3, <2>4
<1>15. LoadingInv' /\ PromptsInv'
  <2>1. Editor!LoadingIsLoaded'
    <3> SUFFICES ASSUME NEW t \in loading
                 PROVE \E d \in Commands : command'[d].kind = "load" /\ command'[d].session = t
                                                     /\ command'[d].phase \in {"asked", "told", "answered"}
      BY <1>2 DEF Editor!LoadingIsLoaded
    <3>1. PICK d \in Commands : command[d].kind = "load" /\ command[d].session = t
                                /\ command[d].phase \in {"asked", "told", "answered"}
      BY DEF EditorInv, LoadingInv, Editor!LoadingIsLoaded
    <3>2. d # c
      BY <1>2, <3>1
    <3> QED BY <1>10, <3>1, <3>2
  <2>2. ASSUME NEW d \in Commands, command'[d].kind = "load", command'[d].phase \in Requested
        PROVE  ~sessions'[command'[d].session].created
    <3>1. d # c /\ command'[d] = command[d] /\ command[d].session # s
      BY <1>6, <1>10, <2>2
    <3>2. command[d].session \in EditorIds
      BY <1>3, <2>2, <3>1 DEF EditorInv, CommandInv, Fits, Requested, Editor!Commanded
    <3> QED BY <1>8, <2>2, <3>1, <3>2 DEF EditorInv, LoadingInv
  <2>3. PromptsInv'
    BY <1>10 DEF EditorInv, PromptsInv
  <2> QED BY <2>1, <2>2, <2>3 DEF LoadingInv
<1>16. \A q \in AgentProcesses : \A t, v : Says(q, t)' = Says(q, t) /\ (Comes(q, t, v) => Comes(q, t, v)')
  BY <1>2 DEF Says, Comes
<1>17. NewInv'
  <2> SUFFICES ASSUME NEW t \in EditorIds \ OldIds, serving[t] = Editor!None
               PROVE  /\ pending'[t] = -1 /\ ~Editor!Registered(t)' /\ t \notin history'
                      /\ \A d \in Commands : command'[d].session # t
                      /\ \A q \in AgentProcesses : Says(q, t)' = {}
    BY <1>2 DEF NewInv
  <2>1. t # s
    BY <1>4, <1>6
  <2>2. /\ pending[t] = -1 /\ ~Editor!Registered(t) /\ t \notin history
        /\ \A d \in Commands : command[d].session # t
        /\ \A q \in AgentProcesses : Says(q, t) = {}
    BY DEF EditorInv, NewInv
  <2>3. ~Editor!Registered(t)' /\ pending'[t] = -1 /\ t \notin history'
    BY <1>2, <1>8, <1>9, <2>1, <2>2 DEF Editor!Registered
  <2>4. t # Editor!None
    BY EditorNames
  <2> QED BY <1>10, <1>16, <2>2, <2>3, <2>4
<1>18. CreatingInv'
  <2> SUFFICES ASSUME NEW d \in Commands, NEW t \in EditorIds, NEW q \in AgentProcesses,
                      Creates(d)', command'[d].session = t, command'[d].process = q
               PROVE  Creating(d, t, q)'
    BY DEF CreatingInv
  <2>1. d # c /\ command'[d] = command[d]
    BY <1>10 DEF Creates
  <2>2. Creating(d, t, q) /\ t # s
    BY <1>6, <2>1 DEF EditorInv, CreatingInv, Creates
  <2>3. /\ ~Editor!Registered(t)' /\ t \notin history' /\ t \notin OldIds /\ serving'[t] = q
           /\ pending'[t] = pending[t]
        /\ \A e \in Commands : e # d => command'[e].session # t
        /\ \A r \in AgentProcesses : r # q => Says(r, t)' = {}
    <3>1. /\ ~Editor!Registered(t) /\ t \notin history /\ t \notin OldIds /\ serving[t] = q
          /\ \A e \in Commands : e # d => command[e].session # t
          /\ \A r \in AgentProcesses : r # q => Says(r, t) = {}
      BY <2>2 DEF Creating
    <3>2. ~Editor!Registered(t)' /\ pending'[t] = pending[t] /\ t \notin history' /\ serving'[t] = q
      BY <1>2, <1>8, <1>9, <2>2, <3>1 DEF Editor!Registered
    <3>3. t # Editor!None
      BY EditorNames
    <3> QED BY <1>10, <1>16, <3>1, <3>2, <3>3
  <2> QED BY <1>2, <1>16, <2>1, <2>2, <2>3, Zenon DEF Creating
<1>19. CreatedInv'
  <2> SUFFICES ASSUME NEW t \in EditorIds, NEW q \in AgentProcesses, sessions'[t].process = q, sessions'[t].created
               PROVE  Original(t, q)'
    BY DEF CreatedInv
  <2>1. CASE t = s
    <3>1. q = p
      BY <1>8, <2>1
    <3> QED BY <1>2, <1>6, <1>8, <1>16, <2>1, <3>1 DEF Original
  <2>2. CASE t # s
    <3>1. Original(t, q) /\ sessions'[t] = sessions[t]
      BY <1>8, <2>2 DEF EditorInv, CreatedInv
    <3>2. Reopened(t, q) => Reopened(t, q)'
      <4>1. \A d \in Commands : command[d].kind = "resume" => command'[d] = command[d]
        BY <1>2, <1>10
      <4> QED BY <1>2, <4>1 DEF Reopened
    <3> QED BY <1>2, <1>16, <3>1, <3>2, Zenon DEF Original
  <2> QED BY <2>1, <2>2
<1> QED BY <1>11, <1>12, <1>13, <1>14, <1>15, <1>17, <1>18, <1>19 DEF EditorInv

\* A command that does not go on still fits what its process has become.
LEMMA FitsStay ==
  ASSUME EditorInv, NEW d \in Commands, command'[d] = command[d], \A p \in AgentProcesses : Moves(p),
         \A p \in AgentProcesses : command[d].phase = "initializing" /\ command[d].process = p
            => process'[p].link \in {"opening", "removed"}
  PROVE  Fits(d)'
<1>1. Fits(d)
  BY DEF EditorInv, CommandInv
<1>2. PICK p : p = command[d].process
  OBVIOUS
<1>3. CASE command[d].phase \in Early
  BY <1>1, <1>3 DEF Fits, Early, AnsweredPhases, Requested
<1>4. CASE command[d].phase \notin Early
  <2>1. p \in AgentProcesses /\ process[p].name = command[d].name /\ process[p].link # "none"
    BY <1>1, <1>2, <1>4
    DEF Fits, Early, AnsweredPhases, Requested, Past, EditorInv, Editor!EditorTypeOK, Editor!Commanded
  <2>2. process'[p].name = command[d].name
    BY <2>1 DEF Moves
  <2>3. process[p].link \in Past => process'[p].link \in Past
    BY <2>1 DEF Moves, Past
  <2>4. command[d].phase = "initializing" => process'[p].link \in {"opening", "removed"}
    BY <1>2, <2>1
  <2> QED BY <1>1, <1>2, <1>4, <2>1, <2>2, <2>3, <2>4 DEF Fits, Early, AnsweredPhases, Requested
<1> QED BY <1>3, <1>4

\* One command goes on, and the rest stays as it was or moves on.
LEMMA OneSafe ==
  ASSUME EditorInv, NEW c \in Commands,
         process' \in [AgentProcesses -> Editor!Spawned], sessions' \in [EditorIds -> Editor!Entries],
         owner' \in [Agents -> EditorIds \cup {Editor!None}], current' \in EditorIds \cup {Editor!None},
         pending' \in [EditorIds -> -1..MaxOptionChanges], loading' \subseteq EditorIds,
           command' \in [Commands -> Editor!Commanded],
         history' \subseteq history, UNCHANGED <<options, serving>>,
         ProcessInv', SessionInv', \A p \in AgentProcesses : Moves(p),
         \A p \in AgentProcesses : process[p].link \in {"opening", "removed"} =>
            \/ process'[p].link \in {"opening", "removed"}
            \/ command[c].phase = "initializing" /\ command[c].process = p,
         \A s \in EditorIds : \/ sessions'[s] = sessions[s]
                              \/ ~sessions'[s].created /\ (sessions'[s].process # Editor!None => Settled(s)),
         \A s \in EditorIds : pending'[s] = pending[s] \/ Settled(s),
         \A d \in Commands : d # c => command'[d] = command[d],
         Calm(c), Fits(c)',
         command'[c].phase = "initializing" => process[command'[c].process].link = "none",
         \A s \in loading' :
            \/ s \in loading /\ ~(command[c].kind = "load" /\ command[c].session = s
               /\ command[c].phase \in Requested)
            \/ command'[c].kind = "load" /\ command'[c].session = s /\ command'[c].phase \in Requested,
         command'[c].kind = "prompt" /\ command'[c].phase # "over" =>
            \A d \in Commands : d # c /\ command[d].kind = "prompt" /\ command[d].phase # "over"
                                  => command[d].session # command'[c].session
  PROVE  EditorInv'
<1>1. Editor!EditorTypeOK'
  <2>1. options' \in [EditorIds -> 0..MaxOptionChanges]
    /\ serving' \in [EditorIds -> AgentProcesses \cup {Editor!None}] /\ history' \subseteq EditorIds
    BY DEF EditorInv, Editor!EditorTypeOK
  <2> QED BY <2>1 DEF Editor!EditorTypeOK
<1>2. CommandInv'
  <2>1. \A d \in Commands : command[d].phase = "initializing" =>
           command[d].process \in AgentProcesses /\ process[command[d].process].link \in {"opening", "removed"}
    BY DEF EditorInv, CommandInv, Fits, Early
  <2>2. \A d, e \in Commands : command[d].phase = "initializing" /\ command[e].phase = "initializing"
                                 /\ command[d].process = command[e].process => d = e
    BY DEF EditorInv, CommandInv
  <2>3. ASSUME NEW d \in Commands, d # c PROVE Fits(d)'
    <3>1. \A p \in AgentProcesses : command[d].phase = "initializing" /\ command[d].process = p
            => process'[p].link \in {"opening", "removed"}
      BY <2>1, <2>2, <2>3
    <3> QED BY <2>3, <3>1, FitsStay
  <2>4. \A d, e \in Commands : command'[d].phase = "initializing" /\ command'[e].phase = "initializing"
                                 /\ command'[d].process = command'[e].process => d = e
    <3>1. \A d \in Commands : d # c /\ command'[d].phase = "initializing" /\ command'[c].phase = "initializing"
                                => command'[d].process # command'[c].process
      BY <2>1
    <3> QED BY <2>2, <3>1
  <2> QED BY <2>3, <2>4 DEF CommandInv
<1>3. Editor!LoadingIsLoaded'
  <2> SUFFICES ASSUME NEW s \in loading'
               PROVE  \E d \in Commands : /\ command'[d].kind = "load" /\ command'[d].session = s
                                          /\ command'[d].phase \in {"asked", "told", "answered"}
    BY DEF Editor!LoadingIsLoaded
  <2>1. CASE command'[c].kind = "load" /\ command'[c].session = s /\ command'[c].phase \in Requested
    BY <2>1 DEF Requested
  <2>2. CASE s \in loading /\ ~(command[c].kind = "load" /\ command[c].session = s
    /\ command[c].phase \in Requested)
    <3>1. PICK d \in Commands : command[d].kind = "load" /\ command[d].session = s
                                /\ command[d].phase \in {"asked", "told", "answered"}
      BY <2>2 DEF EditorInv, LoadingInv, Editor!LoadingIsLoaded
    <3> QED BY <2>2, <3>1 DEF Requested
  <2> QED BY <2>1, <2>2
<1>4. PromptsInv'
  <2> SUFFICES ASSUME NEW d \in Commands, NEW e \in Commands,
                      command'[d].kind = "prompt", command'[d].phase # "over",
                      command'[e].kind = "prompt", command'[e].phase # "over",
                      command'[d].session = command'[e].session
               PROVE  d = e
    BY DEF PromptsInv
  <2>1. d # c /\ e # c => d = e
    BY DEF EditorInv, PromptsInv
  <2>2. d = c => e = c
    OBVIOUS
  <2>3. e = c => d = c
    OBVIOUS
  <2> QED BY <2>1, <2>2, <2>3
<1>5. \A d \in Commands : command'[d] = command[d] \/ Calm(d)
  OBVIOUS
<1> QED BY <1>1, <1>2, <1>3, <1>4, <1>5, QuietSafe DEF EditorInv

\* The maps that stay are right about processes that move on.
LEMMA SessionsStay ==
  ASSUME EditorInv, UNCHANGED <<sessions, owner, current, serving>>, \A p \in AgentProcesses : Moves(p)
  PROVE  SessionInv'
<1>1. /\ \A s \in EditorIds : Editor!Registered(s) => sessions[s].process \in AgentProcesses
      /\ \A s \in EditorIds : serving[s] # Editor!None => serving[s] \in AgentProcesses
  BY DEF EditorInv, Editor!EditorTypeOK, Editor!Entries, Editor!Registered
<1>2. \A p \in AgentProcesses : process[p].link \in Past => process'[p].name = process[p].name
  /\ process'[p].link \in Past
  BY DEF Moves, Past
<1>3. \A s \in EditorIds : Editor!Registered(s)' => Editor!NameOf(s)' = AgentOf[s]
  /\ process'[sessions'[s].process].link \in Past
  BY <1>1, <1>2 DEF EditorInv, SessionInv, Editor!Registered, Editor!NameOf
<1>4. \A s \in EditorIds : serving'[s] # Editor!None => process'[serving'[s]].link \in Past
  BY <1>1, <1>2 DEF EditorInv, SessionInv
<1>5. current' # Editor!None => Editor!Registered(current)'
  BY DEF EditorInv, SessionInv, Editor!Registered
<1>6. \A n \in Agents : owner'[n] # Editor!None => Editor!Registered(owner[n])' /\ AgentOf[owner'[n]] = n
  BY DEF EditorInv, SessionInv, Editor!Registered
<1> QED BY <1>3, <1>4, <1>5, <1>6 DEF SessionInv

\* The same, where the maps stay.
LEMMA StillSafe ==
  ASSUME EditorInv, NEW c \in Commands,
         UNCHANGED <<sessions, owner, current, pending, loading, options, serving>>,
         process' \in [AgentProcesses -> Editor!Spawned], ProcessInv', \A p \in AgentProcesses : Moves(p),
         \A p \in AgentProcesses : process[p].link \in {"opening", "removed"} =>
            \/ process'[p].link \in {"opening", "removed"}
            \/ command[c].phase = "initializing" /\ command[c].process = p,
         command' \in [Commands -> Editor!Commanded], history' \subseteq history,
         \A d \in Commands : d # c => command'[d] = command[d],
         command[c].phase = "told" => process'[command[c].process].link # "open",
         command'[c].phase \notin {"told", "answered"}, command'[c].session # Editor!None
           => Settled(command'[c].session),
         command'[c].kind = "load" => command'[c].phase \notin Requested,
         ~(command[c].kind = "resume" /\ command[c].phase = "answered" /\ command[c].answer = "answer"),
         Fits(c)',
         command'[c].phase = "initializing" => process[command'[c].process].link = "none",
         ~(command[c].kind = "load" /\ command[c].phase \in Requested),
         command'[c].kind = "prompt" /\ command'[c].phase # "over" =>
            \A d \in Commands : d # c /\ command[d].kind = "prompt" /\ command[d].phase # "over"
                                  => command[d].session # command'[c].session
  PROVE  EditorInv'
<1>1. /\ sessions' \in [EditorIds -> Editor!Entries] /\ owner' \in [Agents -> EditorIds \cup {Editor!None}]
         /\ current' \in EditorIds \cup {Editor!None}
      /\ pending' \in [EditorIds -> -1..MaxOptionChanges] /\ loading' \subseteq EditorIds
  BY DEF EditorInv, Editor!EditorTypeOK
<1>2. SessionInv'
  BY SessionsStay
<1>3. Calm(c)
  BY DEF Calm
<1>4. \A s \in loading' : s \in loading /\ ~(command[c].kind = "load" /\ command[c].session = s
  /\ command[c].phase \in Requested)
  OBVIOUS
<1> QED BY <1>1, <1>2, <1>3, <1>4, OneSafe

\* A session leaves the maps: whichever agent had it has none.
LEMMA UnregistersSafe ==
  ASSUME EditorInv, NEW s \in EditorIds, sessions' = Editor!Unregister(s),
         owner' = [owner EXCEPT ![AgentOf[s]] = Editor!None],
         current' = IF current = s THEN Editor!None ELSE current,
         UNCHANGED serving,
         \A p \in AgentProcesses : process[p].link \in Past => process'[p].name = process[p].name
           /\ process'[p].link \in Past
  PROVE  /\ sessions' \in [EditorIds -> Editor!Entries] /\ owner' \in [Agents -> EditorIds \cup {Editor!None}]
            /\ current' \in EditorIds \cup {Editor!None}
         /\ SessionInv'
         /\ \A t \in EditorIds : sessions'[t] = sessions[t] \/ (~sessions'[t].created
            /\ sessions'[t].process = Editor!None)
<1>1. Editor!Unregistered \in Editor!Entries /\ Editor!Unregistered.process = Editor!None
  /\ ~Editor!Unregistered.created
  BY EditorNames DEF Editor!Unregistered, Editor!Entries
<1>2. /\ sessions \in [EditorIds -> Editor!Entries] /\ owner \in [Agents -> EditorIds \cup {Editor!None}]
         /\ current \in EditorIds \cup {Editor!None}
      /\ serving \in [EditorIds -> AgentProcesses \cup {Editor!None}]
  BY DEF EditorInv, Editor!EditorTypeOK
<1>3. AgentOf[s] \in Agents
  BY EditorNames
<1>4. /\ sessions' \in [EditorIds -> Editor!Entries] /\ sessions'[s] = Editor!Unregistered
      /\ \A t \in EditorIds : t # s => sessions'[t] = sessions[t]
  BY <1>1, <1>2 DEF Editor!Unregister
<1>5. /\ owner' \in [Agents -> EditorIds \cup {Editor!None}] /\ owner'[AgentOf[s]] = Editor!None
      /\ \A n \in Agents : n # AgentOf[s] => owner'[n] = owner[n]
  BY <1>2, <1>3, EditorNames
<1>6. SessionInv'
  <2>1. \A t \in EditorIds : Editor!Registered(t)' => Editor!NameOf(t)' = AgentOf[t]
    /\ process'[sessions'[t].process].link \in Past
    <3> SUFFICES ASSUME NEW t \in EditorIds, Editor!Registered(t)'
                 PROVE Editor!NameOf(t)' = AgentOf[t] /\ process'[sessions'[t].process].link \in Past
      OBVIOUS
    <3>1. t # s /\ sessions'[t] = sessions[t] /\ Editor!Registered(t)
      BY <1>1, <1>4 DEF Editor!Registered
    <3>2. sessions[t].process \in AgentProcesses
      BY <1>2, <3>1 DEF Editor!Registered, Editor!Entries
    <3>3. process[sessions[t].process].link \in Past /\ process[sessions[t].process].name = AgentOf[t]
      BY <3>1 DEF EditorInv, SessionInv, Editor!NameOf
    <3> QED BY <3>1, <3>2, <3>3 DEF Editor!NameOf
  <2>2. \A t \in EditorIds : serving'[t] # Editor!None => process'[serving'[t]].link \in Past
    BY <1>2 DEF EditorInv, SessionInv
  <2>3. current' # Editor!None => Editor!Registered(current)'
    BY <1>2, <1>4 DEF EditorInv, SessionInv, Editor!Registered
  <2>4. \A n \in Agents : owner'[n] # Editor!None => Editor!Registered(owner[n])' /\ AgentOf[owner'[n]] = n
    <3> SUFFICES ASSUME NEW n \in Agents, NEW t, t = owner'[n], t # Editor!None
                 PROVE Editor!Registered(t)' /\ AgentOf[t] = n
      BY DEF Editor!Registered
    <3>1. n # AgentOf[s] /\ t = owner[n]
      BY <1>5
    <3>2. t \in EditorIds /\ Editor!Registered(t) /\ AgentOf[t] = n
      BY <1>2, <3>1 DEF EditorInv, SessionInv
    <3> QED BY <1>4, <3>1, <3>2 DEF Editor!Registered
  <2> QED BY <2>1, <2>2, <2>3, <2>4 DEF SessionInv
<1> QED BY <1>1, <1>2, <1>4, <1>5, <1>6

\* A process is killed, and its connection is taken away.
LEMMA KilledMoves ==
  ASSUME EditorInv, NEW p \in AgentProcesses, process[p].link \in Past,
         process' = Editor!Unlinked(Editor!Killed(process, p), p)
  PROVE  /\ process' \in [AgentProcesses -> Editor!Spawned] /\ ProcessInv' /\ \A q \in AgentProcesses : Moves(q)
         /\ \A q \in AgentProcesses : process[q].link \in {"opening", "removed"}
            => process'[q].link = process[q].link
<1>1. process \in [AgentProcesses -> Editor!Spawned] /\ process[p] \in Editor!Spawned
  BY DEF EditorInv, Editor!EditorTypeOK
<1>2. /\ process[p].state # "unused" /\ process[p].link # "none" /\ process[p].link # "opening"
      /\ \A q \in AgentProcesses : /\ process[q].link # "open" => process[q].inbox = << >>
                                   /\ process[q].state = "unused" <=> process[q].link = "none"
  BY DEF EditorInv, ProcessInv, Past
<1>3. PICK state, last : /\ state = IF process[p].state = "running"
                            /\ process[p].listed THEN "killed" ELSE process[p].state
                         /\ last = IF process[p].link \in {"open", "dead"} THEN "removed" ELSE process[p].link
  OBVIOUS
<1> DEFINE r == [process[p] EXCEPT !.state = state, !.listed = FALSE, !.link = last, !.inbox = << >>]
<1>4. process' = [process EXCEPT ![p] = r]
  BY <1>1, <1>3, Zenon DEF Editor!Killed, Editor!Unlinked, Editor!Spawned
<1>5. state \in {"killed", "running", "closed"} /\ last = "removed"
  BY <1>1, <1>2, <1>3 DEF Editor!Spawned
<1>6. /\ r \in Editor!Spawned /\ r.name = process[p].name /\ r.state = state /\ r.link = last /\ r.inbox = << >>
  <2>1. << >> \in Seq(Editor!Messages)
    OBVIOUS
  <2> QED BY <1>1, <1>5, <2>1, Zenon DEF Editor!Spawned
<1> HIDE DEF r
<1>7. process' \in [AgentProcesses -> Editor!Spawned] /\ process'[p] = r /\ \A q \in AgentProcesses : q # p
  => process'[q] = process[q]
  BY <1>1, <1>4, <1>6
<1>8. ProcessInv'
  BY <1>2, <1>5, <1>6, <1>7 DEF ProcessInv
<1>9. \A q \in AgentProcesses : Moves(q)
  <2>1. Moves(p)
    BY <1>2, <1>5, <1>6, <1>7 DEF Moves
  <2>2. \A q \in AgentProcesses : q # p => Moves(q)
    BY <1>2, <1>7 DEF Moves
  <2> QED BY <2>1, <2>2
<1> QED BY <1>5, <1>6, <1>7, <1>8, <1>9, <1>2, <1>3

\* The active session's agent is one of the configured ones.
LEMMA ActiveIs ==
  ASSUME EditorInv
  PROVE  Editor!ActiveName \in Agents \cup {Editor!None} /\ (Editor!Registered(current)
    => Editor!NameOf(current) = AgentOf[current] /\ current \in EditorIds)
<1>1. current \in EditorIds \cup {Editor!None}
  BY DEF EditorInv, Editor!EditorTypeOK
<1>2. Editor!Registered(current) => Editor!NameOf(current) = AgentOf[current] /\ current \in EditorIds
  BY <1>1 DEF Editor!Registered, EditorInv, SessionInv
<1> QED BY <1>2, EditorNames DEF Editor!ActiveName

\* An agent is disconnected: its session, its process and its connection go together.
LEMMA DisconnectsIs ==
  ASSUME EditorInv, NEW n \in Agents \cup {Editor!None}, Editor!Disconnects(n), UNCHANGED serving
  PROVE  /\ process' \in [AgentProcesses -> Editor!Spawned] /\ sessions' \in [EditorIds -> Editor!Entries]
         /\ owner' \in [Agents -> EditorIds \cup {Editor!None}] /\ current' \in EditorIds \cup {Editor!None}
         /\ ProcessInv' /\ SessionInv' /\ \A p \in AgentProcesses : Moves(p)
         /\ \A p \in AgentProcesses : process[p].link \in {"opening", "removed"}
            => process'[p].link = process[p].link
         /\ \A t \in EditorIds : sessions'[t] = sessions[t] \/ (~sessions'[t].created
            /\ sessions'[t].process = Editor!None)
<1>1. PICK s : s = IF n = Editor!None THEN Editor!None ELSE owner[n]
  OBVIOUS
<1>2. CASE Editor!Registered(s)
  <2>1. s \in EditorIds /\ n \in Agents /\ AgentOf[s] = n
    BY <1>1, <1>2 DEF Editor!Registered, EditorInv, Editor!EditorTypeOK, SessionInv
  <2>2. PICK p : p = sessions[s].process
    OBVIOUS
  <2>3. p \in AgentProcesses /\ process[p].link \in Past
    BY <1>2, <2>1, <2>2 DEF Editor!Registered, EditorInv, Editor!EditorTypeOK, Editor!Entries, SessionInv
  <2>4. /\ process' = Editor!Unlinked(Editor!Killed(process, p), p) /\ sessions' = Editor!Unregister(s)
        /\ owner' = [owner EXCEPT ![AgentOf[s]] = Editor!None]
           /\ current' = IF current = s THEN Editor!None ELSE current
    BY <1>1, <1>2, <2>1, <2>2 DEF Editor!Disconnects
  <2>5. /\ process' \in [AgentProcesses -> Editor!Spawned] /\ ProcessInv' /\ \A q \in AgentProcesses : Moves(q)
        /\ \A q \in AgentProcesses : process[q].link \in {"opening", "removed"}
           => process'[q].link = process[q].link
    BY <2>3, <2>4, KilledMoves
  <2>6. \A q \in AgentProcesses : process[q].link \in Past => process'[q].name = process[q].name
    /\ process'[q].link \in Past
    BY <2>5 DEF Moves, Past
  <2> QED BY <2>1, <2>4, <2>5, <2>6, UnregistersSafe, Zenon
<1>3. CASE ~Editor!Registered(s)
  <2>1. UNCHANGED <<process, sessions, owner, current>>
    BY <1>1, <1>3 DEF Editor!Disconnects
  <2>2. ProcessInv' /\ SessionInv'
    BY <2>1 DEF EditorInv, ProcessInv, SessionInv, Editor!Registered, Editor!NameOf
  <2> QED BY <2>1, <2>2 DEF EditorInv, Editor!EditorTypeOK, Moves, ProcessInv
<1> QED BY <1>2, <1>3

Starts == {"over", "folder", "ensuring", "asked"}

\* The user gives a command.
LEMMA GivenIs ==
  ASSUME EditorInv, NEW c \in Commands, NEW kind \in Editor!Kinds, NEW n \in Agents \cup {Editor!None},
         NEW s \in EditorIds \cup {Editor!None},
         NEW phase \in Starts, NEW p \in AgentProcesses \cup {Editor!None},
         Editor!Given(c, kind, n, s, phase, p)
  PROVE  /\ command' \in [Commands -> Editor!Commanded] /\ \A d \in Commands : d # c => command'[d] = command[d]
         /\ command[c].phase = "none" /\ command'[c].kind = kind /\ command'[c].name = n /\ command'[c].session = s
         /\ command'[c].phase = phase /\ command'[c].process = p
<1>1. command \in [Commands -> Editor!Commanded]
  BY DEF EditorInv, Editor!EditorTypeOK
<1> DEFINE r == [Editor!NoCommand EXCEPT !.kind = kind, !.name = n, !.session = s, !.phase = phase, !.process = p]
<1>2. command[c].phase = "none" /\ command' = [command EXCEPT ![c] = r]
  BY DEF Editor!Given
<1>3. /\ r \in Editor!Commanded /\ r.kind = kind /\ r.name = n /\ r.session = s /\ r.phase = phase /\ r.process = p
  <2>1. Editor!NoCommand \in Editor!Commanded
    BY EditorNames DEF Editor!NoCommand, Editor!Commanded
  <2>2. kind \in Editor!Kinds \cup {"none"}
    OBVIOUS
  <2>3. phase \in {"none", "folder", "ensuring", "initializing", "connected", "picking", "asked", "told",
    "answered", "over"}
    BY DEF Starts
  <2>4. r.kind = kind /\ r.name = n /\ r.session = s /\ r.phase = phase /\ r.process = p
    BY <2>1 DEF Editor!Commanded
  <2>5. [Editor!NoCommand EXCEPT !.kind = kind, !.name = n, !.session = s] \in Editor!Commanded
    BY <2>1, <2>2, Zenon DEF Editor!Commanded
  <2>6. \A x \in Editor!Commanded : [x EXCEPT !.phase = phase, !.process = p] \in Editor!Commanded
    BY <2>3, Zenon DEF Editor!Commanded
  <2> QED BY <2>4, <2>5, <2>6, Zenon
<1> HIDE DEF r
<1> QED BY <1>1, <1>2, <1>3

\* The maps lose a session at most.
Quietly ==
  /\ process' \in [AgentProcesses -> Editor!Spawned] /\ sessions' \in [EditorIds -> Editor!Entries]
  /\ owner' \in [Agents -> EditorIds \cup {Editor!None}] /\ current' \in EditorIds \cup {Editor!None}
  /\ UNCHANGED <<pending, loading, history, options, serving>>
  /\ ProcessInv' /\ SessionInv' /\ \A p \in AgentProcesses : Moves(p)
  /\ \A p \in AgentProcesses : process[p].link \in {"opening", "removed"} => process'[p].link = process[p].link
  /\ \A t \in EditorIds : sessions'[t] = sessions[t] \/ (~sessions'[t].created
     /\ sessions'[t].process = Editor!None)

\* A step that is quiet but for one command, ...
LEMMA QuietlyIs ==
  ASSUME EditorInv, UNCHANGED <<pending, loading, history, options, serving>>,
         \/ UNCHANGED <<process, sessions, owner, current>>
         \/ \E n \in Agents \cup {Editor!None} : Editor!Disconnects(n)
  PROVE  Quietly
<1>1. CASE UNCHANGED <<process, sessions, owner, current>>
  <2>1. ProcessInv' /\ SessionInv'
    BY <1>1 DEF EditorInv, ProcessInv, SessionInv, Editor!Registered, Editor!NameOf
  <2> QED BY <1>1, <2>1 DEF EditorInv, Editor!EditorTypeOK, Moves, ProcessInv, Quietly
<1>2. CASE \E n \in Agents \cup {Editor!None} : Editor!Disconnects(n)
  BY <1>2, DisconnectsIs DEF Quietly
<1> QED BY <1>1, <1>2

\* A command that is given does nothing yet but disconnect.
LEMMA GivenSafe ==
  ASSUME EditorInv, Quietly,
         NEW c \in Commands, NEW kind \in Editor!Kinds, NEW n \in Agents \cup {Editor!None},
           NEW s \in EditorIds \cup {Editor!None},
         NEW phase \in Starts, NEW p \in AgentProcesses \cup {Editor!None},
         command' \in [Commands -> Editor!Commanded], \A d \in Commands : d # c => command'[d] = command[d],
         command[c].phase = "none", command'[c].kind = kind, command'[c].name = n, command'[c].session = s,
         command'[c].phase = phase, command'[c].process = p,
         IF phase = "asked" THEN p # Editor!None /\ process[p].name = n /\ process[p].link \in Past
           /\ kind = "prompt"
                                  /\ UNCHANGED process ELSE p = Editor!None,
         phase # "over" => n # Editor!None /\ kind # "disconnect",
         phase = "ensuring" => kind \in {"load", "resume", "list"},
         IF s = Editor!None THEN kind \in {"connect", "new", "disconnect", "list"}
         ELSE kind \in {"load", "resume", "prompt"} /\ AgentOf[s] = n /\ Settled(s),
         kind = "prompt" /\ phase # "over" =>
            phase = "asked" /\ \A d \in Commands : command[d].kind = "prompt" /\ command[d].phase # "over"
              => command[d].session # s
  PROVE  EditorInv'
<1>1. Fits(c)'
  <2>1. kind # "none" /\ phase \notin {"answered", "told", "initializing", "none", "connected", "picking"}
    BY DEF Editor!Kinds, Starts
  <2>2. phase # "asked" => phase \in Early
    BY DEF Starts, Early
  <2>3. phase = "asked" => p \in AgentProcesses /\ process'[p].name = n /\ process'[p].link \in Past
    OBVIOUS
  <2> QED BY <2>1, <2>2, <2>3 DEF Fits, Early, AnsweredPhases, Requested
<1>2. Calm(c)
  <2>1. kind = "load" => phase \notin Requested
    BY DEF Starts, Requested
  <2> QED BY <2>1 DEF Calm, Starts
<1>3. pending' \in [EditorIds -> -1..MaxOptionChanges] /\ loading' \subseteq EditorIds /\ history' \subseteq history
  BY DEF EditorInv, Editor!EditorTypeOK, Quietly
<1>4. \A t \in loading' : t \in loading /\ ~(command[c].kind = "load" /\ command[c].session = t
  /\ command[c].phase \in Requested)
  BY DEF Requested, Quietly
<1>5. command'[c].phase # "initializing" /\ command[c].phase # "initializing"
  BY DEF Starts
<1>6. \A t \in EditorIds : \/ sessions'[t] = sessions[t]
                           \/ ~sessions'[t].created /\ (sessions'[t].process # Editor!None => Settled(t))
  BY DEF Quietly
<1> QED BY <1>1, <1>2, <1>3, <1>4, <1>5, <1>6, OneSafe DEF Quietly

\* The user's commands, as they are given.
LEMMA UserSafe ==
  ASSUME EditorInv, NEW c \in Commands, Editor!UserActs(c)
  PROVE  EditorInv'
<1> DEFINE Rest == UNCHANGED <<pending, loading, history, options, serving>>
<1>1. ASSUME NEW kind \in {"connect", "new", "disconnect", "list"}, NEW n \in Agents, NEW phase \in {"over",
             "folder", "ensuring"},
             Editor!Given(c, kind, n, Editor!None, phase, Editor!None), phase = "ensuring" => kind = "list",
             kind = "disconnect" => phase = "over", Quietly
      PROVE  EditorInv'
  <2>1. kind \in Editor!Kinds /\ phase \in Starts /\ phase # "asked" /\ kind # "prompt"
    BY <1>1 DEF Editor!Kinds, Starts
  <2>2. PICK s, p : s = Editor!None /\ p = Editor!None
    OBVIOUS
  <2>3. PICK k, f : k = kind /\ f = phase
    OBVIOUS
  <2>4. Editor!Given(c, k, n, s, f, p) /\ k \in Editor!Kinds /\ f \in Starts /\ s \in EditorIds \cup {Editor!None}
    /\ p \in AgentProcesses \cup {Editor!None}
    BY <1>1, <2>1, <2>2, <2>3
  <2>5. /\ command' \in [Commands -> Editor!Commanded] /\ \A d \in Commands : d # c => command'[d] = command[d]
        /\ command[c].phase = "none" /\ command'[c].kind = k /\ command'[c].name = n /\ command'[c].session = s
        /\ command'[c].phase = f /\ command'[c].process = p
    BY <2>4, GivenIs
  <2>6. (f = "ensuring" => k \in {"load", "resume", "list"}) /\ k \in {"connect", "new", "disconnect", "list"}
    /\ (f # "over" => k # "disconnect") /\ n # Editor!None /\ f # "asked" /\ k # "prompt"
    BY <1>1, <2>1, <2>3, EditorNames
  <2> QED BY <1>1, <2>2, <2>4, <2>5, <2>6, GivenSafe
<1>2. ASSUME NEW n \in Agents, Editor!Reuses(c, n) PROVE EditorInv'
  <2>1. /\ Editor!Registered(owner[n]) /\ Editor!Given(c, "connect", n, Editor!None, "over", Editor!None)
           /\ current' = owner[n]
        /\ UNCHANGED <<process, sessions, owner, pending, loading, history, options, serving>>
    BY <1>2 DEF Editor!Reuses
  <2>2. ProcessInv' /\ SessionInv'
    BY <2>1 DEF EditorInv, ProcessInv, SessionInv, Editor!Registered, Editor!NameOf
  <2>3. Quietly
    BY <2>1, <2>2 DEF EditorInv, Editor!EditorTypeOK, ProcessInv, Moves, Quietly
  <2> QED BY <1>1, <2>1, <2>3
<1>3. ASSUME NEW n \in Agents, Editor!Connects(c, n) PROVE EditorInv'
  <2>1. Editor!Given(c, "connect", n, Editor!None, "folder", Editor!None) /\ Editor!Disconnects(Editor!ActiveName)
    /\ Rest
    BY <1>3 DEF Editor!Connects
  <2>2. Quietly
    BY <2>1, ActiveIs, QuietlyIs
  <2> QED BY <1>1, <2>1, <2>2
<1>4. ASSUME Editor!StartsAnew(c) PROVE EditorInv'
  <2>1. Editor!ActiveName # Editor!None /\ Editor!Given(c, "new", Editor!ActiveName, Editor!None, "folder",
    Editor!None) /\ Editor!Disconnects(Editor!ActiveName) /\ Rest
    BY <1>4 DEF Editor!StartsAnew
  <2>2. Quietly
    BY <2>1, ActiveIs, QuietlyIs
  <2> QED BY <1>1, <2>1, <2>2, ActiveIs
<1>5. ASSUME NEW n \in Agents, Editor!DisconnectsAgent(c, n) PROVE EditorInv'
  <2>1. Editor!Given(c, "disconnect", n, Editor!None, "over", Editor!None) /\ Editor!Disconnects(n) /\ Rest
    BY <1>5 DEF Editor!DisconnectsAgent
  <2>2. Quietly
    BY <2>1, QuietlyIs
  <2> QED BY <1>1, <2>1, <2>2
<1>6. ASSUME NEW n \in Agents, Editor!Probes(c, n) PROVE EditorInv'
  <2>1. Editor!Given(c, "list", n, Editor!None, "ensuring", Editor!None) /\ Rest
    /\ UNCHANGED <<process, sessions, owner, current>>
    BY <1>6 DEF Editor!Probes
  <2>2. Quietly
    BY <2>1, QuietlyIs
  <2> QED BY <1>1, <2>1, <2>2
<1>7. ASSUME NEW n \in Agents, NEW s \in EditorIds, NEW kind \in {"load", "resume"}, Editor!Opens(c, kind, n, s)
      PROVE EditorInv'
  <2>1. s \in history /\ AgentOf[s] = n /\ Editor!Given(c, kind, n, s, "ensuring", Editor!None) /\ Rest
        /\ (Editor!Disconnects(Editor!ActiveName) \/ UNCHANGED <<process, sessions, owner, current>>)
    BY <1>7 DEF Editor!Opens
  <2>2. Quietly
    BY <2>1, ActiveIs, QuietlyIs
  <2>3. PICK k, f, p : k = kind /\ f = "ensuring" /\ p = Editor!None
    OBVIOUS
  <2>4. Editor!Given(c, k, n, s, f, p) /\ k \in Editor!Kinds /\ f \in Starts /\ s \in EditorIds \cup {Editor!None}
    /\ p \in AgentProcesses \cup {Editor!None}
        /\ n \in Agents \cup {Editor!None}
    BY <2>1, <2>3 DEF Editor!Kinds, Starts
  <2>5. /\ command' \in [Commands -> Editor!Commanded] /\ \A d \in Commands : d # c => command'[d] = command[d]
        /\ command[c].phase = "none" /\ command'[c].kind = k /\ command'[c].name = n /\ command'[c].session = s
        /\ command'[c].phase = f /\ command'[c].process = p
    BY <2>4, GivenIs
  <2>6. k \in {"load", "resume"} /\ s # Editor!None /\ n # Editor!None /\ Settled(s)
    BY <2>1, <2>3, EditorNames DEF Settled
  <2> QED BY <2>1, <2>2, <2>3, <2>4, <2>5, <2>6, GivenSafe
<1>8. ASSUME Editor!Prompts(c) PROVE EditorInv'
  <2>1. PICK s, n, p : s = current /\ n = Editor!NameOf(current) /\ p = sessions[current].process
    OBVIOUS
  <2>2. /\ s \in EditorIds /\ n \in Agents /\ AgentOf[s] = n /\ p \in AgentProcesses /\ process[p].name = n
           /\ Editor!Registered(s) /\ s # Editor!None
        /\ n # Editor!None /\ p # Editor!None /\ process[p].link \in Past
    <3>1. Editor!Registered(s)
      BY <1>8, <2>1 DEF Editor!Prompts
    <3>2. s \in EditorIds
      BY <2>1, <3>1 DEF Editor!Registered, EditorInv, Editor!EditorTypeOK
    <3> QED BY <2>1, <3>1, <3>2, EditorNames
            DEF Editor!Registered, Editor!NameOf, EditorInv, Editor!EditorTypeOK, Editor!Entries, SessionInv
  <2>3. /\ Rest /\ UNCHANGED <<process, sessions, owner, current>>
        /\ IF Editor!Linked(p) /\ ~Editor!Prompting(s) THEN Editor!Given(c, "prompt", n, s, "asked",
           p) ELSE Editor!Given(c, "prompt", n, s, "over", Editor!None)
    BY <1>8, <2>1 DEF Editor!Prompts
  <2>4. Quietly
    BY <2>3, QuietlyIs
  <2>5. Settled(s)
    BY <2>2 DEF Settled
  <2>6. PICK k, f, q : k = "prompt" /\ f = (IF Editor!Linked(p) /\ ~Editor!Prompting(s) THEN "asked" ELSE "over")
                       /\ q = IF Editor!Linked(p) /\ ~Editor!Prompting(s) THEN p ELSE Editor!None
    OBVIOUS
  <2>7. Editor!Given(c, k, n, s, f, q) /\ k \in Editor!Kinds /\ f \in Starts /\ s \in EditorIds \cup {Editor!None}
    /\ q \in AgentProcesses \cup {Editor!None}
        /\ n \in Agents \cup {Editor!None}
    BY <2>2, <2>3, <2>6 DEF Editor!Kinds, Starts
  <2>8. /\ command' \in [Commands -> Editor!Commanded] /\ \A d \in Commands : d # c => command'[d] = command[d]
        /\ command[c].phase = "none" /\ command'[c].kind = k /\ command'[c].name = n /\ command'[c].session = s
        /\ command'[c].phase = f /\ command'[c].process = q
    <3>1. command' \in [Commands -> Editor!Commanded] /\ \A d \in Commands : d # c => command'[d] = command[d]
      BY <2>7, GivenIs, Zenon
    <3>2. command[c].phase = "none" /\ command'[c].kind = k /\ command'[c].name = n /\ command'[c].session = s
      BY <2>7, GivenIs
    <3>3. command'[c].phase = f /\ command'[c].process = q
      BY <2>7, GivenIs
    <3> QED BY <3>1, <3>2, <3>3
  <2>9. /\ f = "asked" => /\ q = p /\ q # Editor!None /\ process[q].name = n /\ process[q].link \in Past
                             /\ UNCHANGED process
                          /\ \A d \in Commands : command[d].kind = "prompt" /\ command[d].phase # "over"
                             => command[d].session # s
        /\ f # "asked" => q = Editor!None /\ f = "over"
    BY <2>2, <2>3, <2>6 DEF Editor!Prompting
  <2> QED BY <2>2, <2>4, <2>5, <2>6, <2>7, <2>8, <2>9, GivenSafe
<1> QED BY <1>2, <1>3, <1>4, <1>5, <1>6, <1>7, <1>8 DEF Editor!UserActs

Stages == {"folder", "initializing", "connected", "picking", "asked", "told"}

\* A command goes on to a phase, and keeps what it has.
LEMMA BecomesIs ==
  ASSUME EditorInv, NEW c \in Commands, NEW phase \in Stages, Editor!Becomes(c, phase)
  PROVE  /\ command' \in [Commands -> Editor!Commanded] /\ \A d \in Commands : d # c => command'[d] = command[d]
         /\ command'[c].phase = phase /\ command'[c].kind = command[c].kind /\ command'[c].name = command[c].name
         /\ command'[c].session = command[c].session /\ command'[c].process = command[c].process
         /\ command'[c].answer = command[c].answer
<1>1. command \in [Commands -> Editor!Commanded]
  BY DEF EditorInv, Editor!EditorTypeOK
<1> DEFINE r == [command[c] EXCEPT !.phase = phase]
<1>2. command' = [command EXCEPT ![c] = r]
  BY <1>1 DEF Editor!Becomes
<1>3. /\ r \in Editor!Commanded /\ r.phase = phase /\ r.kind = command[c].kind /\ r.name = command[c].name
      /\ r.session = command[c].session /\ r.process = command[c].process /\ r.answer = command[c].answer
  <2>1. phase \in {"none", "folder", "ensuring", "initializing", "connected", "picking", "asked", "told",
    "answered", "over"}
    BY DEF Stages
  <2> QED BY <1>1, <2>1, Zenon DEF Editor!Commanded
<1> HIDE DEF r
<1> QED BY <1>1, <1>2, <1>3

\* What the agent says of a command: its answer, its page of sessions, or an error.
LEMMA AnswersSafe ==
  ASSUME EditorInv, NEW c \in Commands, NEW s \in EditorIds, Editor!Answers(c, s)
  PROVE  EditorInv'
<1>1. PICK p, m : p = command[c].process /\ m = Editor!Message("answer", c, s, options[s])
  OBVIOUS
<1>2. /\ command[c].phase = "asked" /\ process[p].link = "open" /\ process' = Editor!Say(p, m)
      /\ command' = [command EXCEPT ![c].phase = "told", ![c].session = s]
      /\ serving' = IF command[c].kind = "prompt" THEN serving ELSE [serving EXCEPT ![s] = p]
      /\ UNCHANGED <<sessions, owner, current, pending, loading, history, options>>
      /\ IF command[c].kind \in {"connect", "new"} THEN Editor!Fresh(s) /\ AgentOf[s] = command[c].name
         ELSE command[c].kind # "list" /\ s = command[c].session
  BY <1>1 DEF Editor!Answers
<1>3. /\ command \in [Commands -> Editor!Commanded] /\ options \in [EditorIds -> 0..MaxOptionChanges]
         /\ serving \in [EditorIds -> AgentProcesses \cup {Editor!None}]
  BY DEF EditorInv, Editor!EditorTypeOK
<1>4. p \in AgentProcesses
  BY <1>1, <1>2 DEF EditorInv, CommandInv, Fits, Early
<1>5. m \in Editor!Messages /\ m.kind = "answer" /\ m.command = c /\ m.session = s /\ m.options = options[s]
  <2>1. options[s] \in 0..MaxOptionChanges
    BY <1>3
  <2> QED BY <1>1, <2>1 DEF Editor!Message, Editor!Messages
<1> DEFINE r == [command[c] EXCEPT !.phase = "told", !.session = s]
<1>6. command' = [command EXCEPT ![c] = r]
  BY <1>2, <1>3, Zenon
<1>7. /\ r \in Editor!Commanded /\ r.phase = "told" /\ r.session = s /\ r.kind = command[c].kind
         /\ r.name = command[c].name
      /\ r.process = command[c].process
  BY <1>3, ZenonT(30) DEF Editor!Commanded
<1> HIDE DEF r
<1>8. /\ command' \in [Commands -> Editor!Commanded] /\ \A d \in Commands : d # c => command'[d] = command[d]
      /\ command'[c].phase = "told" /\ command'[c].session = s /\ command'[c].kind = command[c].kind
      /\ command'[c].name = command[c].name /\ command'[c].process = p
  BY <1>1, <1>3, <1>6, <1>7
<1>9. /\ serving' \in [EditorIds -> AgentProcesses \cup {Editor!None}]
      /\ command[c].kind # "prompt" => serving'[s] = p
      /\ \A t \in EditorIds : \/ serving'[t] = serving[t]
                              \/ t = s /\ serving'[t] = p /\ command[c].kind \notin {"list", "prompt"}
  BY <1>2, <1>3, <1>4
<1>10. s # Editor!None /\ s \in EditorIds \cup {Editor!None}
  BY EditorNames
<1> QED BY <1>1, <1>2, <1>4, <1>5, <1>8, <1>9, <1>10, TellsSafe

\* A list is answered, or a request refused.
LEMMA AnswersListSafe ==
  ASSUME EditorInv, NEW c \in Commands, Editor!AnswersList(c) \/ Editor!Refuses(c)
  PROVE  EditorInv'
<1>1. PICK p, m, kind, s : /\ p = command[c].process /\ m = Editor!Message(kind, c, Editor!None, 0)
                              /\ s = command[c].session
                           /\ command[c].phase = "asked" /\ process[p].link = "open" /\ process' = Editor!Say(p, m)
                           /\ kind \in {"answer", "error"} /\ (kind = "answer" => command[c].kind = "list")
                           /\ Editor!Becomes(c, "told")
                           /\ UNCHANGED <<sessions, owner, current, pending, loading, history, options, serving>>
  BY DEF Editor!AnswersList, Editor!Refuses
<1>2. command[c] \in Editor!Commanded /\ serving \in [EditorIds -> AgentProcesses \cup {Editor!None}]
  BY DEF EditorInv, Editor!EditorTypeOK
<1>3. p \in AgentProcesses /\ s \in EditorIds \cup {Editor!None} /\ (kind = "answer" => s = Editor!None)
  BY <1>1, <1>2 DEF EditorInv, CommandInv, Fits, Early, Editor!Commanded
<1>4. m \in Editor!Messages /\ m.kind = kind /\ m.command = c /\ m.session = Editor!None
  BY <1>1, EditorNames DEF Editor!Message, Editor!Messages
<1>5. /\ command' \in [Commands -> Editor!Commanded] /\ \A d \in Commands : d # c => command'[d] = command[d]
      /\ command'[c].phase = "told" /\ command'[c].kind = command[c].kind /\ command'[c].name = command[c].name
      /\ command'[c].session = command[c].session /\ command'[c].process = command[c].process
  BY <1>1, BecomesIs DEF Stages
<1> QED BY <1>1, <1>2, <1>3, <1>4, <1>5, TellsSafe

\* A process ends: it says no more, and the session of a watched one leaves the maps.
LEMMA EndsSafe ==
  ASSUME EditorInv, NEW p \in AgentProcesses, Editor!Ends(p)
  PROVE  EditorInv'
<1>1. PICK n, s, last : n = process[p].name /\ s = (IF n = Editor!None THEN Editor!None ELSE owner[n])
                        /\ last = IF process[p].link \in {"open", "dead"} THEN "dead" ELSE "removed"
  OBVIOUS
<1>2. process \in [AgentProcesses -> Editor!Spawned] /\ process[p] \in Editor!Spawned
  BY DEF EditorInv, Editor!EditorTypeOK
<1>3. /\ process[p].state \in {"running", "killed"}
      /\ \/ /\ Editor!Registered(s) /\ sessions' = Editor!Unregister(s) /\ owner' = Editor!ClosesEntry(n, s)
            /\ current' = IF current = s THEN Editor!None ELSE current
         \/ UNCHANGED <<sessions, owner, current>>
      /\ UNCHANGED <<pending, loading, command, history, options, serving>>
  BY <1>1 DEF Editor!Ends
<1> DEFINE r == [process[p] EXCEPT !.state = "closed", !.listed = FALSE, !.inbox = << >>, !.link = last]
<1>4. process' = [process EXCEPT ![p] = r]
  BY <1>1, <1>2, Zenon DEF Editor!Ends
<1>5. /\ r \in Editor!Spawned /\ r.name = n /\ r.state = "closed" /\ r.link = last /\ r.inbox = << >>
  <2>1. << >> \in Seq(Editor!Messages) /\ last \in {"dead", "removed"}
    BY <1>1
  <2> QED BY <1>1, <1>2, <2>1, Zenon DEF Editor!Spawned
<1> HIDE DEF r
<1>6. process' \in [AgentProcesses -> Editor!Spawned] /\ process'[p] = r /\ \A q \in AgentProcesses : q # p
  => process'[q] = process[q]
  BY <1>2, <1>4, <1>5
<1>7. \A q \in AgentProcesses : /\ process[q].link # "open" => process[q].inbox = << >>
                                /\ process[q].state = "unused" <=> process[q].link = "none"
  BY DEF EditorInv, ProcessInv
<1>8. process[p].link # "none" /\ last \in {"dead", "removed"}
  /\ (process[p].link \in {"opening", "removed"} => last = "removed")
  BY <1>1, <1>3, <1>7
<1>9. ProcessInv'
  BY <1>5, <1>6, <1>7, <1>8 DEF ProcessInv
<1>10. \A q \in AgentProcesses : Moves(q)
  <2>1. Moves(p)
    BY <1>1, <1>5, <1>6, <1>8 DEF Moves
  <2>2. \A q \in AgentProcesses : q # p => Moves(q)
    BY <1>6, <1>7 DEF Moves
  <2> QED BY <2>1, <2>2
<1>11. /\ sessions' \in [EditorIds -> Editor!Entries] /\ owner' \in [Agents -> EditorIds \cup {Editor!None}]
          /\ current' \in EditorIds \cup {Editor!None} /\ SessionInv'
       /\ \A t \in EditorIds : sessions'[t] = sessions[t] \/ (~sessions'[t].created
          /\ sessions'[t].process = Editor!None)
  <2>1. CASE UNCHANGED <<sessions, owner, current>>
    BY <1>3, <1>10, <2>1, SessionsStay DEF EditorInv, Editor!EditorTypeOK
  <2>2. CASE /\ Editor!Registered(s) /\ sessions' = Editor!Unregister(s) /\ owner' = Editor!ClosesEntry(n, s)
             /\ current' = IF current = s THEN Editor!None ELSE current
    <3>1. n \in Agents /\ s \in EditorIds /\ AgentOf[s] = n
      <4>1. n \in Agents \cup {Editor!None} /\ s # Editor!None
        BY <1>1, <1>2, <2>2 DEF Editor!Registered, Editor!Spawned
      <4>2. n \in Agents /\ s = owner[n]
        BY <1>1, <4>1
      <4> QED BY <4>1, <4>2 DEF EditorInv, Editor!EditorTypeOK, SessionInv
    <3>2. owner' = [owner EXCEPT ![AgentOf[s]] = Editor!None]
      BY <2>2, <3>1 DEF Editor!ClosesEntry
    <3>3. \A q \in AgentProcesses : process[q].link \in Past => process'[q].name = process[q].name
      /\ process'[q].link \in Past
      BY <1>10 DEF Moves, Past
    <3> QED BY <1>3, <2>2, <3>1, <3>2, <3>3, UnregistersSafe, Zenon
  <2> QED BY <1>3, <2>1, <2>2
<1>12. \A q \in AgentProcesses : process[q].link \in {"opening", "removed"}
  => process'[q].link \in {"opening", "removed"}
  BY <1>5, <1>6, <1>8
<1>13. CommandInv'
  <2>1. ASSUME NEW d \in Commands PROVE Fits(d)'
    <3>1. \A q \in AgentProcesses : command[d].phase = "initializing" /\ command[d].process = q
      => process'[q].link \in {"opening", "removed"}
      BY <1>12 DEF EditorInv, CommandInv, Fits
    <3> QED BY <1>3, <1>10, <3>1, FitsStay
  <2> QED BY <1>3, <2>1 DEF EditorInv, CommandInv
<1>14. Editor!EditorTypeOK'
  BY <1>3, <1>6, <1>11 DEF EditorInv, Editor!EditorTypeOK
<1>15. Editor!LoadingIsLoaded' /\ PromptsInv'
  BY <1>3 DEF EditorInv, LoadingInv, Editor!LoadingIsLoaded, PromptsInv
<1> QED BY <1>3, <1>9, <1>10, <1>11, <1>13, <1>14, <1>15, QuietSafe

\* A process becomes r.
LEMMA PutMoves ==
  ASSUME EditorInv, NEW p \in AgentProcesses, NEW r \in Editor!Spawned, process' = [process EXCEPT ![p] = r],
         r.name = process[p].name \/ process[p].link = "none", r.state = "unused" <=> r.link = "none",
         r.link # "open" => r.inbox = << >>,
         \/ /\ r.inbox = process[p].inbox
            /\ \/ r.link = process[p].link
               \/ process[p].link = "none" /\ r.link = "opening"
               \/ process[p].link = "opening" /\ r.link = "open"
         \/ /\ process[p].link # "none" /\ r.link \in {"dead", "removed"} /\ r.inbox = << >>
            /\ process[p].link = "opening" => r.link = "removed"
  PROVE  /\ process' \in [AgentProcesses -> Editor!Spawned] /\ process'[p] = r /\ \A q \in AgentProcesses : q # p
            => process'[q] = process[q]
         /\ ProcessInv' /\ \A q \in AgentProcesses : Moves(q)
<1>1. process \in [AgentProcesses -> Editor!Spawned]
  BY DEF EditorInv, Editor!EditorTypeOK
<1>2. process' \in [AgentProcesses -> Editor!Spawned] /\ process'[p] = r /\ \A q \in AgentProcesses : q # p
  => process'[q] = process[q]
  BY <1>1
<1>3. \A q \in AgentProcesses : /\ process[q].link # "open" => process[q].inbox = << >>
                                /\ process[q].state = "unused" <=> process[q].link = "none"
  BY DEF EditorInv, ProcessInv
<1>4. ProcessInv'
  BY <1>2, <1>3 DEF ProcessInv
<1>5. Moves(p)
  BY <1>2 DEF Moves
<1>6. \A q \in AgentProcesses : q # p => Moves(q)
  BY <1>2, <1>3 DEF Moves
<1> QED BY <1>2, <1>4, <1>5, <1>6

\* A process is killed.
LEMMA KillsMoves ==
  ASSUME EditorInv, NEW p \in AgentProcesses, process[p].link # "none", process' = Editor!Killed(process, p)
  PROVE  /\ process' \in [AgentProcesses -> Editor!Spawned] /\ ProcessInv' /\ \A q \in AgentProcesses : Moves(q)
         /\ \A q \in AgentProcesses : process'[q].link = process[q].link
<1>1. process \in [AgentProcesses -> Editor!Spawned] /\ process[p] \in Editor!Spawned
  BY DEF EditorInv, Editor!EditorTypeOK
<1>2. PICK state : state = IF process[p].state = "running" /\ process[p].listed THEN "killed" ELSE process[p].state
  OBVIOUS
<1> DEFINE r == [process[p] EXCEPT !.state = state, !.listed = FALSE]
<1>3. process' = [process EXCEPT ![p] = r]
  BY <1>1, <1>2, Zenon DEF Editor!Killed
<1>4. state \in {"unused", "running", "killed", "closed"} /\ process[p].state # "unused" /\ state # "unused"
      /\ (process[p].link # "open" => process[p].inbox = << >>)
  BY <1>1, <1>2 DEF Editor!Spawned, EditorInv, ProcessInv
<1>5. r \in Editor!Spawned /\ r.name = process[p].name /\ r.state = state /\ r.link = process[p].link
  /\ r.inbox = process[p].inbox
  BY <1>1, <1>4, Zenon DEF Editor!Spawned
<1> HIDE DEF r
<1>6. /\ process' \in [AgentProcesses -> Editor!Spawned] /\ process'[p] = r /\ \A q \in AgentProcesses : q # p
         => process'[q] = process[q]
      /\ ProcessInv' /\ \A q \in AgentProcesses : Moves(q)
  BY <1>3, <1>4, <1>5, PutMoves, Zenon
<1> QED BY <1>5, <1>6

\* Where a command that is not over is.
LEMMA Going ==
  ASSUME EditorInv, NEW c \in Commands, command[c].phase \notin {"none", "over"}
  PROVE  /\ command[c] \in Editor!Commanded /\ command[c].name \in Agents /\ command[c].name # Editor!None
            /\ Fits(c)
         /\ command[c].session \in EditorIds \cup {Editor!None}
         /\ command[c].session # Editor!None /\ ~Creates(c) => Settled(command[c].session)
         /\ command[c].phase \notin {"folder", "ensuring"} =>
              command[c].process \in AgentProcesses /\ process[command[c].process].name = command[c].name
<1>1. command[c] \in Editor!Commanded /\ Fits(c)
  BY DEF EditorInv, Editor!EditorTypeOK, CommandInv
<1>2. command[c].session \in EditorIds \cup {Editor!None} /\ command[c].name \in Agents \cup {Editor!None}
  BY <1>1 DEF Editor!Commanded
<1> QED BY <1>1, <1>2 DEF Fits, Early, Settled

\* A command ends, and leaves the maps as they are.
LEMMA OverSafe ==
  ASSUME EditorInv, NEW c \in Commands, Editor!Over(c), history' \subseteq history,
         UNCHANGED <<process, sessions, owner, current, pending, loading, options, serving>>,
         command[c].phase = "told" => process[command[c].process].link # "open",
         ~(command[c].kind = "resume" /\ command[c].phase = "answered" /\ command[c].answer = "answer"),
         ~(command[c].kind = "load" /\ command[c].phase \in Requested)
  PROVE  EditorInv'
<1>1. /\ command' \in [Commands -> Editor!Commanded] /\ \A d \in Commands : d # c => command'[d] = command[d]
      /\ command'[c].phase = "over" /\ command'[c].kind = "none" /\ command'[c].session = Editor!None
      /\ command'[c].process = Editor!None /\ Fits(c)'
  BY OverIs
<1>2. process' \in [AgentProcesses -> Editor!Spawned] /\ ProcessInv' /\ \A p \in AgentProcesses : Moves(p)
  BY DEF EditorInv, Editor!EditorTypeOK, ProcessInv, Moves
<1> QED BY <1>1, <1>2, StillSafe

\* A command ends, and the process it was for is killed.
LEMMA KillsSafe ==
  ASSUME EditorInv, NEW c \in Commands, Editor!Over(c), UNCHANGED <<sessions, owner, current, pending, loading,
         history, options, serving>>,
         process' \in [AgentProcesses -> Editor!Spawned], ProcessInv', \A p \in AgentProcesses : Moves(p),
         \A p \in AgentProcesses : process[p].link \in {"opening", "removed"}
           => process'[p].link \in {"opening", "removed"},
         command[c].phase = "told" => process'[command[c].process].link # "open",
         command[c].phase \in Requested => command[c].kind \in {"connect", "new"}
  PROVE  EditorInv'
<1>1. /\ command' \in [Commands -> Editor!Commanded] /\ \A d \in Commands : d # c => command'[d] = command[d]
      /\ command'[c].phase = "over" /\ command'[c].kind = "none" /\ command'[c].session = Editor!None
      /\ command'[c].process = Editor!None /\ Fits(c)'
  BY OverIs
<1>2. /\ ~(command[c].kind = "resume" /\ command[c].phase = "answered" /\ command[c].answer = "answer")
      /\ ~(command[c].kind = "load" /\ command[c].phase \in Requested)
  BY DEF Requested
<1> QED BY <1>1, <1>2, StillSafe

\* A command finds the process of its agent, or has one spawned.
LEMMA EnsuresSafe ==
  ASSUME EditorInv, NEW c \in Commands, Editor!Ensures(c)
  PROVE  EditorInv'
<1>1. /\ command[c].phase = "ensuring"
      /\ UNCHANGED <<process, sessions, owner, current, pending, loading, history, options, serving>>
  BY DEF Editor!Ensures
<1>2. /\ command[c] \in Editor!Commanded /\ command[c].name \in Agents /\ command[c].name # Editor!None /\ Fits(c)
      /\ command[c].session # Editor!None => Settled(command[c].session)
  BY <1>1, Going DEF Creates
<1>3. process' \in [AgentProcesses -> Editor!Spawned] /\ ProcessInv' /\ \A p \in AgentProcesses : Moves(p)
  BY <1>1 DEF EditorInv, Editor!EditorTypeOK, ProcessInv, Moves
<1>4. command[c].kind \in {"load", "resume", "list"}
  BY <1>1, <1>2 DEF Fits
<1>5. ASSUME Editor!Becomes(c, "folder") PROVE EditorInv'
  <2>1. /\ command' \in [Commands -> Editor!Commanded] /\ \A d \in Commands : d # c => command'[d] = command[d]
        /\ command'[c].phase = "folder" /\ command'[c].kind = command[c].kind /\ command'[c].name = command[c].name
        /\ command'[c].session = command[c].session /\ command'[c].process = command[c].process
    BY <1>5, BecomesIs DEF Stages
  <2>2. Fits(c)'
    BY <1>1, <1>2, <1>4, <2>1 DEF Fits, Early, AnsweredPhases, Requested
  <2>3. command'[c].phase \notin Requested /\ command[c].phase \notin Requested
    BY <1>1, <2>1 DEF Requested
  <2> QED BY <1>1, <1>2, <1>3, <1>4, <2>1, <2>2, <2>3, StillSafe
<1>6. ASSUME NEW p \in Editor!Known(command[c].name), command' = [command EXCEPT ![c].process = p,
             ![c].phase = "connected"]
      PROVE  EditorInv'
  <2>1. p \in AgentProcesses /\ process[p].name = command[c].name /\ process[p].link \in Past
    BY <1>6 DEF Editor!Known, Editor!Linked, Past
  <2>2. command \in [Commands -> Editor!Commanded]
    BY DEF EditorInv, Editor!EditorTypeOK
  <2> DEFINE r == [command[c] EXCEPT !.process = p, !.phase = "connected"]
  <2>3. command' = [command EXCEPT ![c] = r]
    BY <1>6, <2>2, Zenon
  <2>4. /\ r \in Editor!Commanded /\ r.phase = "connected" /\ r.process = p /\ r.kind = command[c].kind
           /\ r.name = command[c].name
        /\ r.session = command[c].session
    <3>1. command[c] \in Editor!Commanded /\ p \in AgentProcesses
      BY <2>1, <2>2
    <3>2. [command[c] EXCEPT !.process = p] \in Editor!Commanded
      BY <3>1 DEF Editor!Commanded
    <3>3. \A x \in Editor!Commanded : [x EXCEPT !.phase = "connected"] \in Editor!Commanded
      BY DEF Editor!Commanded
    <3>4. r = [[command[c] EXCEPT !.process = p] EXCEPT !.phase = "connected"]
      BY <3>1 DEF Editor!Commanded
    <3>5. r \in Editor!Commanded
      BY <3>2, <3>3, <3>4, Zenon
    <3>6. /\ r.phase = "connected" /\ r.process = p /\ r.kind = command[c].kind /\ r.name = command[c].name
          /\ r.session = command[c].session
      BY <3>1 DEF Editor!Commanded
    <3> QED BY <3>5, <3>6
  <2> HIDE DEF r
  <2>5. command' \in [Commands -> Editor!Commanded] /\ command'[c] = r /\ \A d \in Commands : d # c
    => command'[d] = command[d]
    BY <2>2, <2>3, <2>4
  <2>6. Fits(c)'
    BY <1>1, <1>2, <1>4, <2>1, <2>4, <2>5 DEF Fits, Early, AnsweredPhases, Requested
  <2>7. command'[c].phase \notin Requested /\ command[c].phase \notin Requested
    BY <1>1, <2>4, <2>5 DEF Requested
  <2> QED BY <1>1, <1>2, <1>3, <1>4, <2>4, <2>5, <2>6, <2>7, StillSafe
<1>7. \/ Editor!Becomes(c, "folder")
      \/ \E p \in Editor!Known(command[c].name) :
           command' = [command EXCEPT ![c].process = p, ![c].phase = "connected"]
  BY Zenon DEF Editor!Ensures
<1> QED BY <1>5, <1>6, <1>7, Zenon

\* A process is spawned for a command.
LEMMA SpawnsSafe ==
  ASSUME EditorInv, NEW c \in Commands, NEW p \in AgentProcesses, Editor!Spawns(c, p)
  PROVE  EditorInv'
<1>1. PICK watched \in BOOLEAN : watched = (command[c].kind \in {"connect", "new"})
  <2>1. CASE command[c].kind \in {"connect", "new"}
    <3>1. TRUE = (command[c].kind \in {"connect", "new"})
      BY <2>1
    <3> QED BY <3>1, Zenon
  <2>2. CASE command[c].kind \notin {"connect", "new"}
    <3>1. FALSE = (command[c].kind \in {"connect", "new"})
      BY <2>2
    <3> QED BY <3>1, Zenon
  <2> QED BY <2>1, <2>2
<1> DEFINE r == [Editor!NoProcess EXCEPT !.name = command[c].name, !.state = "running", !.listed = TRUE,
  !.link = "opening",
                                         !.watched = watched]
<1>2. /\ command[c].phase = "folder" /\ process[p].state = "unused" /\ process' = [process EXCEPT ![p] = r]
      /\ command' = [command EXCEPT ![c].process = p, ![c].phase = "initializing"]
      /\ UNCHANGED <<sessions, owner, current, pending, loading, history, options, serving>>
  BY <1>1 DEF Editor!Spawns
<1>3. /\ command[c] \in Editor!Commanded /\ command[c].name \in Agents /\ command[c].name # Editor!None /\ Fits(c)
      /\ command[c].session # Editor!None => Settled(command[c].session)
  BY <1>2, Going DEF Creates
<1>4. process[p].link = "none" /\ process[p].inbox = << >>
  BY <1>2 DEF EditorInv, ProcessInv
<1>5. r \in Editor!Spawned /\ r.name = command[c].name /\ r.state = "running" /\ r.link = "opening"
  /\ r.inbox = << >>
  <2>1. << >> \in Seq(Editor!Messages)
    OBVIOUS
  <2>2. Editor!NoProcess \in Editor!Spawned /\ Editor!NoProcess.inbox = << >>
    BY <2>1, EditorNames DEF Editor!NoProcess, Editor!Spawned
  <2> QED BY <1>3, <2>2, Zenon DEF Editor!Spawned
<1> HIDE DEF r
<1>6. /\ process' \in [AgentProcesses -> Editor!Spawned] /\ process'[p] = r /\ \A q \in AgentProcesses : q # p
         => process'[q] = process[q]
      /\ ProcessInv' /\ \A q \in AgentProcesses : Moves(q)
  BY <1>2, <1>4, <1>5, PutMoves, Zenon
<1>7. command \in [Commands -> Editor!Commanded]
  BY DEF EditorInv, Editor!EditorTypeOK
<1> DEFINE e == [command[c] EXCEPT !.process = p, !.phase = "initializing"]
<1>8. command' = [command EXCEPT ![c] = e]
  BY <1>2, <1>7, Zenon
<1>9. /\ e \in Editor!Commanded /\ e.phase = "initializing" /\ e.process = p /\ e.kind = command[c].kind
         /\ e.name = command[c].name
      /\ e.session = command[c].session
  BY <1>7, ZenonT(30) DEF Editor!Commanded
<1> HIDE DEF e
<1>10. command' \in [Commands -> Editor!Commanded] /\ command'[c] = e /\ \A d \in Commands : d # c
  => command'[d] = command[d]
  BY <1>7, <1>8, <1>9
<1>11. Fits(c)'
  BY <1>2, <1>3, <1>5, <1>6, <1>9, <1>10 DEF Fits, Early, AnsweredPhases, Requested
<1>12. command'[c].phase \notin Requested /\ command[c].phase \notin Requested /\ command'[c].kind # "prompt"
  BY <1>2, <1>3, <1>9, <1>10 DEF Requested, Fits
<1>13. \A q \in AgentProcesses : process[q].link \in {"opening", "removed"}
  => process'[q].link \in {"opening", "removed"}
  BY <1>4, <1>6
<1> QED BY <1>2, <1>3, <1>4, <1>6, <1>9, <1>10, <1>11, <1>12, <1>13, StillSafe

\* A connection is initialized: its command asks for a session, or has the connection.
LEMMA InitializedSafe ==
  ASSUME EditorInv, NEW c \in Commands, Editor!Initialized(c)
  PROVE  EditorInv'
<1>1. PICK p, phase : p = command[c].process /\ phase = IF command[c].kind \in {"connect",
         "new"} THEN "asked" ELSE "connected"
  OBVIOUS
<1> DEFINE r == [process[p] EXCEPT !.link = "open"]
<1>2. /\ command[c].phase = "initializing" /\ process[p].link = "opening" /\ Editor!Becomes(c, phase)
      /\ UNCHANGED <<sessions, owner, current, pending, loading, history, options, serving>>
  BY <1>1 DEF Editor!Initialized
<1>3. /\ command[c] \in Editor!Commanded /\ command[c].name \in Agents /\ command[c].name # Editor!None /\ Fits(c)
      /\ command[c].session # Editor!None => Settled(command[c].session)
      /\ p \in AgentProcesses /\ process[p].name = command[c].name
  BY <1>1, <1>2, Going DEF Creates
<1>4. process \in [AgentProcesses -> Editor!Spawned] /\ process[p] \in Editor!Spawned /\ process[p].state # "unused"
  BY <1>2, <1>3 DEF EditorInv, Editor!EditorTypeOK, ProcessInv
<1>5. process' = [process EXCEPT ![p] = r]
  BY <1>1, <1>4 DEF Editor!Initialized
<1>6. r \in Editor!Spawned /\ r.name = process[p].name /\ r.state = process[p].state /\ r.link = "open"
  /\ r.inbox = process[p].inbox
  BY <1>4, Zenon DEF Editor!Spawned
<1> HIDE DEF r
<1>7. /\ process' \in [AgentProcesses -> Editor!Spawned] /\ process'[p] = r /\ \A q \in AgentProcesses : q # p
         => process'[q] = process[q]
      /\ ProcessInv' /\ \A q \in AgentProcesses : Moves(q)
  BY <1>2, <1>3, <1>4, <1>5, <1>6, PutMoves, Zenon
<1>8. phase \in Stages
  BY <1>1 DEF Stages
<1>9. /\ command' \in [Commands -> Editor!Commanded] /\ \A d \in Commands : d # c => command'[d] = command[d]
      /\ command'[c].phase = phase /\ command'[c].kind = command[c].kind /\ command'[c].name = command[c].name
      /\ command'[c].session = command[c].session /\ command'[c].process = command[c].process
  BY <1>2, <1>8, BecomesIs
<1>10. command[c].kind \in {"connect", "new", "load", "resume", "list"}
  BY <1>2, <1>3 DEF Fits, Editor!Commanded, Editor!Kinds
<1>11. Fits(c)'
  <2>1. process'[p].name = command[c].name /\ process'[p].link \in Past
    BY <1>3, <1>6, <1>7 DEF Past
  <2> QED BY <1>1, <1>2, <1>3, <1>9, <1>10, <2>1 DEF Fits, Early, AnsweredPhases, Requested
<1>12. /\ command[c].phase \notin Requested /\ command[c].phase # "told" /\ command[c].phase # "answered"
       /\ command'[c].kind = "load" => command'[c].phase \notin Requested
       /\ command'[c].phase \notin {"told", "answered", "initializing"} /\ command'[c].kind # "prompt"
  BY <1>1, <1>2, <1>9, <1>10 DEF Requested
<1>13. \A q \in AgentProcesses : process[q].link \in {"opening", "removed"} =>
          \/ process'[q].link \in {"opening", "removed"}
          \/ command[c].phase = "initializing" /\ command[c].process = q
  BY <1>1, <1>2, <1>7
<1> QED BY <1>2, <1>3, <1>7, <1>9, <1>11, <1>12, <1>13, StillSafe

\* A command that fails before its request, and one that fails to create a session.
LEMMA FailsSafe ==
  ASSUME EditorInv, NEW c \in Commands, Editor!InitializeFails(c) \/ Editor!CreateFails(c)
  PROVE  EditorInv'
<1>1. PICK p : p = command[c].process
  OBVIOUS
<1>2. ASSUME Editor!InitializeFails(c) PROVE EditorInv'
  <2>1. /\ command[c].phase = "initializing" /\ Editor!Over(c)
           /\ process' = Editor!Killed([process EXCEPT ![p].link = "removed"], p)
        /\ UNCHANGED <<sessions, owner, current, pending, loading, history, options, serving>>
    BY <1>1, <1>2 DEF Editor!InitializeFails
  <2>2. Fits(c) /\ p \in AgentProcesses
    BY <1>1, <2>1, Going
  <2>3. process[p].link \in {"opening", "removed"}
    BY <1>1, <2>1, <2>2 DEF Fits
  <2>4. process \in [AgentProcesses -> Editor!Spawned] /\ process[p] \in Editor!Spawned
    /\ process[p].state # "unused" /\ process[p].inbox = << >>
    BY <2>2, <2>3 DEF EditorInv, Editor!EditorTypeOK, ProcessInv
  <2>5. PICK state : state = IF process[p].state = "running"
           /\ process[p].listed THEN "killed" ELSE process[p].state
    OBVIOUS
  <2> DEFINE r == [process[p] EXCEPT !.link = "removed", !.state = state, !.listed = FALSE]
  <2>6. process' = [process EXCEPT ![p] = r]
    BY <2>1, <2>2, <2>4, <2>5, Zenon DEF Editor!Killed, Editor!Spawned
  <2>7. state \in {"unused", "running", "killed", "closed"} /\ state # "unused"
    BY <2>4, <2>5 DEF Editor!Spawned
  <2>8. r \in Editor!Spawned /\ r.name = process[p].name /\ r.state = state /\ r.link = "removed" /\ r.inbox = << >>
    BY <2>4, <2>7, Zenon DEF Editor!Spawned
  <2> HIDE DEF r
  <2>9. /\ process' \in [AgentProcesses -> Editor!Spawned] /\ process'[p] = r /\ \A q \in AgentProcesses : q # p
           => process'[q] = process[q]
        /\ ProcessInv' /\ \A q \in AgentProcesses : Moves(q)
    BY <2>2, <2>3, <2>6, <2>7, <2>8, PutMoves, Zenon
  <2>10. \A q \in AgentProcesses : process[q].link \in {"opening", "removed"}
    => process'[q].link \in {"opening", "removed"}
    BY <2>8, <2>9
  <2>11. command[c].phase \notin Requested /\ command[c].phase # "told"
    BY <2>1 DEF Requested
  <2> QED BY <2>1, <2>9, <2>10, <2>11, KillsSafe, Zenon
<1>3. ASSUME Editor!CreateFails(c) PROVE EditorInv'
  <2>1. /\ Editor!Fails(c) /\ command[c].kind \in {"connect", "new"} /\ process' = Editor!Killed(process, p)
           /\ Editor!Over(c)
        /\ UNCHANGED <<sessions, owner, current, pending, loading, history, options, serving>>
    BY <1>1, <1>3 DEF Editor!CreateFails
  <2>2. command[c].phase \in Requested /\ (command[c].phase = "told" => process[p].link # "open")
    BY <1>1, <2>1 DEF Editor!Fails, Editor!Cut, Requested
  <2>3. p \in AgentProcesses /\ process[p].link # "none"
    <3>1. Fits(c) /\ p \in AgentProcesses
      BY <1>1, <2>2, Going DEF Requested
    <3> QED BY <1>1, <2>2, <3>1 DEF Fits, AnsweredPhases, Requested, Past
  <2>4. /\ process' \in [AgentProcesses -> Editor!Spawned] /\ ProcessInv' /\ \A q \in AgentProcesses : Moves(q)
        /\ \A q \in AgentProcesses : process'[q].link = process[q].link
    BY <2>1, <2>3, KillsMoves
  <2>5. \A q \in AgentProcesses : process[q].link \in {"opening", "removed"}
    => process'[q].link \in {"opening", "removed"}
    BY <2>4
  <2>6. command[c].phase = "told" => process'[command[c].process].link # "open"
    BY <1>1, <2>2, <2>3, <2>4
  <2> QED BY <2>1, <2>4, <2>5, <2>6, KillsSafe
<1> QED BY <1>2, <1>3

\* A session that was offered is registered for a process of its agent, and active.
LEMMA RegistersSafe ==
  ASSUME EditorInv, NEW s \in EditorIds, NEW p \in AgentProcesses, NEW value \in 0..MaxOptionChanges,
         Editor!Registers(s, p, value, FALSE),
         owner' = [owner EXCEPT ![AgentOf[s]] = s], current' = s, UNCHANGED <<process, serving>>,
         process[p].name = AgentOf[s], process[p].link \in Past
  PROVE  /\ sessions' \in [EditorIds -> Editor!Entries] /\ owner' \in [Agents -> EditorIds \cup {Editor!None}]
            /\ current' \in EditorIds \cup {Editor!None}
         /\ pending' \in [EditorIds -> -1..MaxOptionChanges] /\ SessionInv' /\ ~sessions'[s].created
         /\ \A t \in EditorIds : t # s => sessions'[t] = sessions[t] /\ pending'[t] = pending[t]
<1>1. /\ sessions \in [EditorIds -> Editor!Entries] /\ owner \in [Agents -> EditorIds \cup {Editor!None}]
         /\ pending \in [EditorIds -> -1..MaxOptionChanges]
      /\ s # Editor!None /\ p # Editor!None /\ AgentOf[s] \in Agents
  BY EditorNames DEF EditorInv, Editor!EditorTypeOK
<1>2. PICK v : v = IF pending[s] >= 0 THEN pending[s] ELSE value
  OBVIOUS
<1>3. v \in 0..MaxOptionChanges
  <2>1. pending[s] \in -1..MaxOptionChanges
    BY <1>1
  <2> QED BY <1>2, <2>1, EditorNames
<1> DEFINE e == [process |-> p, created |-> FALSE, options |-> v]
<1>4. e \in Editor!Entries /\ e.process = p /\ ~e.created
  BY <1>3 DEF Editor!Entries
<1>5. sessions' = [sessions EXCEPT ![s] = e] /\ pending' = [pending EXCEPT ![s] = -1]
  BY <1>2 DEF Editor!Registers
<1> HIDE DEF e
<1>6. /\ sessions' \in [EditorIds -> Editor!Entries] /\ sessions'[s] = e
         /\ pending' \in [EditorIds -> -1..MaxOptionChanges]
      /\ \A t \in EditorIds : t # s => sessions'[t] = sessions[t] /\ pending'[t] = pending[t]
  BY <1>1, <1>4, <1>5, EditorNames
<1>7. owner' \in [Agents -> EditorIds \cup {Editor!None}] /\ owner'[AgentOf[s]] = s
  /\ \A n \in Agents : n # AgentOf[s] => owner'[n] = owner[n]
  BY <1>1
<1>8. SessionInv'
  <2>1. \A t \in EditorIds : Editor!Registered(t)' => Editor!NameOf(t)' = AgentOf[t]
    /\ process'[sessions'[t].process].link \in Past
    <3> SUFFICES ASSUME NEW t \in EditorIds, Editor!Registered(t)'
                 PROVE Editor!NameOf(t)' = AgentOf[t] /\ process'[sessions'[t].process].link \in Past
      OBVIOUS
    <3>1. CASE t = s
      BY <1>4, <1>6, <3>1 DEF Editor!NameOf
    <3>2. CASE t # s
      BY <1>6, <3>2 DEF Editor!NameOf, Editor!Registered, EditorInv, SessionInv
    <3> QED BY <3>1, <3>2
  <2>2. ASSUME NEW n \in Agents, NEW t, owner'[n] = t, t # Editor!None PROVE Editor!Registered(t)' /\ AgentOf[t] = n
    <3>1. CASE n = AgentOf[s]
      <4>1. t = s
        BY <1>7, <2>2, <3>1
      <4> QED BY <1>1, <1>4, <1>6, <3>1, <4>1 DEF Editor!Registered
    <3>2. CASE n # AgentOf[s]
      <4>1. t \in EditorIds /\ Editor!Registered(t) /\ AgentOf[t] = n
        BY <1>1, <1>7, <2>2, <3>2 DEF EditorInv, SessionInv
      <4> QED BY <1>6, <3>2, <4>1 DEF Editor!Registered
    <3> QED BY <3>1, <3>2
  <2>3. \A t \in EditorIds : serving'[t] # Editor!None => process'[serving'[t]].link \in Past
    BY DEF EditorInv, SessionInv
  <2>4. \A n \in Agents : owner'[n] # Editor!None => Editor!Registered(owner[n])' /\ AgentOf[owner'[n]] = n
    BY <2>2 DEF Editor!Registered
  <2>5. current' # Editor!None => Editor!Registered(current)'
    BY <1>1, <1>4, <1>6 DEF Editor!Registered
  <2> QED BY <2>1, <2>3, <2>4, <2>5 DEF SessionInv
<1> QED BY <1>4, <1>6, <1>7, <1>8

\* The active session makes room for the one a command asks to open.
LEMMA AsksToOpenSafe ==
  ASSUME EditorInv, NEW c \in Commands, Editor!AsksToOpen(c)
  PROVE  EditorInv'
<1>1. /\ command[c].phase = "connected" /\ command[c].kind \in {"load", "resume"} /\ Editor!MakesRoom(c)
         /\ Editor!Becomes(c, "picking")
      /\ UNCHANGED <<process, pending, loading, history, options, serving>>
  BY DEF Editor!AsksToOpen
<1>2. /\ command[c] \in Editor!Commanded /\ command[c].name # Editor!None /\ Fits(c)
      /\ command[c].session # Editor!None => Settled(command[c].session)
      /\ command[c].process \in AgentProcesses /\ process[command[c].process].name = command[c].name
  BY <1>1, Going DEF Creates
<1>3. /\ command' \in [Commands -> Editor!Commanded] /\ \A d \in Commands : d # c => command'[d] = command[d]
      /\ command'[c].phase = "picking" /\ command'[c].kind = command[c].kind /\ command'[c].name = command[c].name
      /\ command'[c].session = command[c].session /\ command'[c].process = command[c].process
  BY <1>1, BecomesIs DEF Stages
<1>4. Fits(c)'
  BY <1>1, <1>2, <1>3 DEF Fits, Early, AnsweredPhases, Requested
<1>5. process' \in [AgentProcesses -> Editor!Spawned] /\ ProcessInv' /\ \A p \in AgentProcesses : Moves(p)
  BY <1>1 DEF EditorInv, Editor!EditorTypeOK, ProcessInv, Moves
<1>6. Calm(c)
  BY <1>1, <1>2, <1>3 DEF Calm, Requested
<1>7. /\ sessions' \in [EditorIds -> Editor!Entries] /\ owner' \in [Agents -> EditorIds \cup {Editor!None}]
         /\ current' \in EditorIds \cup {Editor!None} /\ SessionInv'
      /\ \A t \in EditorIds : sessions'[t] = sessions[t] \/ (~sessions'[t].created
         /\ sessions'[t].process = Editor!None)
  <2>1. PICK s : s = current
    OBVIOUS
  <2>2. CASE s # command[c].session /\ Editor!Registered(s)
    <3>1. s \in EditorIds /\ Editor!NameOf(s) = AgentOf[s]
      BY <2>1, <2>2, ActiveIs
    <3>2. /\ current' = Editor!None /\ sessions' = Editor!Unregister(s)
             /\ owner' = [owner EXCEPT ![AgentOf[s]] = Editor!None]
      BY <1>1, <2>1, <2>2, <3>1 DEF Editor!MakesRoom
    <3>3. current' = IF current = s THEN Editor!None ELSE current
      BY <2>1, <3>2
    <3>4. \A p \in AgentProcesses : process[p].link \in Past => process'[p].name = process[p].name
      /\ process'[p].link \in Past
      BY <1>1
    <3> QED BY <1>1, <3>1, <3>2, <3>3, <3>4, UnregistersSafe, Zenon
  <2>3. CASE ~(s # command[c].session /\ Editor!Registered(s))
    <3>1. UNCHANGED <<sessions, owner>> /\ current' = (IF s = command[c].session THEN s ELSE Editor!None)
      BY <1>1, <2>1, <2>3 DEF Editor!MakesRoom
    <3>2. s # command[c].session => s = Editor!None
      BY <2>1, <2>3 DEF EditorInv, SessionInv
    <3>3. UNCHANGED current
      BY <2>1, <3>1, <3>2
    <3> QED BY <1>1, <1>5, <3>1, <3>3, SessionsStay DEF EditorInv, Editor!EditorTypeOK
  <2> QED BY <2>2, <2>3
<1>8. /\ pending' \in [EditorIds -> -1..MaxOptionChanges] /\ loading' \subseteq EditorIds
         /\ history' \subseteq history
      /\ \A t \in loading' : t \in loading /\ ~(command[c].kind = "load" /\ command[c].session = t
         /\ command[c].phase \in Requested)
  BY <1>1 DEF EditorInv, Editor!EditorTypeOK, Requested
<1>9. /\ \A p \in AgentProcesses : process[p].link \in {"opening", "removed"}
         => process'[p].link \in {"opening", "removed"}
      /\ command'[c].phase # "initializing" /\ command'[c].kind # "prompt"
  BY <1>1, <1>3
<1>10. \A t \in EditorIds : sessions'[t] = sessions[t] \/ (~sessions'[t].created
  /\ (sessions'[t].process # Editor!None => Settled(t)))
  BY <1>7
<1> QED BY <1>1, <1>3, <1>4, <1>5, <1>6, <1>7, <1>8, <1>9, <1>10, OneSafe

\* A command opens its session: a load before its answer, a resume with it.
LEMMA TakesSafe ==
  ASSUME EditorInv, NEW c \in Commands, NEW s, NEW p, NEW value \in 0..MaxOptionChanges,
         s = command[c].session, p = command[c].process, command[c].kind \in {"load", "resume"},
         command[c].phase \in AnsweredPhases, Editor!Registers(s, p, value, FALSE),
         owner' = [owner EXCEPT ![command[c].name] = s], current' = s,
         UNCHANGED <<process, history, options, serving>>,
         command' \in [Commands -> Editor!Commanded], \A d \in Commands : d # c
           => command'[d] = command[d], Fits(c)',
         command'[c].session \in {Editor!None, s}, command[c].phase # "told",
         \/ command'[c].phase = "over" /\ loading' = loading /\ command[c].kind # "load"
         \/ /\ command'[c].phase = "asked" /\ command'[c].kind = "load" /\ command'[c].session = s
            /\ loading' = loading \cup {s} /\ command[c].phase \notin Requested
  PROVE  EditorInv'
<1>1. command[c].phase \notin {"none", "over", "folder", "ensuring", "initializing"}
  BY DEF AnsweredPhases
<1>2. /\ command[c] \in Editor!Commanded /\ Fits(c) /\ s \in EditorIds /\ s # Editor!None /\ p \in AgentProcesses
         /\ process[p].name = AgentOf[s]
      /\ process[p].link \in Past /\ command[c].name = AgentOf[s]
  BY <1>1, Going DEF Fits
<1>3. Settled(s)
  BY <1>1, <1>2, Going DEF Creates
<1>4. /\ sessions' \in [EditorIds -> Editor!Entries] /\ owner' \in [Agents -> EditorIds \cup {Editor!None}]
         /\ current' \in EditorIds \cup {Editor!None}
      /\ pending' \in [EditorIds -> -1..MaxOptionChanges] /\ SessionInv' /\ ~sessions'[s].created
      /\ \A t \in EditorIds : t # s => sessions'[t] = sessions[t] /\ pending'[t] = pending[t]
  BY <1>2, RegistersSafe, Zenon
<1>5. Calm(c)
  <2>1. command'[c].kind = "load" /\ command'[c].phase \in Requested => command'[c].session = s
    BY DEF Requested
  <2> QED BY <1>2, <1>3, <1>4, <2>1 DEF Calm
<1>6. process' \in [AgentProcesses -> Editor!Spawned] /\ ProcessInv' /\ \A q \in AgentProcesses : Moves(q)
  BY DEF EditorInv, Editor!EditorTypeOK, ProcessInv, Moves
<1>7. /\ loading' \subseteq EditorIds /\ history' \subseteq history
      /\ \A t \in loading' :
            \/ t \in loading /\ ~(command[c].kind = "load" /\ command[c].session = t
               /\ command[c].phase \in Requested)
            \/ command'[c].kind = "load" /\ command'[c].session = t /\ command'[c].phase \in Requested
  BY <1>2 DEF EditorInv, Editor!EditorTypeOK, Requested
<1>8. /\ \A q \in AgentProcesses : process[q].link \in {"opening", "removed"}
         => process'[q].link \in {"opening", "removed"}
      /\ command'[c].phase # "initializing" /\ (command'[c].kind = "prompt" => command'[c].phase = "over")
  OBVIOUS
<1>9. /\ \A t \in EditorIds : sessions'[t] = sessions[t] \/ (~sessions'[t].created
         /\ (sessions'[t].process # Editor!None => Settled(t)))
      /\ \A t \in EditorIds : pending'[t] = pending[t] \/ Settled(t)
  BY <1>3, <1>4
<1> QED BY <1>4, <1>5, <1>6, <1>7, <1>8, <1>9, OneSafe

\* A session is asked for, and is loading if its history is to be told.
LEMMA RequestsSafe ==
  ASSUME EditorInv, NEW c \in Commands, Editor!Requests(c)
  PROVE  EditorInv'
<1>1. PICK s, p : s = command[c].session /\ p = command[c].process
  OBVIOUS
<1>2. /\ command[c].phase = "picking" /\ Editor!Becomes(c, "asked")
         /\ UNCHANGED <<process, history, options, serving>>
      /\ IF command[c].kind = "load"
           THEN /\ Editor!Registers(s, p, 0, FALSE) /\ loading' = loading \cup {s}
                /\ owner' = [owner EXCEPT ![command[c].name] = s] /\ current' = s
           ELSE UNCHANGED <<sessions, pending, loading, owner, current>>
  BY <1>1, Zenon DEF Editor!Requests
<1>3. /\ command[c] \in Editor!Commanded /\ command[c].name # Editor!None /\ Fits(c)
      /\ command[c].session # Editor!None => Settled(command[c].session)
      /\ command[c].process \in AgentProcesses /\ process[command[c].process].name = command[c].name
  BY <1>2, Going DEF Creates
<1>4. /\ command' \in [Commands -> Editor!Commanded] /\ \A d \in Commands : d # c => command'[d] = command[d]
      /\ command'[c].phase = "asked" /\ command'[c].kind = command[c].kind /\ command'[c].name = command[c].name
      /\ command'[c].session = command[c].session /\ command'[c].process = command[c].process
  BY <1>2, BecomesIs DEF Stages
<1>5. Fits(c)'
  BY <1>2, <1>3, <1>4 DEF Fits, Early, AnsweredPhases, Requested
<1>6. CASE command[c].kind = "load"
  <2>1. 0 \in 0..MaxOptionChanges /\ command[c].phase \in AnsweredPhases /\ command[c].phase \notin Requested
    BY <1>2, EditorNames DEF AnsweredPhases, Requested
  <2> QED BY <1>1, <1>2, <1>4, <1>5, <1>6, <2>1, TakesSafe, Zenon
<1>7. CASE command[c].kind # "load"
  <2>1. process' \in [AgentProcesses -> Editor!Spawned] /\ ProcessInv' /\ \A q \in AgentProcesses : Moves(q)
    BY <1>2 DEF EditorInv, Editor!EditorTypeOK, ProcessInv, Moves
  <2>2. /\ command[c].kind # "prompt" /\ history' \subseteq history
        /\ \A q \in AgentProcesses : process[q].link \in {"opening", "removed"}
           => process'[q].link \in {"opening", "removed"}
    BY <1>2, <1>3 DEF Fits
  <2> QED BY <1>2, <1>3, <1>4, <1>5, <1>7, <2>1, <2>2, StillSafe
<1> QED BY <1>6, <1>7

\* The sessions are asked for.
LEMMA AsksToListSafe ==
  ASSUME EditorInv, NEW c \in Commands, Editor!AsksToList(c)
  PROVE  EditorInv'
<1>1. /\ command[c].phase = "connected" /\ command[c].kind = "list" /\ Editor!Becomes(c, "asked")
      /\ UNCHANGED <<process, sessions, owner, current, pending, loading, history, options, serving>>
  BY DEF Editor!AsksToList
<1>2. /\ command[c] \in Editor!Commanded /\ command[c].name # Editor!None /\ Fits(c)
      /\ command[c].session # Editor!None => Settled(command[c].session)
      /\ command[c].process \in AgentProcesses /\ process[command[c].process].name = command[c].name
  BY <1>1, Going DEF Creates
<1>3. /\ command' \in [Commands -> Editor!Commanded] /\ \A d \in Commands : d # c => command'[d] = command[d]
      /\ command'[c].phase = "asked" /\ command'[c].kind = command[c].kind /\ command'[c].name = command[c].name
      /\ command'[c].session = command[c].session /\ command'[c].process = command[c].process
  BY <1>1, BecomesIs DEF Stages
<1>4. Fits(c)'
  BY <1>1, <1>2, <1>3 DEF Fits, Early, AnsweredPhases, Requested
<1>5. process' \in [AgentProcesses -> Editor!Spawned] /\ ProcessInv' /\ \A q \in AgentProcesses : Moves(q)
  BY <1>1 DEF EditorInv, Editor!EditorTypeOK, ProcessInv, Moves
<1>6. /\ history' \subseteq history
      /\ \A q \in AgentProcesses : process[q].link \in {"opening", "removed"}
         => process'[q].link \in {"opening", "removed"}
  BY <1>1
<1> QED BY <1>1, <1>2, <1>3, <1>4, <1>5, <1>6, StillSafe

\* A session that was resumed is registered.
LEMMA ResumedSafe ==
  ASSUME EditorInv, NEW c \in Commands, Editor!Resumed(c)
  PROVE  EditorInv'
<1>1. PICK s, p, value : s = command[c].session /\ p = command[c].process /\ value = command[c].options
  BY Zenon
<1>2. /\ command[c].phase = "answered" /\ command[c].kind = "resume" /\ Editor!Registers(s, p, value, FALSE)
      /\ owner' = [owner EXCEPT ![command[c].name] = s] /\ current' = s /\ Editor!Over(c)
      /\ UNCHANGED <<process, loading, history, options, serving>>
  BY <1>1, Zenon DEF Editor!Resumed, Editor!Succeeds
<1>3. value \in 0..MaxOptionChanges
  BY <1>1 DEF EditorInv, Editor!EditorTypeOK, Editor!Commanded
<1>4. /\ command' \in [Commands -> Editor!Commanded] /\ \A d \in Commands : d # c => command'[d] = command[d]
      /\ command'[c].phase = "over" /\ command'[c].kind = "none" /\ command'[c].session = Editor!None
      /\ command'[c].process = Editor!None /\ Fits(c)'
  BY <1>2, OverIs
<1>5. command[c].phase \in AnsweredPhases
  BY <1>2 DEF AnsweredPhases
<1> QED BY <1>1, <1>2, <1>3, <1>4, <1>5, TakesSafe, Zenon

\* A load ends, with its answer or without it.
LEMMA LoadedSafe ==
  ASSUME EditorInv, NEW c \in Commands, Editor!Loaded(c) \/ Editor!LoadFails(c)
  PROVE  EditorInv'
<1>1. PICK s, value : s = command[c].session /\ value = command[c].options
  OBVIOUS
<1>2. /\ command[c].kind = "load" /\ command[c].phase \in Requested /\ Editor!Over(c) /\ loading' = loading \ {s}
      /\ history' \subseteq history /\ UNCHANGED <<process, pending, options, serving>>
      /\ command[c].phase = "told" => process[command[c].process].link # "open"
      /\ \/ /\ sessions' = IF Editor!Registered(s) THEN [sessions EXCEPT ![s].options = value] ELSE sessions
            /\ UNCHANGED <<owner, current>>
         \/ /\ sessions' = Editor!Unregister(s) /\ owner' = [owner EXCEPT ![command[c].name] = Editor!None]
            /\ current' = IF current = s THEN Editor!None ELSE current
  BY <1>1 DEF Editor!Loaded, Editor!LoadFails, Editor!Succeeds, Editor!Fails, Editor!Cut, Editor!Forgets, Requested
<1>3. command[c].phase \notin {"none", "over", "folder", "ensuring", "initializing"}
  BY <1>2 DEF Requested
<1>4. /\ command[c] \in Editor!Commanded /\ Fits(c) /\ s \in EditorIds /\ s # Editor!None
         /\ command[c].name = AgentOf[s] /\ Settled(s)
  BY <1>1, <1>2, <1>3, Going DEF Fits, Creates
<1>5. ~sessions[s].created /\ sessions \in [EditorIds -> Editor!Entries] /\ value \in 0..MaxOptionChanges
  BY <1>1, <1>2, <1>4 DEF EditorInv, Editor!EditorTypeOK, LoadingInv, Editor!Commanded
<1>6. /\ command' \in [Commands -> Editor!Commanded] /\ \A d \in Commands : d # c => command'[d] = command[d]
      /\ command'[c].phase = "over" /\ command'[c].kind = "none" /\ command'[c].session = Editor!None
      /\ command'[c].process = Editor!None /\ Fits(c)'
  BY <1>2, OverIs
<1>7. process' \in [AgentProcesses -> Editor!Spawned] /\ ProcessInv' /\ \A q \in AgentProcesses : Moves(q)
  BY <1>2 DEF EditorInv, Editor!EditorTypeOK, ProcessInv, Moves
<1>8. /\ sessions' \in [EditorIds -> Editor!Entries] /\ owner' \in [Agents -> EditorIds \cup {Editor!None}]
         /\ current' \in EditorIds \cup {Editor!None} /\ SessionInv'
      /\ \A t \in EditorIds : sessions'[t] = sessions[t] \/ (~sessions'[t].created
         /\ (sessions'[t].process # Editor!None => Settled(t)))
  <2>1. CASE /\ sessions' = Editor!Unregister(s) /\ owner' = [owner EXCEPT ![command[c].name] = Editor!None]
             /\ current' = IF current = s THEN Editor!None ELSE current
    <3>1. \A p \in AgentProcesses : process[p].link \in Past => process'[p].name = process[p].name
      /\ process'[p].link \in Past
      BY <1>2
    <3>2. owner' = [owner EXCEPT ![AgentOf[s]] = Editor!None]
      BY <1>4, <2>1
    <3>3. /\ sessions' \in [EditorIds -> Editor!Entries] /\ owner' \in [Agents -> EditorIds \cup {Editor!None}]
             /\ current' \in EditorIds \cup {Editor!None}
          /\ SessionInv'
          /\ \A t \in EditorIds : sessions'[t] = sessions[t] \/ (~sessions'[t].created
             /\ sessions'[t].process = Editor!None)
      BY <1>2, <1>4, <2>1, <3>1, <3>2, UnregistersSafe, Zenon
    <3> QED BY <3>3
  <2>2. CASE sessions' = sessions /\ UNCHANGED <<owner, current>>
    BY <1>2, <1>7, <2>2, SessionsStay DEF EditorInv, Editor!EditorTypeOK
  <2>3. CASE Editor!Registered(s) /\ sessions' = [sessions EXCEPT ![s].options = value]
    /\ UNCHANGED <<owner, current>>
    <3>1. /\ sessions' \in [EditorIds -> Editor!Entries] /\ \A t \in EditorIds : t # s => sessions'[t] = sessions[t]
          /\ sessions'[s].process = sessions[s].process /\ sessions'[s].created = sessions[s].created
      BY <1>4, <1>5, <2>3 DEF Editor!Entries
    <3>2. \A t \in EditorIds : sessions'[t].process = sessions[t].process
      BY <3>1
    <3>3. owner \in [Agents -> EditorIds \cup {Editor!None}] /\ current \in EditorIds \cup {Editor!None}
      BY DEF EditorInv, Editor!EditorTypeOK
    <3>4. SessionInv'
      <4>1. \A t \in EditorIds : Editor!Registered(t)' => Editor!NameOf(t)' = AgentOf[t]
        /\ process'[sessions'[t].process].link \in Past
        BY <1>2, <3>2 DEF Editor!NameOf, Editor!Registered, EditorInv, SessionInv
      <4>2. \A t \in EditorIds : serving'[t] # Editor!None => process'[serving'[t]].link \in Past
        BY <1>2 DEF EditorInv, SessionInv
      <4>3. current' # Editor!None => Editor!Registered(current)'
        BY <2>3, <3>2, <3>3 DEF EditorInv, SessionInv, Editor!Registered
      <4>4. \A n \in Agents : owner'[n] # Editor!None => Editor!Registered(owner[n])' /\ AgentOf[owner'[n]] = n
        BY <2>3, <3>2, <3>3 DEF EditorInv, SessionInv, Editor!Registered
      <4> QED BY <4>1, <4>2, <4>3, <4>4 DEF SessionInv
    <3> QED BY <1>4, <1>5, <2>3, <3>1, <3>3, <3>4
  <2> QED BY <1>2, <2>1, <2>2, <2>3
<1>9. Calm(c)
  BY <1>2, <1>6 DEF Calm
<1>10. /\ pending' \in [EditorIds -> -1..MaxOptionChanges] /\ loading' \subseteq EditorIds
       /\ \A t \in loading' : t \in loading /\ ~(command[c].kind = "load" /\ command[c].session = t
          /\ command[c].phase \in Requested)
  BY <1>1, <1>2 DEF EditorInv, Editor!EditorTypeOK
<1>11. \A q \in AgentProcesses : process[q].link \in {"opening", "removed"}
  => process'[q].link \in {"opening", "removed"}
  BY <1>2
<1> QED BY <1>2, <1>6, <1>7, <1>8, <1>9, <1>10, <1>11, OneSafe

\* A command that ends, and leaves the maps as they are.
LEMMA ReturnsSafe ==
  ASSUME EditorInv, NEW c \in Commands, \/ Editor!SpawnFails(c) \/ Editor!RequestFails(c) \/ Editor!ResumeFails(c)
         \/ Editor!Listed(c) \/ Editor!Returns(c)
  PROVE  EditorInv'
<1>1. /\ Editor!Over(c) /\ history' \subseteq history
      /\ UNCHANGED <<process, sessions, owner, current, pending, loading, options, serving>>
      /\ command[c].phase = "told" => process[command[c].process].link # "open"
      /\ ~(command[c].kind = "resume" /\ command[c].phase = "answered" /\ command[c].answer = "answer")
      /\ ~(command[c].kind = "load" /\ command[c].phase \in Requested)
  <2>1. CASE Editor!SpawnFails(c)
    BY <2>1 DEF Editor!SpawnFails, Requested
  <2>2. CASE Editor!RequestFails(c)
    BY <2>2 DEF Editor!RequestFails, Requested
  <2>3. CASE Editor!ResumeFails(c)
    BY <2>3 DEF Editor!ResumeFails, Editor!Fails, Editor!Cut, Editor!Forgets
  <2>4. CASE Editor!Listed(c)
    BY <2>4 DEF Editor!Listed, Editor!Succeeds
  <2>5. CASE Editor!Returns(c)
    BY <2>5 DEF Editor!Returns, Editor!Succeeds, Editor!Fails, Editor!Cut
  <2> QED BY <2>1, <2>2, <2>3, <2>4, <2>5
<1> QED BY <1>1, OverSafe

\* Every step of the editor keeps its account.
LEMMA EditorNextSafe == EditorInv /\ Editor!EditorNext => EditorInv'
<1> SUFFICES ASSUME EditorInv, Editor!EditorNext PROVE EditorInv'
  OBVIOUS
<1>1. ASSUME NEW c \in Commands, Editor!UserActs(c) PROVE EditorInv'
  BY <1>1, UserSafe
<1>2. ASSUME NEW c \in Commands, Editor!Proceeds(c) PROVE EditorInv'
  <2>1. CASE Editor!Ensures(c)
    BY <2>1, EnsuresSafe
  <2>2. CASE Editor!SpawnFails(c) \/ Editor!RequestFails(c) \/ Editor!ResumeFails(c) \/ Editor!Listed(c)
    \/ Editor!Returns(c)
    BY <2>2, ReturnsSafe
  <2>3. CASE Editor!Initialized(c)
    BY <2>3, InitializedSafe
  <2>4. CASE Editor!InitializeFails(c) \/ Editor!CreateFails(c)
    BY <2>4, FailsSafe
  <2>5. CASE \E p \in AgentProcesses : Editor!Spawns(c, p)
    BY <2>5, SpawnsSafe
  <2>6. CASE Editor!AsksToOpen(c)
    BY <2>6, AsksToOpenSafe
  <2>7. CASE Editor!Requests(c)
    BY <2>7, RequestsSafe
  <2>8. CASE Editor!AsksToList(c)
    BY <2>8, AsksToListSafe
  <2>9. CASE Editor!Created(c)
    BY <2>9, CreatedSafe
  <2>10. CASE Editor!Resumed(c)
    BY <2>10, ResumedSafe
  <2>11. CASE Editor!Loaded(c) \/ Editor!LoadFails(c)
    BY <2>11, LoadedSafe
  <2> QED BY <1>2, <2>1, <2>2, <2>3, <2>4, <2>5, <2>6, <2>7, <2>8, <2>9, <2>10, <2>11 DEF Editor!Proceeds
<1>3. ASSUME NEW p \in AgentProcesses, Editor!Receives(p) PROVE EditorInv'
  BY <1>3, ReceivesSafe
<1>4. ASSUME Editor!AgentActs PROVE EditorInv'
  BY <1>4, AnswersSafe, AnswersListSafe, ChangesSafe, EndsSafe DEF Editor!AgentActs
<1> QED BY <1>1, <1>2, <1>3, <1>4 DEF Editor!EditorNext

\* The account gives what is promised of the maps.
LEMMA EditorPromises ==
  EditorInv => Editor!EditorTypeOK /\ Editor!MapsAgree /\ Editor!CreatedIsCurrent /\ Editor!LoadingIsLoaded
    /\ Editor!OnePromptEach
<1> SUFFICES ASSUME EditorInv
             PROVE Editor!EditorTypeOK /\ Editor!MapsAgree /\ Editor!CreatedIsCurrent /\ Editor!LoadingIsLoaded
               /\ Editor!OnePromptEach
  OBVIOUS
<1>1. Editor!EditorTypeOK /\ Editor!LoadingIsLoaded
  BY DEF EditorInv, LoadingInv
<1>2. Editor!MapsAgree
  <2>1. \A n \in Agents : owner[n] # Editor!None => owner[n] \in EditorIds
    BY <1>1 DEF Editor!EditorTypeOK
  <2> QED BY <2>1 DEF EditorInv, SessionInv, Editor!MapsAgree
<1>3. Editor!CreatedIsCurrent
  <2> SUFFICES ASSUME NEW s \in EditorIds, NEW p, p = sessions[s].process, Editor!Registered(s),
                      sessions[s].created,
                      process[p].link = "open", process[p].inbox = << >>, serving[s] = p, ~Editor!Reopening(s)
               PROVE  sessions[s].options = options[s]
    BY DEF Editor!CreatedIsCurrent
  <2>1. p \in AgentProcesses /\ sessions[s].options \in 0..MaxOptionChanges
    BY <1>1 DEF Editor!EditorTypeOK, Editor!Entries, Editor!Registered
  <2>2. ~Reopened(s, p) /\ Says(p, s) = {}
    BY DEF Reopened, Editor!Reopening, Says
  <2>3. Comes(p, s, sessions[s].options)
    BY <2>1, <2>2 DEF EditorInv, CreatedInv, Original
  <2> QED BY <2>2, <2>3 DEF Comes
<1>4. Editor!OnePromptEach
  BY DEF EditorInv, PromptsInv, Editor!OnePromptEach
<1> QED BY <1>1, <1>2, <1>3, <1>4

\* Steps of other parts leave the account as it is.
LEMMA EditorRests == EditorInv /\ UNCHANGED eV => EditorInv'
<1> SUFFICES ASSUME EditorInv, UNCHANGED eV PROVE EditorInv'
  OBVIOUS
<1>1. /\ UNCHANGED process /\ UNCHANGED sessions /\ UNCHANGED owner /\ UNCHANGED current /\ UNCHANGED pending
      /\ UNCHANGED loading /\ UNCHANGED command /\ UNCHANGED history /\ UNCHANGED options /\ UNCHANGED serving
  BY DEF eV
<1>2. Editor!EditorTypeOK'
  BY <1>1 DEF EditorInv, Editor!EditorTypeOK
<1>3. ProcessInv' /\ SessionInv'
  BY <1>1 DEF EditorInv, ProcessInv, SessionInv, Editor!Registered, Editor!NameOf
<1>4. CommandInv'
  BY <1>1 DEF EditorInv, CommandInv, Fits
<1>5. MessageInv'
  BY <1>1 DEF EditorInv, MessageInv
<1>6. LoadingInv' /\ PromptsInv'
  BY <1>1 DEF EditorInv, LoadingInv, Editor!LoadingIsLoaded, PromptsInv
<1>7. \A p, s : Says(p, s)' = Says(p, s)
  BY <1>1 DEF Says
<1>8. NewInv'
  BY <1>1, <1>7 DEF EditorInv, NewInv, Editor!Registered
<1>9. \A p, s, v : Comes(p, s, v)' <=> Comes(p, s, v)
  BY <1>1 DEF Says, Comes
<1>10. CreatingInv'
  <2>1. \A c, s, p : Creating(c, s, p) => Creating(c, s, p)'
    BY <1>1 DEF Creating, Says, Comes, Editor!Registered
  <2> QED BY <1>1, <2>1 DEF EditorInv, CreatingInv, Creates
<1>11. CreatedInv'
  <2>1. \A s, p : Original(s, p) => Original(s, p)'
    BY <1>1 DEF Original, Reopened, Says, Comes
  <2> QED BY <1>1, <2>1 DEF EditorInv, CreatedInv
<1> QED BY <1>2, <1>3, <1>4, <1>5, <1>6, <1>8, <1>10, <1>11 DEF EditorInv

\* The account is kept by every step, of the editor or beside it.
THEOREM EditorSafe == SideSpec => []EditorInv
<1>1. SideInit => EditorInv
  BY EditorStarts DEF SideInit
<1>2. EditorInv /\ [UNCHANGED part /\ SideNext]_<<part, sideVars>> => EditorInv'
  <2>1. [UNCHANGED part /\ SideNext]_<<part, sideVars>> => Editor!EditorNext \/ UNCHANGED eV
    BY DEF SideNext, sideVars
  <2> QED BY <2>1, EditorNextSafe, EditorRests
<1> QED BY <1>1, <1>2, PTL DEF SideSpec

\* However the user's commands overlap and whenever an agent's process ends, the session
\* shown and every agent's session are registered, a session that was created has the
\* options its agent has, a replay has the load that ends it, and a session one prompt.
THEOREM EditorMapsStay == SideSpec => []EditorMapsAgree
<1>1. EditorInv => EditorMapsAgree
  BY EditorPromises DEF EditorMapsAgree
<1> QED BY <1>1, EditorSafe, PTL
=============================================================================

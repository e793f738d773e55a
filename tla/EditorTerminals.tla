--------------------------- MODULE EditorTerminals ---------------------------
(***************************************************************************)
(* The terminals of one connection of the extension                         *)
(* (handlers/TerminalHandler.ts): each runs a command for the agent until   *)
(* it exits, is killed by the agent or the user, or is released, and the    *)
(* end of the connection releases them all.  The system may refuse a kill.  *)
(***************************************************************************)
CONSTANT Terminals

VARIABLES
  program, \* the command's process
  kept,    \* terminals: those the agent can name
  create,  \* the agent's request that makes each
  release, \* the release of each, asked once and shared
  wait,    \* a request that waits for the exit of each
  disposed \* the connection has ended

terminalVars == <<program, kept, create, release, wait, disposed>>

\* A process that cannot be started has no pid: it is missing, then known as absent.
Programs == {"none", "starting", "missing", "running", "killed", "closed", "absent"}
Live     == {"starting", "running", "killed"}
Ended    == {"closed", "absent"}

TerminalInit ==
  /\ program = [t \in Terminals |-> "none"] /\ kept = {} /\ disposed = FALSE
  /\ create = [t \in Terminals |-> "none"] /\ release = [t \in Terminals |-> "none"]
  /\ wait = [t \in Terminals |-> "none"]

Becomes(t, phase) == program' = [program EXCEPT ![t] = phase]

\* terminal/create: the process is spawned before anything else can happen; it may
\* turn out to be missing.
Creates(t) ==
  /\ create[t] = "none"
  /\ IF disposed
       THEN create' = [create EXCEPT ![t] = "refused"] /\ UNCHANGED <<program, kept>>
       ELSE /\ create' = [create EXCEPT ![t] = "spawning"] /\ kept' = kept \cup {t}
            /\ \E phase \in {"starting", "missing"} : Becomes(t, phase)
  /\ UNCHANGED <<release, wait, disposed>>

\* spawn itself throws: nothing was made.
CreateThrows(t) ==
  /\ create[t] = "none" /\ ~disposed /\ create' = [create EXCEPT ![t] = "refused"]
  /\ UNCHANGED <<program, kept, release, wait, disposed>>

Spawned(t) ==
  /\ program[t] = "starting" /\ Becomes(t, "running")
  /\ UNCHANGED <<kept, create, release, wait, disposed>>

\* The process closes, by itself or killed.
Closes(t) ==
  /\ program[t] \in {"missing", "running", "killed"}
  /\ Becomes(t, IF program[t] = "missing" THEN "absent" ELSE "closed")
  /\ UNCHANGED <<kept, create, release, wait, disposed>>

\* The request hears that the process was spawned; if the connection ended meanwhile
\* it waits for the process to close and is refused.
CreateAnswered(t) ==
  /\ create[t] = "spawning" /\ program[t] \in {"running", "killed", "closed"}
  /\ disposed => program[t] = "closed"
  /\ create' = [create EXCEPT ![t] = IF disposed THEN "refused" ELSE "answered"]
  /\ UNCHANGED <<program, kept, release, wait, disposed>>

\* It was missing: the terminal goes as soon as that is known.
CreateFails(t) ==
  /\ create[t] = "spawning" /\ program[t] = "absent"
  /\ create' = [create EXCEPT ![t] = "refused"] /\ kept' = kept \ {t}
  /\ UNCHANGED <<program, release, wait, disposed>>

\* kill: by terminal/kill, by the user who closes the terminal, or for a release.  One that
\* the system refuses, for whatever reason but that the process is gone, fails its request
\* and changes nothing else.
Kills(t) == program[t] \in {"starting", "running"} /\ Becomes(t, "killed")

Kill(t) ==
  /\ t \in kept /\ create[t] \in {"spawning", "answered"} /\ Kills(t)
  /\ UNCHANGED <<kept, create, release, wait, disposed>>

\* A release kills, unless one is under way or was before.  It fails for a process that
\* has no pid, or when its kill is refused: it stays failed, and the process as it was.
StartsRelease(ts, refused) ==
  LET asked == {t \in ts : release[t] = "none"}
      fails == {t \in asked : program[t] = "missing" \/ (program[t] \in Live /\ t \in refused)}
  IN /\ program' = [t \in Terminals |->
          IF t \in asked \ fails /\ program[t] \in Live THEN "killed" ELSE program[t]]
     /\ release' = [t \in Terminals |->
          IF t \in fails THEN "failed" ELSE IF t \in asked THEN "killing" ELSE release[t]]

Release(t) ==
  /\ t \in kept /\ create[t] = "answered" /\ release[t] = "none"
  /\ \E refused \in SUBSET {t} : StartsRelease({t}, refused)
  /\ UNCHANGED <<kept, create, wait, disposed>>

Closed(t) == program[t] \in Ended

ReleaseEnds(t) ==
  /\ release[t] = "killing" /\ Closed(t)
  /\ release' = [release EXCEPT ![t] = "done"] /\ kept' = kept \ {t}
  /\ UNCHANGED <<program, create, wait, disposed>>

\* terminal/wait_for_exit, answered when the process closes or the request is
\* cancelled.
Waits(t) ==
  /\ wait[t] = "none" /\ create[t] = "answered"
  /\ wait' = [wait EXCEPT ![t] = IF t \in kept THEN "waiting" ELSE "unavailable"]
  /\ UNCHANGED <<program, kept, create, release, disposed>>

WaitEnds(t) ==
  /\ wait[t] = "waiting" /\ program[t] = "closed" /\ wait' = [wait EXCEPT ![t] = "answered"]
  /\ UNCHANGED <<program, kept, create, release, disposed>>

WaitCancelled(t) ==
  /\ wait[t] = "waiting" /\ wait' = [wait EXCEPT ![t] = "cancelled"]
  /\ UNCHANGED <<program, kept, create, release, disposed>>

Disposes == kept

\* dispose: nothing is created after it, and what there is is released; that a release
\* fails is only logged.
Dispose ==
  /\ ~disposed /\ disposed' = TRUE
  /\ \E refused \in SUBSET Terminals : StartsRelease(Disposes, refused)
  /\ UNCHANGED <<kept, create, wait>>

TerminalSteps(t) ==
  Spawned(t) \/ CreateAnswered(t) \/ CreateFails(t) \/ ReleaseEnds(t) \/ WaitEnds(t)

TerminalNext ==
  \/ \E t \in Terminals : \/ Creates(t) \/ CreateThrows(t) \/ Closes(t) \/ Kill(t) \/ Release(t)
                          \/ Waits(t) \/ WaitCancelled(t) \/ TerminalSteps(t)
  \/ Dispose

-----------------------------------------------------------------------------
TerminalTypeOK ==
  /\ program \in [Terminals -> Programs] /\ kept \subseteq Terminals
  /\ create \in [Terminals -> {"none", "spawning", "answered", "refused"}]
  /\ release \in [Terminals -> {"none", "killing", "failed", "done"}]
  /\ wait \in [Terminals -> {"none", "waiting", "answered", "cancelled", "unavailable"}]
  /\ disposed \in BOOLEAN

\* A process that runs can be named, by the agent to kill it or by the end of the
\* connection, and what the agent was given it keeps until it is released.
LiveIsKept ==
  \A t \in Terminals :
    /\ program[t] \in Live => t \in kept
    /\ create[t] = "answered" /\ release[t] = "none" => t \in kept

\* A process that is released runs on only if that was refused: so does, when the
\* connection has ended, one that runs at all, also one that was being spawned meanwhile;
\* and what is still kept then is being released, or could not be.
NoneRunsOn ==
  \A t \in Terminals :
    /\ program[t] \in {"starting", "running"} =>
         release[t] = "failed" \/ (release[t] = "none" /\ ~disposed)
    /\ disposed /\ t \in kept => release[t] \in {"killing", "failed"} \/ program[t] = "absent"
=============================================================================

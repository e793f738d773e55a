--------------------------- MODULE ClientTerminals ---------------------------
(***************************************************************************)
(* The terminal tool of the adapter (acp/client-terminal.ts): the client   *)
(* owns the processes, the agent asks for one per tool operation, waits    *)
(* for its exit, reads its output and asks for its release.                *)
(*                                                                         *)
(* Each await can be overtaken by the operation's signal or its deadline,  *)
(* by the client's refusal or an unusable answer, and by the end of the    *)
(* connection.  The answer to terminal/create keeps being awaited after    *)
(* the operation is over, so that a late terminal is released too.         *)
(***************************************************************************)
EXTENDS Naturals

CONSTANT Runs    \* terminal/run operations, of one connection

VARIABLES
  online,     \* whether the connection is up
  standsAt,   \* run -> its current await
  terminal,   \* run -> the request for its terminal, "known" once the answer arrived
  cancelled,  \* run -> its signal or its deadline fired
  exited,     \* run -> the client reported the exit
  cleaning,   \* run -> the memoised cleanup
  releases,   \* run -> release requests sent
  outcome     \* run -> its answer to the tool

terminalVars ==
  <<online, standsAt, terminal, cancelled, exited, cleaning, releases, outcome>>

TerminalsTypeOK ==
  /\ online \in BOOLEAN
  /\ standsAt \in [Runs -> {"unasked", "creating", "exiting", "reading", "surfacing",
                            "leaving", "done"}]
  /\ terminal \in [Runs -> {"none", "asked", "known", "refused"}]
  /\ cancelled \in [Runs -> BOOLEAN] /\ exited \in [Runs -> BOOLEAN]
  /\ cleaning \in [Runs -> {"none", "killing", "releasing", "released", "failed"}]
  /\ releases \in [Runs -> Nat]
  /\ outcome \in [Runs -> {"none", "result", "failed"}]

TerminalsInit ==
  /\ online = TRUE
  /\ standsAt = [r \in Runs |-> "unasked"] /\ terminal = [r \in Runs |-> "none"]
  /\ cancelled = [r \in Runs |-> FALSE] /\ exited = [r \in Runs |-> FALSE]
  /\ cleaning = [r \in Runs |-> "none"] /\ releases = [r \in Runs |-> 0]
  /\ outcome = [r \in Runs |-> "none"]

-----------------------------------------------------------------------------
\* throwIfAborted, then terminal/create, which only the connection's end cancels.
Creates(r) ==
  /\ standsAt[r] = "unasked" /\ online /\ ~cancelled[r]
  /\ standsAt' = [standsAt EXCEPT ![r] = "creating"]
  /\ terminal' = [terminal EXCEPT ![r] = "asked"]
  /\ UNCHANGED <<online, cancelled, exited, cleaning, releases, outcome>>

\* release begins, unless it is already under way: a kill first when the command may
\* still run, then the release itself.
Cleans(r, done) ==
  /\ cleaning' = [cleaning EXCEPT ![r] = IF @ # "none" THEN @
                                         ELSE IF done THEN "releasing" ELSE "killing"]
  /\ releases' = [releases EXCEPT ![r] = IF cleaning[r] = "none" /\ done THEN @ + 1 ELSE @]

\* Mutant: nobody waits for a terminal that arrives after its operation.
ReleasesLate_Never(r) == FALSE

\* The answer finds the operation cancelled.
ReleasesLate(r) == cancelled[r]

\* terminal/create is answered: the terminal is known, and waited for or, too late, released.
CreateAnswered(r) ==
  /\ online /\ terminal[r] = "asked"
  /\ terminal' = [terminal EXCEPT ![r] = "known"]
  /\ standsAt' = [standsAt EXCEPT ![r] = IF @ = "creating" THEN "exiting" ELSE @]
  /\ IF ReleasesLate(r) THEN Cleans(r, exited[r]) ELSE UNCHANGED <<cleaning, releases>>
  /\ UNCHANGED <<online, cancelled, exited, outcome>>

\* The answer is an error or holds no terminal ID: there is nothing to release.
CreateRefused(r) ==
  /\ online /\ terminal[r] = "asked"
  /\ terminal' = [terminal EXCEPT ![r] = "refused"]
  /\ IF standsAt[r] = "creating"
     THEN /\ standsAt' = [standsAt EXCEPT ![r] = "done"]
          /\ outcome' = [outcome EXCEPT ![r] = "failed"]
     ELSE UNCHANGED <<standsAt, outcome>>
  /\ UNCHANGED <<online, cancelled, exited, cleaning, releases>>

\* terminal/wait_for_exit is answered.
ExitReported(r) ==
  /\ online /\ standsAt[r] = "exiting"
  /\ exited' = [exited EXCEPT ![r] = TRUE]
  /\ standsAt' = [standsAt EXCEPT ![r] = "reading"]
  /\ UNCHANGED <<online, terminal, cancelled, cleaning, releases, outcome>>

\* terminal/output is answered; the result is only given once the release succeeds.
OutputRead(r) ==
  /\ online /\ standsAt[r] = "reading"
  /\ standsAt' = [standsAt EXCEPT ![r] = "surfacing"]
  /\ Cleans(r, TRUE)
  /\ UNCHANGED <<online, terminal, cancelled, exited, outcome>>

\* An await fails, by the client's error, an unusable answer or too much output: finally
\* releases, and the operation fails once that is over.
AnswerUnusable(r) ==
  /\ online /\ standsAt[r] \in {"exiting", "reading"}
  /\ standsAt' = [standsAt EXCEPT ![r] = "leaving"]
  /\ Cleans(r, exited[r])
  /\ UNCHANGED <<online, terminal, cancelled, exited, outcome>>

\* The operation's signal or its deadline: the current await is given up.  One without a
\* terminal yet has nothing to wait for; one that is releasing goes on doing so.
Cancel(r) ==
  /\ standsAt[r] # "unasked" /\ ~cancelled[r]
  /\ cancelled' = [cancelled EXCEPT ![r] = TRUE]
  /\ standsAt' = [standsAt EXCEPT ![r] = CASE @ = "creating" -> "done"
                                           [] @ \in {"exiting", "reading"} -> "leaving"
                                           [] OTHER -> @]
  /\ IF standsAt[r] \in {"exiting", "reading"} THEN Cleans(r, exited[r])
                                               ELSE UNCHANGED <<cleaning, releases>>
  /\ outcome' = [outcome EXCEPT ![r] = IF standsAt[r] = "creating" THEN "failed" ELSE @]
  /\ UNCHANGED <<online, terminal, exited>>

\* terminal/kill is answered, refused or times out: the release follows in any case.
KillOver(r) ==
  /\ online /\ cleaning[r] = "killing"
  /\ cleaning' = [cleaning EXCEPT ![r] = "releasing"]
  /\ releases' = [releases EXCEPT ![r] = @ + 1]
  /\ UNCHANGED <<online, standsAt, terminal, cancelled, exited, outcome>>

\* What the tool answers once its cleanup is over.
Answer(r, released) == IF standsAt[r] = "surfacing" /\ released THEN "result" ELSE "failed"

\* terminal/release is answered, or refused or times out.
ReleaseOver(r) ==
  /\ online /\ cleaning[r] = "releasing"
  /\ \E released \in BOOLEAN :
       /\ cleaning' = [cleaning EXCEPT ![r] = IF released THEN "released" ELSE "failed"]
       /\ IF standsAt[r] \in {"surfacing", "leaving"}
          THEN /\ standsAt' = [standsAt EXCEPT ![r] = "done"]
               /\ outcome' = [outcome EXCEPT ![r] = Answer(r, released)]
          ELSE UNCHANGED <<standsAt, outcome>>
  /\ UNCHANGED <<online, terminal, cancelled, exited, releases>>

\* The connection ends: every await does, and the client owns what it created.
Disconnect ==
  /\ online
  /\ online' = FALSE
  /\ LET ends == {r \in Runs : standsAt[r] \notin {"unasked", "done"}}
     IN /\ standsAt' = [r \in Runs |-> IF r \in ends THEN "done" ELSE standsAt[r]]
        /\ outcome' = [r \in Runs |-> IF r \in ends THEN "failed" ELSE outcome[r]]
        /\ cancelled' = [r \in Runs |-> cancelled[r] \/ r \in ends]
  /\ cleaning' = [r \in Runs |-> IF cleaning[r] \in {"killing", "releasing"} THEN "failed"
                                 ELSE cleaning[r]]
  /\ UNCHANGED <<terminal, exited, releases>>

TerminalsNext ==
  \/ \E r \in Runs :
       \/ Creates(r) \/ CreateAnswered(r) \/ CreateRefused(r) \/ ExitReported(r)
       \/ OutputRead(r) \/ AnswerUnusable(r) \/ Cancel(r) \/ KillOver(r) \/ ReleaseOver(r)
  \/ Disconnect

-----------------------------------------------------------------------------
\* A terminal the client made is released exactly once while the connection lasts, also
\* when it was made after its operation was cancelled (client-terminal.ts:97-118).
TerminalsAreReleased ==
  \A r \in Runs :
    /\ releases[r] <= 1
    /\ online /\ terminal[r] = "known" /\ standsAt[r] = "done" =>
         cleaning[r] = "killing" \/ releases[r] = 1

\* A command's result is only given once its terminal is released
\* (client-terminal.ts:204-207).
ResultsFollowRelease == \A r \in Runs : outcome[r] = "result" => cleaning[r] = "released"
==============================================================================

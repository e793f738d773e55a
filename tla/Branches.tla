------------------------------ MODULE Branches ------------------------------
(***************************************************************************)
(* Forks and compactions of one session, and the adoption of the live      *)
(* registry by a restored one (core/session/runtime: registry-adoption,    *)
(* env-events, conversation-effects; core/agent/agent-conversation).       *)
(*                                                                         *)
(* A request for a branch is journaled, waits in the conversation for a    *)
(* boundary between turns, and is then published: the blobs it inherits    *)
(* are copied, its own creation record is committed and only then does the *)
(* caller get the runtime.  The parent may close or fail at any point.     *)
(* The writer is reduced to a line of submissions whose head is being      *)
(* appended; SessionWriter models it in full.                              *)
(***************************************************************************)
EXTENDS Naturals, Sequences, FiniteSets

CONSTANTS
  Branch,        \* requests for a branch
  MaxInputs,     \* user inputs sent
  MaxRestores    \* times the session is opened again

VARIABLES
  standing,      \* of the actor: "open", "closed", "failed" or "gone" (its process)
  line,          \* submissions, the head being appended
  journaled,     \* kinds of the committed records
  turnRuns,      \* whether the conversation is within a turn
  adoption,      \* "none", "planned", or "submitted" until its record commits
  restored,      \* revision and plan the running instance started from
  branching,     \* request -> how far it has come
  taken,         \* request -> complete turns its seed holds
  child,         \* request -> the runtime opened for it
  answered,      \* request -> its caller's promise
  inputs         \* user inputs sent

branchVars == <<standing, line, journaled, turnRuns, adoption, restored,
                branching, taken, child, answered, inputs>>

Submissions == {"adopt", "user", "end"} \union Branch

BranchTypeOK ==
  /\ standing \in {"open", "closed", "failed", "gone"}
  /\ line \in Seq(Submissions) /\ journaled \in Seq(Submissions)
  /\ turnRuns \in BOOLEAN /\ adoption \in {"none", "planned", "submitted"}
  /\ restored \in [at : 0 .. Len(journaled), planned : BOOLEAN,
                   times : 0 .. MaxRestores]
  /\ branching \in [Branch -> {"unasked", "submitted", "pending", "copying",
                               "creating", "created", "done"}]
  /\ taken \in [Branch -> 0 .. MaxInputs]
  /\ child \in [Branch -> {"none", "open", "closed"}]
  /\ answered \in [Branch -> {"none", "waits", "resolved", "rejected"}]
  /\ inputs \in 0 .. MaxInputs

BranchInit ==
  /\ standing = "open" /\ line = <<>> /\ journaled = <<>> /\ turnRuns = FALSE
  /\ adoption = "none"
  /\ restored = [at |-> 0, planned |-> FALSE, times |-> 0]
  /\ branching = [r \in Branch |-> "unasked"] /\ taken = [r \in Branch |-> 0]
  /\ child = [r \in Branch |-> "none"] /\ answered = [r \in Branch |-> "none"]
  /\ inputs = 0

-----------------------------------------------------------------------------
(* Public events.                                                          *)

\* Work submitted behind a planned adoption that nothing submitted yet.
Adopting(s) == IF adoption = "planned" THEN <<"adopt", s>> ELSE <<s>>

Dispatched(s) == /\ standing = "open"
                 /\ line' = line \o Adopting(s)
                 /\ adoption' = IF adoption = "planned" THEN "submitted" ELSE adoption

\* user: another turn, or input for the one that runs.
Inputs ==
  /\ inputs < MaxInputs
  /\ Dispatched("user")
  /\ inputs' = inputs + 1
  /\ UNCHANGED <<standing, journaled, turnRuns, restored, branching, taken, child, answered>>

\* branchEvent: the reply is registered before the request is submitted.
Branches(r) ==
  /\ branching[r] = "unasked"
  /\ Dispatched(r)
  /\ branching' = [branching EXCEPT ![r] = "submitted"]
  /\ answered' = [answered EXCEPT ![r] = "waits"]
  /\ UNCHANGED <<standing, journaled, turnRuns, restored, taken, child, inputs>>

\* The turn's last operation settles; its event is submitted without a dispatch.
TurnSettles ==
  /\ standing = "open" /\ turnRuns
  /\ \A i \in DOMAIN line : line[i] # "end"
  /\ line' = Append(line, "end")
  /\ UNCHANGED <<standing, journaled, turnRuns, adoption, restored, branching, taken,
                 child, answered, inputs>>

-----------------------------------------------------------------------------
(* The head of the line.                                                   *)

Turns(records) == Cardinality({i \in DOMAIN records : records[i] = "end"})
RunsAfter(s) == s = "user" \/ (turnRuns /\ s # "end")

\* drain of decideConversation: at a boundary every pending request is replied to.
Released(runs, asked) ==
  IF runs THEN {} ELSE asked \union {r \in Branch : branching[r] = "pending"}

\* The record commits: releaseCommitted runs the commands the submission staged.
Commits ==
  /\ standing = "open" /\ line # <<>>
  /\ LET s     == Head(line)
         asked == IF s \in Branch THEN {s} ELSE {}
         out   == Released(RunsAfter(s), asked)
         log   == Append(journaled, s)
     IN /\ journaled' = log
        /\ turnRuns' = RunsAfter(s)
        /\ adoption' = IF s = "adopt" THEN "none" ELSE adoption
        /\ branching' = [r \in Branch |-> IF r \in out THEN "copying"
                                          ELSE IF r \in asked THEN "pending"
                                          ELSE branching[r]]
        /\ taken' = [r \in Branch |-> IF r \in out THEN Turns(log) ELSE taken[r]]
  /\ line' = Tail(line)
  /\ UNCHANGED <<standing, restored, child, answered, inputs>>

\* Refusals that fail the session: of the records it makes itself.  A caller's own
\* input is only answered.
Gates(s) == s \in {"adopt", "end"}

\* stop: every request whose caller still waits is rejected.
Rejected(rs) ==
  [r \in Branch |-> IF r \in rs /\ answered[r] = "waits" THEN "rejected" ELSE answered[r]]

Stops(to) ==
  /\ standing' = to /\ line' = <<>>
  /\ answered' = Rejected(Branch)
  /\ UNCHANGED <<adoption, restored, branching, taken, child, inputs>>

\* Staging refuses the head: a running turn may refuse input, a registry that no
\* longer validates refuses the adoption.
Refuses ==
  /\ standing = "open" /\ line # <<>>
  /\ Head(line) \in {"adopt", "user"}
  /\ Head(line) = "user" => turnRuns
  /\ \/ Gates(Head(line)) /\ Stops("failed")
     \/ ~Gates(Head(line)) /\ line' = Tail(line)
        /\ UNCHANGED <<standing, adoption, restored, branching, taken, child,
                       answered, inputs>>
  /\ UNCHANGED <<journaled, turnRuns>>

\* What the journal holds of an append nobody waits for any longer.
Lands(records) ==
  \/ journaled' = journaled /\ UNCHANGED turnRuns
  \/ /\ records # <<>>
     /\ journaled' = Append(journaled, Head(records))
     /\ turnRuns' = RunsAfter(Head(records))

\* The append fails for good, or the caller closes the session during one.
ParentStops ==
  \/ standing = "open" /\ line # <<>> /\ Stops("failed") /\ Lands(line)
  \/ standing \in {"open", "failed"} /\ Stops("closed") /\ Lands(line)

-----------------------------------------------------------------------------
(* initializeBranch: the publication of one branch.                        *)

Advances(r, to) == branching' = [branching EXCEPT ![r] = to]

\* copyBranchBlobs under a controller the parent's stop aborts.
Copies(r) ==
  /\ branching[r] = "copying" /\ standing # "gone"
  /\ \/ standing = "open" /\ Advances(r, "creating") /\ UNCHANGED answered
     \/ Advances(r, "done") /\ answered' = Rejected({r})
  /\ UNCHANGED <<standing, line, journaled, turnRuns, adoption, restored, taken, child, inputs>>

\* initializeSession of the child: nothing aborts it; a failed creation closes it.
Creates(r) ==
  /\ branching[r] = "creating" /\ standing # "gone"
  /\ \/ Advances(r, "created") /\ child' = [child EXCEPT ![r] = "open"] /\ UNCHANGED answered
     \/ /\ Advances(r, "done")
        /\ child' = [child EXCEPT ![r] = "closed"] /\ answered' = Rejected({r})
  /\ UNCHANGED <<standing, line, journaled, turnRuns, adoption, restored, taken, inputs>>

\* Mutant: the parent is not looked at again once the child is created.
Publishable_Always == standing \in {"open", "closed", "failed"}

\* Whether the parent may still hand the child over.
Publishable == standing \notin {"closed", "failed"}

\* The caller gets the child, or nobody does and it is closed.
Publishes(r) ==
  /\ branching[r] = "created" /\ standing # "gone"
  /\ Advances(r, "done")
  /\ \/ /\ Publishable
        /\ answered' = [answered EXCEPT ![r] = IF @ = "waits" THEN "resolved" ELSE @]
        /\ UNCHANGED child
     \/ /\ ~Publishable
        /\ child' = [child EXCEPT ![r] = "closed"] /\ answered' = Rejected({r})
  /\ UNCHANGED <<standing, line, journaled, turnRuns, adoption, restored, taken, inputs>>

-----------------------------------------------------------------------------
(* The process dies; the session is opened again.                          *)

Underway == {r \in Branch : branching[r] \in {"submitted", "pending", "copying",
                                              "creating", "created"}}

Dies ==
  /\ standing \notin {"gone"} /\ Lands(line)
  /\ standing' = "gone" /\ line' = <<>>
  /\ branching' = [r \in Branch |-> IF r \in Underway THEN "done" ELSE branching[r]]
  /\ answered' = [r \in Branch |-> IF answered[r] = "waits" THEN "none" ELSE answered[r]]
  /\ child' = [r \in Branch |-> IF child[r] = "open" THEN "closed" ELSE child[r]]
  /\ UNCHANGED <<adoption, restored, taken, inputs>>

\* restoreSession: the interrupted turn is ended, the requests that waited for it are
\* dropped, and a registry that changed leaves an adoption planned.
Restores(planned) ==
  /\ standing # "open" /\ restored.times < MaxRestores
  /\ \A r \in Branch : branching[r] \notin {"copying", "creating", "created"}
  /\ standing' = "open" /\ turnRuns' = FALSE
  /\ journaled' = IF turnRuns THEN Append(journaled, "end") ELSE journaled
  /\ branching' = [r \in Branch |-> IF r \in Underway THEN "done" ELSE branching[r]]
  /\ adoption' = IF planned THEN "planned" ELSE "none"
  /\ restored' = [at |-> Len(journaled'), planned |-> planned, times |-> restored.times + 1]
  /\ UNCHANGED <<line, taken, child, answered, inputs>>

-----------------------------------------------------------------------------
BranchNext ==
  \/ Inputs \/ TurnSettles \/ Commits \/ Refuses \/ ParentStops \/ Dies
  \/ \E r \in Branch : Branches(r) \/ Copies(r) \/ Creates(r) \/ Publishes(r)
  \/ \E planned \in BOOLEAN : Restores(planned)

BranchSpec == BranchInit /\ [][BranchNext]_branchVars

-----------------------------------------------------------------------------
\* A runtime opened for a branch is either its caller's or closed, whenever the
\* parent stopped meanwhile; and no caller waits for a request that is over, or for
\* one of a session that stopped.
NoStrayBranches ==
  \A r \in Branch :
    /\ child[r] = "open" /\ branching[r] = "done" => answered[r] = "resolved"
    /\ answered[r] = "waits" => branching[r] # "done" /\ standing = "open"

\* Turns the records up to a position begin.
Begun(upto) ==
  Cardinality({i \in 1 .. upto :
    /\ journaled[i] = "user"
    /\ \A j \in 1 .. i - 1 : journaled[j] = "user" =>
         \E k \in j + 1 .. i - 1 : journaled[k] = "end"})

\* A branch holds exactly the turns that had begun when it was asked for, each of
\* them complete: it waited for the one that ran and for no later one.
BranchesAtBoundary ==
  \A r \in Branch : branching[r] \in {"copying", "creating", "created"} =>
    \E i \in DOMAIN journaled : journaled[i] = r /\ taken[r] = Begun(i)

\* Whatever a restored session does first, the registry it does it under is journaled
\* before it; and when that record is refused nothing behind it is recorded.
AdoptedFirst ==
  restored.planned /\ Len(journaled) > restored.at => journaled[restored.at + 1] = "adopt"
=============================================================================

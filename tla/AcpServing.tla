----------------------------- MODULE AcpServing -----------------------------
(***************************************************************************)
(* What an ACP process owes its clients: the claims of its connections on   *)
(* one session, and the prompts and forks of one open session.  A behaviour *)
(* is one of either part; the part not picked stays in its initial state.   *)
(***************************************************************************)
EXTENDS AcpProperties

CONSTANTS Prompts, Forks, Nobody, MaxDrops

ASSUME PromptAssumption ==
  /\ Prompts \subseteq Int /\ Forks \subseteq Int /\ MaxDrops \in Nat
  /\ Nobody \notin Prompts /\ Nobody \notin Forks

VARIABLES part, prompt, active, promptDone, fork, forkTail, turn, session, drops

Prompt == INSTANCE AcpPrompt

promptVars  == <<prompt, active, promptDone, fork, forkTail, turn, session, drops>>
servingVars == <<part, acpVars, promptVars>>

ServingInit == part \in {"claims", "prompts"} /\ AcpInit /\ Prompt!PromptInit

ServingNext ==
  /\ UNCHANGED part
  /\ \/ part = "claims"  /\ AcpNext /\ UNCHANGED promptVars
     \/ part = "prompts" /\ Prompt!PromptNext /\ UNCHANGED acpVars

ServingSpec == ServingInit /\ [][ServingNext]_servingVars

ServingFairness ==
  /\ AcpFairness
  /\ WF_promptVars(part = "prompts" /\ Prompt!PromptProgress)

ServingFairSpec == ServingSpec /\ ServingFairness

-----------------------------------------------------------------------------
\* One prompt at a time has the session, forks are taken while no turn runs, and a
\* cancelled prompt says so (packages/acp/rpc/prompt.ts, session.ts).
PromptsTakeTurns ==
  part = "prompts" =>
    Prompt!PromptTypeOK /\ Prompt!OnePrompt /\ Prompt!ForksAtRest /\ Prompt!CancelsAreAnswered

\* Every prompt is answered, however prompts and forks wait for each other
\* (prompt.ts, session.ts awaitForksQuiet).
PromptsAreAnswered == Prompt!PromptsAreAnswered
=============================================================================

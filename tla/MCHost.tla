------------------------------- MODULE MCHost -------------------------------
(***************************************************************************)
(* Small instances of a host for TLC: two calls of one tool.               *)
(***************************************************************************)
EXTENDS HostProperties, TLC

CONSTANTS k1, k2

TwoCalls == <<k1, k2>>
SameTool == [c \in {k1, k2} |-> "tool"]

\* A journaled session that asks, one that does not, and the in-memory runtime.
Asking2 == [journaled |-> TRUE, asks |-> TRUE, tolerant |-> TRUE, deadline |-> FALSE]
Timed   == [journaled |-> TRUE, asks |-> FALSE, tolerant |-> FALSE, deadline |-> TRUE]
Memory  == [journaled |-> FALSE, asks |-> TRUE, tolerant |-> FALSE, deadline |-> TRUE]
Kinds   == {Asking2, Timed, Memory}

With(kind, calls, allowance) == kind @@ [calls |-> calls, allowance |-> allowance]
May(turns, aborts, barges, resets, ends) ==
  [turns |-> turns, aborts |-> aborts, barges |-> barges, resets |-> resets, ends |-> ends]

Scenario(kind, calls, allowance, may) == [mode |-> With(kind, calls, allowance), left |-> may]

\* Two calls at once; two steps in a turn; two turns around a policy change; and
\* a user who barges in.
Batches == {Scenario(k, 2, 1, May(1, 1, 0, 0, 1)) : k \in {Asking2, Memory}}
             \cup {Scenario(Timed, 2, 1, May(1, 1, 0, 0, 0)), Scenario(Timed, 2, 1, May(1, 0, 0, 0, 1))}
TwoSteps == {Scenario(k, 1, 2, May(1, 1, 0, 0, 1)) : k \in Kinds}
TwoTurns == {Scenario(Asking2, 1, 1, May(2, 0, 0, 1, 0))}
Barging  == {Scenario(Timed, 1, 1, May(1, 1, 1, 0, 0)), Scenario(Memory, 1, 1, May(1, 0, 1, 0, 0))}

Everything == Batches \cup TwoSteps \cup TwoTurns \cup Barging
==============================================================================

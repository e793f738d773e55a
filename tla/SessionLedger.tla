---------------------------- MODULE SessionLedger ----------------------------
(***************************************************************************)
(* What a session promises the callers of its runtime: a ledger of batches *)
(* that grows at its end, a cursor that dispatches each batch at most once *)
(* and in order, and for every caller one verdict, which says `accepted'   *)
(* only of a dispatched batch and refuses for good only what the ledger    *)
(* does not and never will hold.                                           *)
(***************************************************************************)
EXTENDS Naturals, Sequences

CONSTANTS
  Owners,    \* who may submit a batch
  Openers,   \* those of them that ask again whenever the session is opened
  Verdicts,  \* "none", "accepted", and the ways of not accepting
  Final      \* the verdicts that promise the batch will never commit

VARIABLES
  log,      \* the owners of the committed batches, in order
  cursor,   \* batches before it were dispatched, or skipped by a restart
  verdict,  \* what each owner was told
  up        \* a runtime has the session open

ledgerVars == <<log, cursor, verdict, up>>

InLog(o) == \E i \in DOMAIN log : log[i] = o

LedgerInit ==
  /\ log = << >>
  /\ cursor = 0
  /\ verdict = [o \in Owners |-> "none"]
  /\ up = TRUE

\* A batch commits; a client's at most once, and not after a final refusal.
\* What was sent to storage before may commit while no runtime is up.
Commit ==
  /\ Len(log') = Len(log) + 1
  /\ LET o == log'[Len(log')]
     IN /\ log' = Append(log, o)
        /\ o \in Owners \ Openers => ~InLog(o) /\ verdict[o] \notin Final
  /\ UNCHANGED <<cursor, verdict, up>>

\* The next committed batch is dispatched and its owner told so.
Dispatch ==
  /\ up = TRUE
  /\ cursor < Len(log)
  /\ cursor' = cursor + 1
  /\ verdict' = [o \in Owners |->
       IF o = log[cursor + 1] /\ verdict[o] = "none" THEN "accepted" ELSE verdict[o]]
  /\ UNCHANGED <<log, up>>

\* Owners are told anything else, once.
Answer ==
  /\ up = TRUE
  /\ verdict' \in [Owners -> Verdicts]
  /\ \A o \in Owners : verdict'[o] # verdict[o] =>
       /\ verdict[o] = "none"
       /\ verdict'[o] # "accepted"
       /\ verdict'[o] \in Final => ~InLog(o)
  /\ UNCHANGED <<log, cursor, up>>

\* The runtime goes; whoever was not answered yet never is.
Leave ==
  /\ up = TRUE
  /\ up' = FALSE
  /\ UNCHANGED <<log, cursor, verdict>>

\* The session is opened again, at the end of the ledger: what committed
\* without being dispatched is never dispatched.
Reopen ==
  /\ up = FALSE
  /\ up' = TRUE
  /\ cursor' = Len(log)
  /\ verdict' = [o \in Owners |-> IF o \in Openers THEN "none" ELSE verdict[o]]
  /\ UNCHANGED log

LedgerNext == Commit \/ Dispatch \/ Answer \/ Leave \/ Reopen

LedgerSpec == LedgerInit /\ [][LedgerNext]_ledgerVars
==============================================================================

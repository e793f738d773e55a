---------------------------- MODULE Elicitations ----------------------------
(***************************************************************************)
(* What a session asks its user through the client                         *)
(* (acp/client-elicitation.ts): forms, which are over once answered, and   *)
(* URLs, which the user opens and which complete later.  Each holds one of *)
(* a bounded number of slots.  MCP servers ask too (acp/mcp.ts:177-231):   *)
(* they name their URL requests themselves and say when one is complete.   *)
(*                                                                         *)
(* Answers, completions, cancellations and the session's end come in any   *)
(* order; a server's completion may come before the user's answer.         *)
(***************************************************************************)
EXTENDS Naturals, FiniteSets

CONSTANTS
  Forms,       \* form requests
  Urls,        \* URL requests
  ServerName,  \* URL request -> the MCP server's ID of it, 0 when a host tool asks
  Slots        \* requests outstanding at a time

VARIABLES
  elicit,       \* request -> how far it is
  slots,        \* requests that hold a slot
  lifetime,     \* whether the session's elicitations are not closed
  completes,    \* server's ID -> the request its completion is for
  completions   \* request -> completions sent to the client

elicitVars == <<elicit, slots, lifetime, completes, completions>>

Elicits == Forms \union Urls
ServerIds == {ServerName[e] : e \in Urls} \ {0}

\* An ID is unknown, of a request that is not answered yet, or of an accepted one.
Absent == <<>>
Unanswered == <<0>>

ElicitationsTypeOK ==
  /\ elicit \in [Elicits -> {"unasked", "refused", "waits", "over", "accepted", "aborted",
                             "completed"}]
  /\ slots \subseteq Elicits /\ lifetime \in BOOLEAN
  /\ \A i \in ServerIds : completes[i] \in {Absent, Unanswered} \union {<<e>> : e \in Urls}
  /\ completions \in [Elicits -> Nat]

ElicitationsInit ==
  /\ elicit = [e \in Elicits |-> "unasked"] /\ slots = {} /\ lifetime = TRUE
  /\ completes = [i \in ServerIds |-> Absent]
  /\ completions = [e \in Elicits |-> 0]

-----------------------------------------------------------------------------
Full == Cardinality(slots) >= Slots

\* The map of the MCP servers' IDs, when the request has one.
Names(e, to) ==
  completes' = [i \in ServerIds |-> IF e \in Urls /\ ServerName[e] = i THEN to ELSE completes[i]]

Duplicate(e) == e \in Urls /\ ServerName[e] # 0 /\ completes[ServerName[e]] # Absent

\* form, url: a slot is reserved and the client asked, unless the session ended.
Elicit(e) ==
  /\ elicit[e] = "unasked" /\ ~Duplicate(e)
  /\ IF ~Full /\ lifetime
     THEN /\ elicit' = [elicit EXCEPT ![e] = "waits"]
          /\ slots' = slots \union {e} /\ Names(e, Unanswered)
     ELSE /\ elicit' = [elicit EXCEPT ![e] = "refused"]
          /\ UNCHANGED <<slots, completes>>
  /\ UNCHANGED <<lifetime, completions>>

\* An MCP server names a request as one that is outstanding.
DuplicateRefused(e) ==
  /\ elicit[e] = "unasked" /\ Duplicate(e)
  /\ elicit' = [elicit EXCEPT ![e] = "refused"]
  /\ UNCHANGED <<slots, lifetime, completes, completions>>

\* A form is over with its answer, whether or not that fits the form.  So is a request
\* that is declined, fails, takes too long or is cancelled; its ID is free again.
Over(e) ==
  /\ elicit[e] = "waits"
  /\ elicit' = [elicit EXCEPT ![e] = "over"]
  /\ slots' = slots \ {e} /\ Names(e, Absent)
  /\ UNCHANGED <<lifetime, completions>>

\* The user accepts to open a URL: its slot stays taken until it completes.
Accepted(e) ==
  /\ e \in Urls /\ elicit[e] = "waits"
  /\ elicit' = [elicit EXCEPT ![e] = "accepted"]
  /\ Names(e, <<e>>)
  /\ UNCHANGED <<slots, lifetime, completions>>

\* Only the request that is kept under an ID gives it up.
Forgets(es) == completes' = [i \in ServerIds |-> IF completes[i] \in {<<e>> : e \in es}
                                                 THEN Absent ELSE completes[i]]

\* The signal of an accepted URL: of the tool call or of the turn.
Aborted(e) ==
  /\ elicit[e] = "accepted"
  /\ elicit' = [elicit EXCEPT ![e] = "aborted"]
  /\ slots' = slots \ {e} /\ Forgets({e})
  /\ UNCHANGED <<lifetime, completions>>

\* It holds its slot and was not cancelled.
Completable(e) == e \in slots /\ elicit[e] = "accepted"

\* complete: the client hears of it unless it is over.
Completes(es) ==
  LET sent == {e \in es : Completable(e)}
  IN /\ elicit' = [e \in Elicits |-> IF e \in sent THEN "completed" ELSE elicit[e]]
     /\ slots' = slots \ sent
     /\ completions' = [e \in Elicits |-> completions[e] + IF e \in sent THEN 1 ELSE 0]

\* A host tool says that its URL is complete, perhaps more than once.
ToolCompletes(e) ==
  /\ e \in Urls /\ ServerName[e] = 0 /\ elicit[e] \in {"accepted", "aborted", "completed"}
  /\ Completes({e})
  /\ UNCHANGED <<lifetime, completes>>

\* An MCP server says so: the ID is free again, and what was kept under it completes.
ServerCompletes(i) ==
  /\ completes[i] # Absent
  /\ completes' = [completes EXCEPT ![i] = Absent]
  /\ Completes({e \in Urls : completes[i] = <<e>>})
  /\ UNCHANGED lifetime

\* close: what waits is rejected, what was accepted is aborted.
ElicitationsClose ==
  /\ lifetime
  /\ lifetime' = FALSE /\ slots' = {}
  /\ elicit' = [e \in Elicits |-> CASE elicit[e] = "waits"    -> "over"
                                    [] elicit[e] = "accepted" -> "aborted"
                                    [] OTHER                  -> elicit[e]]
  /\ completes' = [i \in ServerIds |-> Absent]
  /\ UNCHANGED completions

ElicitationsNext ==
  \/ \E e \in Elicits : \/ Elicit(e) \/ DuplicateRefused(e) \/ Over(e) \/ Accepted(e)
                        \/ Aborted(e) \/ ToolCompletes(e)
  \/ \E i \in ServerIds : ServerCompletes(i)
  \/ ElicitationsClose

-----------------------------------------------------------------------------
\* A slot is held by exactly the requests that wait for the user, and never by more than
\* the limit (client-elicitation.ts:194-199, 225-227, 252-280).
SlotsAreHeld ==
  /\ slots = {e \in Elicits : elicit[e] \in {"waits", "accepted"}}
  /\ Cardinality(slots) <= Slots

\* The client is told once that a URL is complete, and never of one that was aborted; an
\* MCP server's ID leads to a request that was accepted and is still open
\* (client-elicitation.ts:278-293, mcp.ts:203-231).
CompletesOnce ==
  /\ \A e \in Elicits : completions[e] = (IF elicit[e] = "completed" THEN 1 ELSE 0)
  /\ \A i \in ServerIds : \A e \in Urls : completes[i] = <<e>> => elicit[e] = "accepted"
=============================================================================

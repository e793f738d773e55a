------------------------------ MODULE McpProxy ------------------------------
(***************************************************************************)
(* MCP over the agent's own connection (acp/mcp-acp.ts): the host runs the *)
(* servers, and every session's MCP client has a transport that asks the   *)
(* host for a connection and exchanges messages over it.  The bridge keeps *)
(* which transport a connection's incoming messages belong to.             *)
(*                                                                         *)
(* A transport may be closed while its connection is being made; answers,  *)
(* cancellations and the end of the agent's connection come in any order.  *)
(***************************************************************************)
EXTENDS Naturals, FiniteSets

CONSTANTS
  Transports,    \* transports made by the bridge
  Ids,           \* connection IDs the host gives, again too
  Asks,          \* requests of the host to an MCP client
  Calls          \* requests of an MCP client to its server

VARIABLES
  connected,     \* whether the agent's connection is up
  linked,        \* transport -> "new", "connecting", "settled" once mcp/connect is answered
  shut,          \* transport -> closed
  name,          \* transport -> its connection, 0 when it has none
  endpoints,     \* connection -> the transport it belongs to, 0 for none
  open,          \* connections the host gave and was not asked to end
  asks,          \* host request -> its transport and how far it is
  calls,         \* client request -> its transport and how far it is
  heard          \* client requests whose answer was passed on

proxyVars == <<connected, linked, shut, name, endpoints, open, asks, calls, heard>>

Exchange == [of : Transports \union {0},
             at : {"unsent", "waits", "answered", "cancelled", "dropped", "discarded"}]

ProxyTypeOK ==
  /\ connected \in BOOLEAN
  /\ linked \in [Transports -> {"new", "connecting", "settled"}]
  /\ shut \in [Transports -> BOOLEAN] /\ name \in [Transports -> Ids \union {0}]
  /\ endpoints \in [Ids -> Transports \union {0}] /\ open \subseteq Ids
  /\ asks \in [Asks -> Exchange] /\ calls \in [Calls -> Exchange]
  /\ heard \subseteq Calls

ProxyInit ==
  /\ connected = TRUE
  /\ linked = [t \in Transports |-> "new"] /\ shut = [t \in Transports |-> FALSE]
  /\ name = [t \in Transports |-> 0] /\ endpoints = [i \in Ids |-> 0] /\ open = {}
  /\ asks = [q \in Asks |-> [of |-> 0, at |-> "unsent"]]
  /\ calls = [q \in Calls |-> [of |-> 0, at |-> "unsent"]]
  /\ heard = {}

-----------------------------------------------------------------------------
(* Connecting and closing.                                                 *)

Start(t) ==
  /\ connected /\ linked[t] = "new" /\ ~shut[t]
  /\ linked' = [linked EXCEPT ![t] = "connecting"]
  /\ UNCHANGED <<connected, shut, name, endpoints, open, asks, calls, heard>>

\* A connection that arrives too late is ended again.
Ends(t, i) == IF shut[t] /\ endpoints[i] = 0 THEN open \ {i} ELSE open \union {i}

\* mcp/connect is answered, also after the transport was closed.  One that is in use by
\* another transport is refused, and stays that one's.
Connected(t) ==
  /\ connected /\ linked[t] = "connecting"
  /\ linked' = [linked EXCEPT ![t] = "settled"]
  /\ \E i \in Ids :
       /\ open' = Ends(t, i)
       /\ LET takes == endpoints[i] = 0 /\ ~shut[t]
          IN /\ name' = IF takes THEN [name EXCEPT ![t] = i] ELSE name
             /\ endpoints' = IF takes THEN [endpoints EXCEPT ![i] = t] ELSE endpoints
  /\ UNCHANGED <<connected, shut, asks, calls, heard>>

\* The host cannot connect.
ConnectRefused(t) ==
  /\ connected /\ linked[t] = "connecting"
  /\ linked' = [linked EXCEPT ![t] = "settled"]
  /\ UNCHANGED <<connected, shut, name, endpoints, open, asks, calls, heard>>

\* What is under way on these transports ends without an answer.
Drops(exchanges, ts) ==
  [q \in DOMAIN exchanges |->
     IF exchanges[q].of \in ts /\ exchanges[q].at = "waits"
     THEN [exchanges[q] EXCEPT !.at = "dropped"] ELSE exchanges[q]]

\* close: the endpoint is removed, everything under way ends and the host is told.
Close(t) ==
  /\ ~shut[t]
  /\ shut' = [shut EXCEPT ![t] = TRUE]
  /\ endpoints' = [i \in Ids |-> IF endpoints[i] = t THEN 0 ELSE endpoints[i]]
  /\ open' = IF connected THEN open \ {name[t]} ELSE open
  /\ asks' = Drops(asks, {t}) /\ calls' = Drops(calls, {t})
  /\ UNCHANGED <<connected, linked, name, heard>>

-----------------------------------------------------------------------------
(* Requests of the host to the MCP client.                                 *)

\* request: found by its connection; an unknown one is refused.
Ask(q) ==
  /\ connected /\ asks[q].at = "unsent"
  /\ \E i \in Ids : endpoints[i] # 0 /\ asks' = [asks EXCEPT ![q] = [of |-> endpoints[i],
                                                                     at |-> "waits"]]
  /\ UNCHANGED <<connected, linked, shut, name, endpoints, open, calls, heard>>

\* send of a response: the pending request is looked up, and is gone once it ended.
AskAnswered(q) ==
  /\ asks[q].of # 0 /\ ~shut[asks[q].of]
  /\ asks[q].at = "waits"
  /\ asks' = [asks EXCEPT ![q].at = "answered"]
  /\ UNCHANGED <<connected, linked, shut, name, endpoints, open, calls, heard>>

\* The host cancels it or its minute is over: the MCP client is told.
AskCancelled(q) ==
  /\ asks[q].at = "waits"
  /\ asks' = [asks EXCEPT ![q].at = "cancelled"]
  /\ UNCHANGED <<connected, linked, shut, name, endpoints, open, calls, heard>>

-----------------------------------------------------------------------------
(* Requests of the MCP client to its server.                               *)

\* send of a request: mcp/message over the transport's connection.
Call(q) ==
  /\ calls[q].at = "unsent" /\ connected
  /\ \E t \in Transports : /\ ~shut[t] /\ name[t] # 0
                           /\ calls' = [calls EXCEPT ![q] = [of |-> t, at |-> "waits"]]
  /\ UNCHANGED <<connected, linked, shut, name, endpoints, open, asks, heard>>

\* send of notifications/cancelled: the request to the host is cancelled.
CallCancelled(q) ==
  /\ calls[q].at = "waits"
  /\ calls' = [calls EXCEPT ![q].at = "cancelled"]
  /\ UNCHANGED <<connected, linked, shut, name, endpoints, open, asks, heard>>

\* An answer of the host is passed on unless the transport closed or the call was cancelled.
Passes(q) == ~shut[calls[q].of] /\ calls[q].at = "waits"

\* The host answers a call, with a result or an error, also one that is over.
CallAnswered(q) ==
  /\ connected /\ calls[q].at \in {"waits", "cancelled", "dropped"}
  /\ calls' = [calls EXCEPT ![q].at = IF @ = "waits" THEN "answered" ELSE "discarded"]
  /\ heard' = IF Passes(q) THEN heard \union {q} ELSE heard
  /\ UNCHANGED <<connected, linked, shut, name, endpoints, open, asks>>

\* The agent's connection ends: nothing is answered any more.
ProxyDisconnect ==
  /\ connected
  /\ connected' = FALSE
  /\ linked' = [t \in Transports |-> IF linked[t] = "connecting" THEN "settled"
                                     ELSE linked[t]]
  /\ asks' = Drops(asks, Transports) /\ calls' = Drops(calls, Transports)
  /\ UNCHANGED <<shut, name, endpoints, open, heard>>

ProxyNext ==
  \/ \E t \in Transports : Start(t) \/ Connected(t) \/ ConnectRefused(t) \/ Close(t)
  \/ \E q \in Asks : Ask(q) \/ AskAnswered(q) \/ AskCancelled(q)
  \/ \E q \in Calls : Call(q) \/ CallCancelled(q) \/ CallAnswered(q)
  \/ ProxyDisconnect

-----------------------------------------------------------------------------
\* Every connection the host opened belongs to a transport that still takes messages, or
\* the host was asked to end it; one whose answer came after the close too
\* (mcp-acp.ts:113-125, 216-235).
ConnectionsAreHeld ==
  /\ \A i \in Ids : endpoints[i] # 0 => ~shut[endpoints[i]] /\ name[endpoints[i]] = i
  /\ connected => \A i \in open : endpoints[i] # 0

\* A closed transport has nothing under way, and no client hears an answer to a call it
\* cancelled or whose transport was closed (mcp-acp.ts:175-212).
ClosedIsQuiet ==
  /\ \A q \in Asks : asks[q].at = "waits" => ~shut[asks[q].of]
  /\ \A q \in Calls : calls[q].at = "waits" => ~shut[calls[q].of]
  /\ \A q \in heard : calls[q].at = "answered"
=============================================================================

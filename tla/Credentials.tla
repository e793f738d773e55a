----------------------------- MODULE Credentials -----------------------------
(***************************************************************************)
(* One connection's credentials (acp/auth.ts, acp/rpc/connection.ts): its  *)
(* initialization, the changes the client asks for with authenticate and   *)
(* logout, and the access every session handler checks.                    *)
(*                                                                         *)
(* A change first ends the sessions opened under the credentials before    *)
(* it, then calls the host.  It can be cancelled at any of its awaits: its *)
(* caller is answered at once, but the host's callback runs on and keeps   *)
(* the changes locked until it settles.                                    *)
(***************************************************************************)
CONSTANTS
  Logins,       \* authenticate requests
  Logouts,      \* logout requests
  Seats         \* sessions of the connection

VARIABLES
  handshake,    \* whether the connection is initialized
  access,       \* `permitted`: the connection's own grant
  credential,   \* what the host answers to isAuthenticated
  locked,       \* the change under way
  change,       \* change -> how far its callback is
  gone,         \* change -> its request or the connection was cancelled
  reply,        \* change -> what its request was answered
  latest,       \* the change that settled last
  seat          \* session -> whether it opens or is open

credentialVars ==
  <<handshake, access, credential, locked, change, gone, reply, latest, seat>>

Changes == Logins \union Logouts
NoChange == "none"

CredentialsTypeOK ==
  /\ handshake \in {"no", "under way", "done"}
  /\ access \in BOOLEAN /\ credential \in BOOLEAN
  /\ locked \in Changes \union {NoChange} /\ latest \in Changes \union {NoChange}
  /\ change \in [Changes -> {"unasked", "revoking", "calling", "settled"}]
  /\ gone \in [Changes -> BOOLEAN] /\ reply \in [Changes -> {"none", "done", "failed"}]
  /\ seat \in [Seats -> {"none", "opening", "open", "closing"}]

CredentialsInit ==
  /\ handshake = "no" /\ access = TRUE /\ credential \in BOOLEAN
  /\ locked = NoChange /\ latest = NoChange
  /\ change = [c \in Changes |-> "unasked"] /\ gone = [c \in Changes |-> FALSE]
  /\ reply = [c \in Changes |-> "none"] /\ seat = [s \in Seats |-> "none"]

-----------------------------------------------------------------------------
\* initialize: what the host's models accept is asked first; a second one is refused
\* while it waits, and a failed one may be repeated.
Initialize ==
  /\ \/ handshake = "no" /\ handshake' = "under way"
     \/ handshake = "under way" /\ handshake' \in {"done", "no"}
  /\ UNCHANGED <<access, credential, locked, change, gone, reply, latest, seat>>

\* requireAccess.
Access == handshake = "done" /\ locked = NoChange /\ access /\ credential

\* A session handler passes the check; one that opens a session passes it again before the
\* session is published.
SeatTaken(s) ==
  /\ Access
  /\ seat[s] \in {"none", "opening"}
  /\ seat' = [seat EXCEPT ![s] = IF @ = "none" THEN "opening" ELSE "open"]
  /\ UNCHANGED <<handshake, access, credential, locked, change, gone, reply, latest>>

\* A session is closed, or its opening ends without one.
SeatLeft(s) ==
  /\ seat[s] # "none"
  /\ seat' = [seat EXCEPT ![s] = "none"]
  /\ UNCHANGED <<handshake, access, credential, locked, change, gone, reply, latest>>

\* The credentials come or go outside the agent.
CredentialMoves ==
  /\ credential' = ~credential
  /\ UNCHANGED <<handshake, access, locked, change, gone, reply, latest, seat>>

-----------------------------------------------------------------------------
\* transition: access ends, the openings under way are cancelled and the sessions begin to
\* close, all before its first await.
ChangeBegins(c) ==
  /\ handshake = "done" /\ change[c] = "unasked" /\ ~gone[c] /\ locked = NoChange
  /\ locked' = c /\ access' = FALSE
  /\ change' = [change EXCEPT ![c] = "revoking"]
  /\ seat' = [s \in Seats |-> CASE seat[s] = "opening" -> "none"
                                [] seat[s] = "open"    -> "closing"
                                [] OTHER               -> seat[s]]
  /\ UNCHANGED <<handshake, credential, gone, reply, latest>>

\* Only one change at a time.
ChangeRefused(c) ==
  /\ handshake = "done" /\ change[c] = "unasked"
  /\ gone[c] \/ locked # NoChange
  /\ change' = [change EXCEPT ![c] = "settled"]
  /\ reply' = [reply EXCEPT ![c] = "failed"]
  /\ UNCHANGED <<handshake, access, credential, locked, gone, latest, seat>>

\* The change is over: the lock is free and, unless it was cancelled, its caller answered.
Settles(c, granted, answer) ==
  /\ locked' = NoChange /\ latest' = c
  /\ access' = granted
  /\ change' = [change EXCEPT ![c] = "settled"]
  /\ reply' = [reply EXCEPT ![c] = IF @ = "none" THEN answer ELSE @]

\* Every session of the old credentials is closed: the host is called, unless the change
\* was cancelled meanwhile.
Revoked(c) ==
  /\ change[c] = "revoking" /\ \A s \in Seats : seat[s] # "closing"
  /\ IF gone[c] THEN Settles(c, FALSE, "failed")
     ELSE /\ change' = [change EXCEPT ![c] = "calling"]
          /\ UNCHANGED <<access, locked, reply, latest>>
  /\ UNCHANGED <<handshake, credential, gone, seat>>

\* Mutant: a cancelled change still grants what its callback brought about.
Granted_Late(c, now) == IF c \in Logins THEN now ELSE ~now

\* The host's callback did what was asked, in time.
Granted(c, now) == ~gone[c] /\ (IF c \in Logins THEN now ELSE ~now)

\* The callback returns or throws, having changed the credentials or not.
CallbackReturns(c) ==
  /\ change[c] = "calling"
  /\ \E now \in BOOLEAN, thrown \in BOOLEAN :
       LET good == ~thrown /\ Granted(c, now)
       IN /\ credential' = now
          /\ Settles(c, good /\ c \in Logins, IF good THEN "done" ELSE "failed")
  /\ UNCHANGED <<handshake, gone, seat>>

\* The request is cancelled or the connection ends: the caller is answered at once.
ChangeCancelled(c) ==
  /\ change[c] # "settled" /\ ~gone[c]
  /\ gone' = [gone EXCEPT ![c] = TRUE]
  /\ reply' = [reply EXCEPT ![c] = IF change[c] = "unasked" THEN @ ELSE "failed"]
  /\ UNCHANGED <<handshake, access, credential, locked, change, latest, seat>>

CredentialsNext ==
  \/ Initialize \/ CredentialMoves
  \/ \E s \in Seats : SeatTaken(s) \/ SeatLeft(s)
  \/ \E c \in Changes : \/ ChangeBegins(c) \/ ChangeRefused(c) \/ Revoked(c)
                        \/ CallbackReturns(c) \/ ChangeCancelled(c)

-----------------------------------------------------------------------------
\* The connection has access by the latest change only if that was a login which was
\* answered so: the late result of a cancelled one grants nothing (auth.ts:73-87).
NoLateGrant == access /\ latest # NoChange => latest \in Logins /\ reply[latest] = "done"

\* While the host changes the credentials no session is open under the old ones, and none
\* opens; whoever opened one had passed the check (auth.ts:69-77, open.ts:360-368).
RevokedBeforeChange ==
  \A c \in Changes :
    change[c] = "calling" => locked = c /\ ~access /\ \A s \in Seats : seat[s] = "none"
==============================================================================

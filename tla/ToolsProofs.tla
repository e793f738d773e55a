----------------------------- MODULE ToolsProofs -----------------------------
(***************************************************************************)
(* The adapter's tools keep their word and access follows the credentials: *)
(* for each part, that its invariant holds at the start and is kept by     *)
(* every step, and last the theorems about the whole.                      *)
(***************************************************************************)
EXTENDS ToolsInvariant, FiniteSetTheorems, SequenceTheorems, TLAPS

-----------------------------------------------------------------------------
\* The connection's credentials

LEMMA AuthStarts == Auth!CredentialsInit => AuthInv
BY ToolsAssumption
   DEF AuthInv, Auth!CredentialsInit, Auth!CredentialsTypeOK, Auth!NoLateGrant, Auth!NoChange, Auth!Changes

\* A change that settles frees the lock.
LEMMA AuthSettles ==
  ASSUME AuthInv, NEW c \in Auth!Changes, change[c] \in {"revoking", "calling"},
         NEW granted \in BOOLEAN, NEW answer \in {"done", "failed"},
         Auth!Settles(c, granted, answer), granted => c \in Logins /\ answer = "done" /\ ~gone[c],
         credential' \in BOOLEAN, UNCHANGED <<handshake, gone, seat>>
  PROVE  AuthInv'
<1>1. /\ change' = [change EXCEPT ![c] = "settled"] /\ locked' = "none" /\ latest' = c /\ access' = granted
      /\ reply' = [reply EXCEPT ![c] = IF @ = "none" THEN answer ELSE @]
  BY DEF Auth!Settles, Auth!NoChange
<1>2. /\ change \in [Auth!Changes -> {"unasked", "revoking", "calling", "settled"}]
      /\ reply \in [Auth!Changes -> {"none", "done", "failed"}] /\ c # "none" /\ locked = c
  BY ToolsAssumption DEF AuthInv, Auth!CredentialsTypeOK, Auth!Changes
<1>3. Auth!CredentialsTypeOK'
  BY <1>1, <1>2 DEF AuthInv, Auth!CredentialsTypeOK, Auth!NoChange
<1>4. /\ change'[c] = "settled" /\ reply'[c] = (IF reply[c] = "none" THEN answer ELSE reply[c])
      /\ \A d \in Auth!Changes : d # c => change'[d] = change[d] /\ reply'[d] = reply[d]
  BY <1>1, <1>2
<1>5. Auth!NoLateGrant'
  BY <1>1, <1>4 DEF AuthInv, Auth!NoLateGrant
<1>6. \A d \in Auth!Changes : change'[d] \notin {"revoking", "calling"} /\ d # "none"
  BY <1>2, <1>4, ToolsAssumption DEF AuthInv, Auth!Changes
<1> QED BY <1>1, <1>2, <1>3, <1>4, <1>5, <1>6 DEF AuthInv

\* Every step keeps the invariant.
LEMMA AuthNextSafe ==
  ASSUME AuthInv, [Auth!CredentialsNext]_aV
  PROVE  AuthInv'
<1>1. /\ change \in [Auth!Changes -> {"unasked", "revoking", "calling", "settled"}]
      /\ reply \in [Auth!Changes -> {"none", "done", "failed"}] /\ gone \in [Auth!Changes -> BOOLEAN]
      /\ seat \in [Seats -> {"none", "opening", "open", "closing"}]
      /\ \A d \in Auth!Changes : d # "none"
  BY ToolsAssumption DEF AuthInv, Auth!CredentialsTypeOK, Auth!Changes
<1>2. CASE UNCHANGED aV
  BY <1>2 DEF aV, AuthInv, Auth!CredentialsTypeOK, Auth!NoLateGrant
<1>3. CASE Auth!Initialize
  BY <1>3 DEF Auth!Initialize, AuthInv, Auth!CredentialsTypeOK, Auth!NoLateGrant
<1>4. CASE Auth!CredentialMoves
  BY <1>4 DEF Auth!CredentialMoves, AuthInv, Auth!CredentialsTypeOK, Auth!NoLateGrant
<1>5. ASSUME NEW s \in Seats, Auth!SeatTaken(s) PROVE AuthInv'
  BY <1>1, <1>5 DEF Auth!SeatTaken, Auth!Access, AuthInv, Auth!CredentialsTypeOK, Auth!NoLateGrant, Auth!NoChange
<1>6. ASSUME NEW s \in Seats, Auth!SeatLeft(s) PROVE AuthInv'
  BY <1>1, <1>6 DEF Auth!SeatLeft, AuthInv, Auth!CredentialsTypeOK, Auth!NoLateGrant
<1>7. ASSUME NEW c \in Auth!Changes, Auth!ChangeBegins(c) PROVE AuthInv'
  <2>1. /\ change' = [change EXCEPT ![c] = "revoking"] /\ locked = "none" /\ locked' = c /\ access' = FALSE
        /\ change[c] = "unasked" /\ UNCHANGED <<handshake, credential, gone, reply, latest>>
    BY <1>1, <1>7 DEF Auth!ChangeBegins, Auth!NoChange
  <2>2. seat' \in [Seats -> {"none", "closing"}]
    <3>1. \A s \in Seats : seat[s] \in {"none", "opening", "open", "closing"}
      BY <1>1
    <3> QED BY <1>7, <3>1 DEF Auth!ChangeBegins
  <2>3. \A s \in Seats : seat'[s] \in {"none", "closing"}
    BY <2>2
  <2>4. Auth!CredentialsTypeOK' /\ Auth!NoLateGrant'
    BY <1>1, <2>1, <2>2 DEF AuthInv, Auth!CredentialsTypeOK, Auth!NoLateGrant
  <2> QED BY <1>1, <2>1, <2>3, <2>4 DEF AuthInv
<1>8. ASSUME NEW c \in Auth!Changes, Auth!ChangeRefused(c) PROVE AuthInv'
  <2>1. /\ change' = [change EXCEPT ![c] = "settled"] /\ reply' = [reply EXCEPT ![c] = "failed"]
        /\ change[c] = "unasked" /\ UNCHANGED <<handshake, access, credential, locked, gone, latest, seat>>
    BY <1>8 DEF Auth!ChangeRefused
  <2>2. Auth!CredentialsTypeOK' /\ Auth!NoLateGrant'
    BY <1>1, <2>1 DEF AuthInv, Auth!CredentialsTypeOK, Auth!NoLateGrant, Auth!NoChange
  <2> QED BY <1>1, <2>1, <2>2 DEF AuthInv
<1>9. ASSUME NEW c \in Auth!Changes, Auth!Revoked(c) PROVE AuthInv'
  <2>1. CASE gone[c]
    BY <1>1, <1>9, <2>1, AuthSettles DEF Auth!Revoked, AuthInv, Auth!CredentialsTypeOK
  <2>2. CASE ~gone[c]
    <3>1. /\ change' = [change EXCEPT ![c] = "calling"] /\ change[c] = "revoking"
          /\ \A s \in Seats : seat[s] # "closing"
          /\ UNCHANGED <<handshake, access, credential, locked, gone, reply, latest, seat>>
      BY <1>9, <2>2 DEF Auth!Revoked
    <3>2. Auth!CredentialsTypeOK' /\ Auth!NoLateGrant'
      BY <1>1, <3>1 DEF AuthInv, Auth!CredentialsTypeOK, Auth!NoLateGrant
    <3> QED BY <1>1, <3>1, <3>2 DEF AuthInv
  <2> QED BY <2>1, <2>2
<1>10. ASSUME NEW c \in Auth!Changes, Auth!CallbackReturns(c) PROVE AuthInv'
  <2>1. PICK now \in BOOLEAN, thrown \in BOOLEAN :
          LET good == ~thrown /\ Auth!Granted(c, now)
          IN credential' = now /\ Auth!Settles(c, good /\ c \in Logins, IF good THEN "done" ELSE "failed")
    BY <1>10 DEF Auth!CallbackReturns
  <2> DEFINE good == ~thrown /\ Auth!Granted(c, now)
             granted == good /\ c \in Logins
             answer == IF good THEN "done" ELSE "failed"
  <2>2. /\ granted \in BOOLEAN /\ answer \in {"done", "failed"}
        /\ granted => c \in Logins /\ answer = "done" /\ ~gone[c]
    BY DEF Auth!Granted
  <2>3. Auth!Settles(c, granted, answer) /\ credential' \in BOOLEAN
    BY <2>1
  <2> HIDE DEF granted, answer
  <2> QED BY <1>10, <2>2, <2>3, AuthSettles DEF Auth!CallbackReturns
<1>11. ASSUME NEW c \in Auth!Changes, Auth!ChangeCancelled(c) PROVE AuthInv'
  <2>1. /\ gone' = [gone EXCEPT ![c] = TRUE] /\ change[c] # "settled"
        /\ reply' = [reply EXCEPT ![c] = IF change[c] = "unasked" THEN @ ELSE "failed"]
        /\ UNCHANGED <<handshake, access, credential, locked, change, latest, seat>>
    BY <1>11 DEF Auth!ChangeCancelled
  <2>2. Auth!CredentialsTypeOK'
    BY <1>1, <2>1 DEF AuthInv, Auth!CredentialsTypeOK
  <2>3. Auth!NoLateGrant'
    BY <1>1, <2>1 DEF AuthInv, Auth!NoLateGrant, Auth!NoChange, Auth!CredentialsTypeOK
  <2> QED BY <1>1, <2>1, <2>2, <2>3 DEF AuthInv
<1> QED BY <1>2, <1>3, <1>4, <1>5, <1>6, <1>7, <1>8, <1>9, <1>10, <1>11 DEF Auth!CredentialsNext

-----------------------------------------------------------------------------
\* The client's terminals

LEMMA CommandStarts == Commandline!TerminalsInit => CommandInv
BY DEF CommandInv, RunShape, Commandline!TerminalsInit, Commandline!TerminalsTypeOK

\* What a run's own step leaves of the others.
LEMMA OneRunMoves ==
  ASSUME CommandInv, NEW r \in Runs, Commandline!TerminalsTypeOK', RunShape(r)', UNCHANGED online,
         \A q \in Runs : q # r =>
           /\ standsAt'[q] = standsAt[q] /\ terminal'[q] = terminal[q] /\ cancelled'[q] = cancelled[q]
           /\ cleaning'[q] = cleaning[q] /\ releases'[q] = releases[q] /\ outcome'[q] = outcome[q]
  PROVE  CommandInv'
<1>1. ASSUME NEW q \in Runs, q # r PROVE RunShape(q)'
  BY <1>1 DEF CommandInv, RunShape
<1> QED BY <1>1 DEF CommandInv

\* Every step keeps the invariant.
LEMMA CommandNextSafe ==
  ASSUME CommandInv, [Commandline!TerminalsNext]_lV
  PROVE  CommandInv'
<1>1. /\ online \in BOOLEAN
      /\ standsAt \in [Runs -> {"unasked", "creating", "exiting", "reading", "surfacing", "leaving", "done"}]
      /\ terminal \in [Runs -> {"none", "asked", "known", "refused"}]
      /\ cancelled \in [Runs -> BOOLEAN] /\ exited \in [Runs -> BOOLEAN]
      /\ cleaning \in [Runs -> {"none", "killing", "releasing", "released", "failed"}]
      /\ releases \in [Runs -> Nat] /\ outcome \in [Runs -> {"none", "result", "failed"}]
      /\ \A r \in Runs : RunShape(r)
  BY DEF CommandInv, Commandline!TerminalsTypeOK
<1>2. CASE UNCHANGED lV
  BY <1>2 DEF lV, CommandInv, RunShape, Commandline!TerminalsTypeOK
<1>3. ASSUME NEW r \in Runs, Commandline!Creates(r) PROVE CommandInv'
  <2>1. Commandline!TerminalsTypeOK'
    BY <1>1, <1>3 DEF Commandline!Creates, Commandline!TerminalsTypeOK
  <2> QED BY <1>1, <1>3, <2>1, OneRunMoves DEF Commandline!Creates, RunShape
<1>4. ASSUME NEW r \in Runs, Commandline!CreateAnswered(r) PROVE CommandInv'
  <2>1. Commandline!TerminalsTypeOK'
    BY <1>1, <1>4 DEF Commandline!CreateAnswered, Commandline!Cleans, Commandline!TerminalsTypeOK
  <2> QED BY <1>1, <1>4, <2>1, OneRunMoves
          DEF Commandline!CreateAnswered, Commandline!Cleans, Commandline!ReleasesLate, RunShape
<1>5. ASSUME NEW r \in Runs, Commandline!CreateRefused(r) PROVE CommandInv'
  <2>1. Commandline!TerminalsTypeOK'
    BY <1>1, <1>5 DEF Commandline!CreateRefused, Commandline!TerminalsTypeOK
  <2> QED BY <1>1, <1>5, <2>1, OneRunMoves DEF Commandline!CreateRefused, RunShape
<1>6. ASSUME NEW r \in Runs, Commandline!ExitReported(r) PROVE CommandInv'
  <2>1. Commandline!TerminalsTypeOK'
    BY <1>1, <1>6 DEF Commandline!ExitReported, Commandline!TerminalsTypeOK
  <2> QED BY <1>1, <1>6, <2>1, OneRunMoves DEF Commandline!ExitReported, RunShape
<1>7. ASSUME NEW r \in Runs, Commandline!OutputRead(r) PROVE CommandInv'
  <2>1. Commandline!TerminalsTypeOK'
    BY <1>1, <1>7 DEF Commandline!OutputRead, Commandline!Cleans, Commandline!TerminalsTypeOK
  <2> QED BY <1>1, <1>7, <2>1, OneRunMoves DEF Commandline!OutputRead, Commandline!Cleans, RunShape
<1>8. ASSUME NEW r \in Runs, Commandline!AnswerUnusable(r) PROVE CommandInv'
  <2>1. Commandline!TerminalsTypeOK'
    BY <1>1, <1>8 DEF Commandline!AnswerUnusable, Commandline!Cleans, Commandline!TerminalsTypeOK
  <2> QED BY <1>1, <1>8, <2>1, OneRunMoves DEF Commandline!AnswerUnusable, Commandline!Cleans, RunShape
<1>9. ASSUME NEW r \in Runs, Commandline!Cancel(r) PROVE CommandInv'
  <2>1. Commandline!TerminalsTypeOK'
    BY <1>1, <1>9 DEF Commandline!Cancel, Commandline!Cleans, Commandline!TerminalsTypeOK
  <2>2. RunShape(r)'
    BY <1>1, <1>9 DEF Commandline!Cancel, Commandline!Cleans, RunShape
  <2>3. UNCHANGED online /\ \A q \in Runs : q # r =>
          /\ standsAt'[q] = standsAt[q] /\ terminal'[q] = terminal[q] /\ cancelled'[q] = cancelled[q]
          /\ cleaning'[q] = cleaning[q] /\ releases'[q] = releases[q] /\ outcome'[q] = outcome[q]
    BY <1>1, <1>9 DEF Commandline!Cancel, Commandline!Cleans
  <2> QED BY <2>1, <2>2, <2>3, OneRunMoves
<1>10. ASSUME NEW r \in Runs, Commandline!KillOver(r) PROVE CommandInv'
  <2>1. Commandline!TerminalsTypeOK'
    BY <1>1, <1>10 DEF Commandline!KillOver, Commandline!TerminalsTypeOK
  <2> QED BY <1>1, <1>10, <2>1, OneRunMoves DEF Commandline!KillOver, RunShape
<1>11. ASSUME NEW r \in Runs, Commandline!ReleaseOver(r) PROVE CommandInv'
  <2>1. Commandline!TerminalsTypeOK'
    BY <1>1, <1>11 DEF Commandline!ReleaseOver, Commandline!Answer, Commandline!TerminalsTypeOK
  <2>2. RunShape(r)'
    BY <1>1, <1>11 DEF Commandline!ReleaseOver, Commandline!Answer, RunShape
  <2>3. UNCHANGED online /\ \A q \in Runs : q # r =>
          /\ standsAt'[q] = standsAt[q] /\ terminal'[q] = terminal[q] /\ cancelled'[q] = cancelled[q]
          /\ cleaning'[q] = cleaning[q] /\ releases'[q] = releases[q] /\ outcome'[q] = outcome[q]
    BY <1>1, <1>11 DEF Commandline!ReleaseOver
  <2> QED BY <2>1, <2>2, <2>3, OneRunMoves
<1>12. CASE Commandline!Disconnect
  <2>1. Commandline!TerminalsTypeOK'
    BY <1>1, <1>12 DEF Commandline!Disconnect, Commandline!TerminalsTypeOK
  <2>2. ASSUME NEW r \in Runs PROVE RunShape(r)'
    BY <1>1, <1>12 DEF Commandline!Disconnect, RunShape
  <2> QED BY <2>1, <2>2 DEF CommandInv
<1> QED BY <1>2, <1>3, <1>4, <1>5, <1>6, <1>7, <1>8, <1>9, <1>10, <1>11, <1>12
        DEF Commandline!TerminalsNext

-----------------------------------------------------------------------------
\* MCP over the connection

LEMMA ProxyStarts == Proxy!ProxyInit => ProxyInv
BY ToolsAssumption
   DEF ProxyInv, Proxy!ProxyInit, Proxy!ProxyTypeOK, Proxy!Exchange, Proxy!ConnectionsAreHeld, Proxy!ClosedIsQuiet

\* What dropping leaves of the exchanges.
LEMMA Dropping ==
  ASSUME NEW S, NEW xs \in [S -> Proxy!Exchange], NEW ts, NEW ys, ys = Proxy!Drops(xs, ts)
  PROVE  /\ ys \in [S -> Proxy!Exchange]
         /\ \A q \in S : /\ ys[q].of = xs[q].of
                         /\ ys[q].at # xs[q].at => xs[q].at = "waits" /\ ys[q].at = "dropped"
                         /\ ys[q].at = "waits" => xs[q].of \notin ts
<1>1. \A q \in S : ys[q] = IF xs[q].of \in ts /\ xs[q].at = "waits"
                           THEN [xs[q] EXCEPT !.at = "dropped"] ELSE xs[q]
  BY DEF Proxy!Drops
<1>2. \A q \in S : xs[q] \in Proxy!Exchange
  OBVIOUS
<1>3. DOMAIN xs = S /\ ys = [q \in S |-> ys[q]]
  BY DEF Proxy!Drops
<1>4. ASSUME NEW q \in S
      PROVE  /\ ys[q] \in Proxy!Exchange /\ ys[q].of = xs[q].of
             /\ ys[q].at # xs[q].at => xs[q].at = "waits" /\ ys[q].at = "dropped"
             /\ ys[q].at = "waits" => xs[q].of \notin ts
  BY <1>1, <1>2 DEF Proxy!Exchange
<1> QED BY <1>3, <1>4

\* Every step keeps the invariant.
LEMMA ProxyNextSafe ==
  ASSUME ProxyInv, [Proxy!ProxyNext]_pV
  PROVE  ProxyInv'
<1>1. /\ connected \in BOOLEAN
      /\ linked \in [Transports -> {"new", "connecting", "settled"}]
      /\ shut \in [Transports -> BOOLEAN] /\ name \in [Transports -> Ids \union {0}]
      /\ endpoints \in [Ids -> Transports \union {0}] /\ open \subseteq Ids
      /\ asks \in [HostAsks -> Proxy!Exchange] /\ calls \in [ClientCalls -> Proxy!Exchange]
      /\ heard \subseteq ClientCalls /\ 0 \notin Transports /\ 0 \notin Ids
  BY ToolsAssumption DEF ProxyInv, Proxy!ProxyTypeOK
<1>2. CASE UNCHANGED pV
  BY <1>2 DEF pV, ProxyInv, Proxy!ProxyTypeOK, Proxy!ConnectionsAreHeld, Proxy!ClosedIsQuiet
<1>3. ASSUME NEW t \in Transports, Proxy!Start(t) PROVE ProxyInv'
  BY <1>1, <1>3 DEF Proxy!Start, ProxyInv, Proxy!ProxyTypeOK, Proxy!ConnectionsAreHeld, Proxy!ClosedIsQuiet
<1>4. ASSUME NEW t \in Transports, Proxy!Connected(t) PROVE ProxyInv'
  <2>1. PICK i \in Ids :
          /\ open' = Proxy!Ends(t, i)
          /\ name' = IF endpoints[i] = 0 /\ ~shut[t] THEN [name EXCEPT ![t] = i] ELSE name
          /\ endpoints' = IF endpoints[i] = 0 /\ ~shut[t] THEN [endpoints EXCEPT ![i] = t] ELSE endpoints
    BY <1>4 DEF Proxy!Connected
  <2>2. linked[t] = "connecting" /\ linked' = [linked EXCEPT ![t] = "settled"]
        /\ UNCHANGED <<connected, shut, asks, calls, heard>>
    BY <1>4 DEF Proxy!Connected
  <2>3. Proxy!ProxyTypeOK'
    BY <1>1, <2>1, <2>2 DEF Proxy!ProxyTypeOK, Proxy!Ends
  <2>4. \A j \in Ids : endpoints[j] # t
    BY <1>1, <2>2 DEF ProxyInv, Proxy!ConnectionsAreHeld
  <2>5. Proxy!ConnectionsAreHeld'
    BY <1>1, <2>1, <2>2, <2>4 DEF ProxyInv, Proxy!ConnectionsAreHeld, Proxy!Ends
  <2>6. Proxy!ClosedIsQuiet'
    BY <2>2 DEF ProxyInv, Proxy!ClosedIsQuiet
  <2> QED BY <1>1, <2>1, <2>2, <2>3, <2>5, <2>6 DEF ProxyInv
<1>5. ASSUME NEW t \in Transports, Proxy!ConnectRefused(t) PROVE ProxyInv'
  BY <1>1, <1>5 DEF Proxy!ConnectRefused, ProxyInv, Proxy!ProxyTypeOK, Proxy!ConnectionsAreHeld, Proxy!ClosedIsQuiet
<1>6. ASSUME NEW t \in Transports, Proxy!Close(t) PROVE ProxyInv'
  <2>1. /\ ~shut[t] /\ shut' = [shut EXCEPT ![t] = TRUE]
        /\ endpoints' = [i \in Ids |-> IF endpoints[i] = t THEN 0 ELSE endpoints[i]]
        /\ open' = (IF connected THEN open \ {name[t]} ELSE open)
        /\ asks' = Proxy!Drops(asks, {t}) /\ calls' = Proxy!Drops(calls, {t})
        /\ UNCHANGED <<connected, linked, name, heard>>
    BY <1>6 DEF Proxy!Close
  <2>2. /\ asks' \in [HostAsks -> Proxy!Exchange] /\ calls' \in [ClientCalls -> Proxy!Exchange]
        /\ \A q \in HostAsks : /\ asks'[q].of = asks[q].of
                               /\ asks'[q].at # asks[q].at => asks[q].at = "waits" /\ asks'[q].at = "dropped"
                               /\ asks'[q].at = "waits" => asks[q].of # t
        /\ \A q \in ClientCalls : /\ calls'[q].of = calls[q].of
                                  /\ calls'[q].at # calls[q].at => calls[q].at = "waits" /\ calls'[q].at = "dropped"
                                  /\ calls'[q].at = "waits" => calls[q].of # t
    BY <1>1, <2>1, Dropping
  <2>3. Proxy!ProxyTypeOK'
    BY <1>1, <2>1, <2>2 DEF Proxy!ProxyTypeOK
  <2>4. Proxy!ConnectionsAreHeld'
    BY <1>1, <2>1 DEF ProxyInv, Proxy!ConnectionsAreHeld
  <2>5. Proxy!ClosedIsQuiet'
    <3>1. \A s \in Transports : s # t => shut'[s] = shut[s]
      BY <1>1, <2>1
    <3>2. ASSUME NEW q \in HostAsks, asks'[q].at = "waits" PROVE ~shut'[asks'[q].of]
      <4>1. asks[q].at = "waits" /\ asks'[q].of = asks[q].of /\ asks[q].of # t
        BY <2>2, <3>2
      <4> QED BY <3>1, <4>1 DEF ProxyInv, Proxy!ClosedIsQuiet
    <3>3. ASSUME NEW q \in ClientCalls, calls'[q].at = "waits" PROVE ~shut'[calls'[q].of]
      <4>1. calls[q].at = "waits" /\ calls'[q].of = calls[q].of /\ calls[q].of # t
        BY <2>2, <3>3
      <4> QED BY <3>1, <4>1 DEF ProxyInv, Proxy!ClosedIsQuiet
    <3>4. \A q \in heard : calls'[q].at = "answered"
      BY <1>1, <2>2 DEF ProxyInv, Proxy!ClosedIsQuiet
    <3> QED BY <2>1, <3>2, <3>3, <3>4 DEF Proxy!ClosedIsQuiet
  <2> QED BY <1>1, <2>1, <2>2, <2>3, <2>4, <2>5 DEF ProxyInv
<1>7. ASSUME NEW q \in HostAsks, Proxy!Ask(q) PROVE ProxyInv'
  <2>1. PICK i \in Ids : endpoints[i] # 0 /\ asks' = [asks EXCEPT ![q] = [of |-> endpoints[i], at |-> "waits"]]
    BY <1>7 DEF Proxy!Ask
  <2>2. UNCHANGED <<connected, linked, shut, name, endpoints, open, calls, heard>>
    BY <1>7 DEF Proxy!Ask
  <2>3. Proxy!ProxyTypeOK'
    BY <1>1, <2>1, <2>2 DEF Proxy!ProxyTypeOK, Proxy!Exchange
  <2>4. Proxy!ConnectionsAreHeld' /\ Proxy!ClosedIsQuiet'
    BY <1>1, <2>1, <2>2 DEF ProxyInv, Proxy!ConnectionsAreHeld, Proxy!ClosedIsQuiet
  <2> QED BY <1>1, <2>1, <2>2, <2>3, <2>4 DEF ProxyInv
<1>8. ASSUME NEW q \in HostAsks, Proxy!AskAnswered(q) \/ Proxy!AskCancelled(q) PROVE ProxyInv'
  <2>1. PICK to \in {"answered", "cancelled"} : asks' = [asks EXCEPT ![q].at = to]
    BY <1>8 DEF Proxy!AskAnswered, Proxy!AskCancelled
  <2>2. asks[q].at = "waits" /\ UNCHANGED <<connected, linked, shut, name, endpoints, open, calls, heard>>
    BY <1>8 DEF Proxy!AskAnswered, Proxy!AskCancelled
  <2>3. /\ asks' \in [HostAsks -> Proxy!Exchange]
        /\ \A p \in HostAsks : asks'[p].of = asks[p].of /\ (p # q => asks'[p] = asks[p])
        /\ asks'[q].at # "waits"
    BY <1>1, <2>1 DEF Proxy!Exchange
  <2> QED BY <1>1, <2>2, <2>3
          DEF ProxyInv, Proxy!ProxyTypeOK, Proxy!ConnectionsAreHeld, Proxy!ClosedIsQuiet
<1>9. ASSUME NEW q \in ClientCalls, Proxy!Call(q) PROVE ProxyInv'
  <2>1. PICK t \in Transports : ~shut[t] /\ calls' = [calls EXCEPT ![q] = [of |-> t, at |-> "waits"]]
    BY <1>9 DEF Proxy!Call
  <2>2. calls[q].at = "unsent" /\ UNCHANGED <<connected, linked, shut, name, endpoints, open, asks, heard>>
    BY <1>9 DEF Proxy!Call
  <2>3. Proxy!ProxyTypeOK'
    BY <1>1, <2>1, <2>2 DEF Proxy!ProxyTypeOK, Proxy!Exchange
  <2>4. Proxy!ConnectionsAreHeld' /\ Proxy!ClosedIsQuiet'
    BY <1>1, <2>1, <2>2 DEF ProxyInv, Proxy!ConnectionsAreHeld, Proxy!ClosedIsQuiet
  <2> QED BY <1>1, <2>1, <2>2, <2>3, <2>4 DEF ProxyInv
<1>10. ASSUME NEW q \in ClientCalls, Proxy!CallCancelled(q) PROVE ProxyInv'
  <2>1. /\ calls[q].at = "waits" /\ calls' = [calls EXCEPT ![q].at = "cancelled"]
        /\ UNCHANGED <<connected, linked, shut, name, endpoints, open, asks, heard>>
    BY <1>10 DEF Proxy!CallCancelled
  <2>2. /\ calls' \in [ClientCalls -> Proxy!Exchange]
        /\ \A p \in ClientCalls : calls'[p].of = calls[p].of /\ (p # q => calls'[p] = calls[p])
        /\ calls'[q].at = "cancelled"
    BY <1>1, <2>1 DEF Proxy!Exchange
  <2> QED BY <1>1, <2>1, <2>2
          DEF ProxyInv, Proxy!ProxyTypeOK, Proxy!ConnectionsAreHeld, Proxy!ClosedIsQuiet
<1>11. ASSUME NEW q \in ClientCalls, Proxy!CallAnswered(q) PROVE ProxyInv'
  <2>1. /\ calls[q].at \in {"waits", "cancelled", "dropped"}
        /\ calls' = [calls EXCEPT ![q].at = IF @ = "waits" THEN "answered" ELSE "discarded"]
        /\ heard' = (IF Proxy!Passes(q) THEN heard \union {q} ELSE heard)
        /\ UNCHANGED <<connected, linked, shut, name, endpoints, open, asks>>
    BY <1>11 DEF Proxy!CallAnswered
  <2>2. /\ calls' \in [ClientCalls -> Proxy!Exchange]
        /\ \A p \in ClientCalls : calls'[p].of = calls[p].of /\ (p # q => calls'[p] = calls[p])
        /\ calls'[q].at = (IF calls[q].at = "waits" THEN "answered" ELSE "discarded")
    BY <1>1, <2>1 DEF Proxy!Exchange
  <2>3. heard' \subseteq ClientCalls /\ \A p \in heard' : calls'[p].at = "answered"
    BY <1>1, <2>1, <2>2 DEF Proxy!Passes, ProxyInv, Proxy!ClosedIsQuiet
  <2> QED BY <1>1, <2>1, <2>2, <2>3
          DEF ProxyInv, Proxy!ProxyTypeOK, Proxy!ConnectionsAreHeld, Proxy!ClosedIsQuiet
<1>12. CASE Proxy!ProxyDisconnect
  <2>1. /\ connected' = FALSE
        /\ linked' = [t \in Transports |-> IF linked[t] = "connecting" THEN "settled" ELSE linked[t]]
        /\ asks' = Proxy!Drops(asks, Transports) /\ calls' = Proxy!Drops(calls, Transports)
        /\ UNCHANGED <<shut, name, endpoints, open, heard>>
    BY <1>12 DEF Proxy!ProxyDisconnect
  <2>3. /\ asks' \in [HostAsks -> Proxy!Exchange] /\ calls' \in [ClientCalls -> Proxy!Exchange]
        /\ \A q \in HostAsks : /\ asks'[q].of = asks[q].of
                               /\ asks'[q].at # asks[q].at => asks[q].at = "waits" /\ asks'[q].at = "dropped"
        /\ \A q \in ClientCalls : /\ calls'[q].of = calls[q].of
                                  /\ calls'[q].at # calls[q].at => calls[q].at = "waits" /\ calls'[q].at = "dropped"
    BY <1>1, <2>1, Dropping
  <2>4. Proxy!ProxyTypeOK'
    BY <1>1, <2>1, <2>3 DEF Proxy!ProxyTypeOK
  <2>5. Proxy!ConnectionsAreHeld'
    BY <2>1 DEF ProxyInv, Proxy!ConnectionsAreHeld
  <2>6. Proxy!ClosedIsQuiet'
    BY <1>1, <2>1, <2>3 DEF ProxyInv, Proxy!ClosedIsQuiet
  <2> QED BY <1>1, <2>1, <2>3, <2>4, <2>5, <2>6 DEF ProxyInv
<1> QED BY <1>2, <1>3, <1>4, <1>5, <1>6, <1>7, <1>8, <1>9, <1>10, <1>11, <1>12 DEF Proxy!ProxyNext

-----------------------------------------------------------------------------
\* MCP servers

LEMMA McpStarts == Mcp!ServersInit => McpInv
<1>1. ASSUME Mcp!ServersInit PROVE McpInv
  <2>1. /\ opening = "unasked" /\ at = 0 /\ pages = 0 /\ link = [s \in Mcp!Named |-> "none"]
        /\ serversEnded = FALSE /\ openingAborted = FALSE
        /\ uses = [u \in Uses |-> [of |-> 0, at |-> "unmade"]]
    BY <1>1 DEF Mcp!ServersInit
  <2>2. 0 \in 0 .. Servers /\ 0 \in 0 .. MaxPages
    BY ToolsAssumption
  <2>3. Mcp!ServersTypeOK
    BY <2>1, <2>2 DEF Mcp!ServersTypeOK
  <2> QED BY <2>1, <2>3 DEF McpInv, Mcp!ClosedLinksNothing
<1> QED BY <1>1

\* A close takes down whatever is up.
LEMMA McpCloses ==
  ASSUME McpInv, Mcp!Closes, opening' \in {opening, "failing"}, UNCHANGED <<at, pages, uses>>,
         openingAborted' \in BOOLEAN
  PROVE  McpInv'
<1>1. /\ serversEnded' = TRUE
      /\ link' = [s \in Mcp!Named |-> IF link[s] = "up" THEN "closing" ELSE link[s]]
      /\ link \in [Mcp!Named -> {"none", "up", "closing", "closed"}]
  BY DEF Mcp!Closes, McpInv, Mcp!ServersTypeOK
<1>2. /\ link' \in [Mcp!Named -> {"none", "closing", "closed"}]
      /\ \A s \in Mcp!Named : /\ link'[s] = "none" <=> link[s] = "none"
                              /\ link[s] = "closed" => link'[s] = "closed"
  BY <1>1
<1>3. Mcp!ServersTypeOK' /\ Mcp!ClosedLinksNothing'
  BY <1>1, <1>2 DEF McpInv, Mcp!ServersTypeOK, Mcp!ClosedLinksNothing
<1>4. \A s \in 1 .. at : s \in Mcp!Named
  BY ToolsAssumption DEF McpInv, Mcp!ServersTypeOK, Mcp!Named
<1>5. at' = at /\ opening' \in {opening, "failing"}
  OBVIOUS
<1> QED BY <1>1, <1>2, <1>3, <1>4, <1>5 DEF McpInv

\* The loop turns to the next server, or gives up.
LEMMA McpProceeds ==
  ASSUME McpInv, opening \in {"unasked", "connecting", "paging"}, Mcp!Proceeds(at + 1),
         UNCHANGED <<openingAborted, uses>>
  PROVE  McpInv'
<1>1. /\ at \in 0 .. Servers /\ pages \in 0 .. MaxPages /\ MaxPages \in Nat /\ Servers \in Nat
      /\ link \in [Mcp!Named -> {"none", "up", "closing", "closed"}]
      /\ serversEnded \in BOOLEAN /\ openingAborted \in BOOLEAN
  BY ToolsAssumption DEF McpInv, Mcp!ServersTypeOK
<1>2. CASE ~Mcp!MayGoOn
  BY <1>1, <1>2, McpCloses DEF Mcp!Proceeds, Mcp!Fails
<1>3. CASE Mcp!MayGoOn /\ at + 1 > Servers
  <2>1. /\ at = Servers /\ opening' = "open" /\ pages' = 0 /\ UNCHANGED <<at, link, serversEnded, openingAborted, uses>>
    BY <1>1, <1>3 DEF Mcp!Proceeds
  <2>2. \A s \in 1 .. at : link[s] # "none"
    BY <1>1, <2>1 DEF McpInv
  <2>3. Mcp!ServersTypeOK' /\ Mcp!ClosedLinksNothing'
    BY <1>1, <2>1 DEF McpInv, Mcp!ServersTypeOK, Mcp!ClosedLinksNothing
  <2> QED BY <1>1, <2>1, <2>2, <2>3 DEF McpInv
<1>4. CASE Mcp!MayGoOn /\ ~(at + 1 > Servers)
  <2>1. /\ at + 1 <= Servers /\ opening' = "connecting" /\ at' = at + 1
        /\ link' = [link EXCEPT ![at + 1] = "up"] /\ pages' = 0
        /\ ~serversEnded /\ UNCHANGED <<serversEnded, openingAborted, uses>>
    BY <1>1, <1>4 DEF Mcp!Proceeds, Mcp!MayGoOn
  <2>2. at + 1 \in Mcp!Named
    BY <1>1, <2>1 DEF Mcp!Named
  <2>3. /\ link' \in [Mcp!Named -> {"none", "up", "closing", "closed"}] /\ link'[at + 1] = "up"
        /\ \A s \in Mcp!Named : s # at + 1 => link'[s] = link[s]
    BY <1>1, <2>1, <2>2
  <2>4. Mcp!ServersTypeOK' /\ Mcp!ClosedLinksNothing'
    BY <1>1, <2>1, <2>3 DEF McpInv, Mcp!ServersTypeOK, Mcp!ClosedLinksNothing
  <2>5. \A s \in 1 .. at : link[s] # "none" /\ s \in Mcp!Named
    BY <1>1 DEF McpInv, Mcp!Named
  <2>6. \A s \in 1 .. at + 1 : link'[s] # "none"
    BY <1>1, <2>3, <2>5
  <2>7. \A s \in Mcp!Named : s > at + 1 => link'[s] = "none"
    BY <1>1, <2>3 DEF McpInv, Mcp!Named
  <2> QED BY <1>1, <2>1, <2>4, <2>6, <2>7 DEF McpInv
<1> QED BY <1>2, <1>3, <1>4

\* Every step keeps the invariant.
LEMMA McpNextSafe ==
  ASSUME McpInv, [Mcp!ServersNext]_vV
  PROVE  McpInv'
<1>1. /\ at \in 0 .. Servers /\ pages \in 0 .. MaxPages /\ MaxPages \in Nat /\ Servers \in Nat
      /\ link \in [Mcp!Named -> {"none", "up", "closing", "closed"}]
      /\ opening \in {"unasked", "connecting", "paging", "open", "failing", "failed"}
      /\ serversEnded \in BOOLEAN /\ openingAborted \in BOOLEAN
      /\ uses \in [Uses -> [of : 0 .. Servers, at : {"unmade", "runs", "answered", "failed"}]]
  BY ToolsAssumption DEF McpInv, Mcp!ServersTypeOK
<1>2. CASE UNCHANGED vV
  BY <1>2 DEF vV, McpInv, Mcp!ServersTypeOK, Mcp!ClosedLinksNothing
<1>3. CASE Mcp!Open
  <2>1. CASE openingAborted
    <3>1. opening = "unasked" /\ opening' = "failed" /\ UNCHANGED <<at, link, pages, serversEnded, openingAborted, uses>>
      BY <1>3, <2>1 DEF Mcp!Open
    <3>2. at = 0 /\ \A s \in Mcp!Named : link[s] = "none"
      BY <1>1, <3>1 DEF McpInv, Mcp!Named
    <3> QED BY <1>1, <3>1, <3>2 DEF McpInv, Mcp!ServersTypeOK, Mcp!ClosedLinksNothing
  <2>2. CASE ~openingAborted
    <3>1. opening = "unasked" /\ at = 0 /\ Mcp!Proceeds(1) /\ UNCHANGED <<openingAborted, uses>>
      BY <1>3, <2>2 DEF Mcp!Open, McpInv
    <3>2. at + 1 = 1
      BY <3>1
    <3> QED BY <3>1, <3>2, McpProceeds
  <2> QED BY <2>1, <2>2
<1>4. CASE Mcp!Connects
  <2>1. CASE opening' = "paging" /\ UNCHANGED <<at, link, pages, serversEnded>>
    BY <1>1, <1>4, <2>1 DEF Mcp!Connects, McpInv, Mcp!ServersTypeOK, Mcp!ClosedLinksNothing
  <2> QED BY <1>4, <2>1, McpProceeds DEF Mcp!Connects
<1>5. CASE Mcp!PageRead
  <2>1. CASE pages < MaxPages /\ pages' = pages + 1 /\ UNCHANGED <<opening, at, link, serversEnded>>
    <3>1. pages' \in 0 .. MaxPages
      BY <1>1, <2>1
    <3> QED BY <1>1, <1>5, <2>1, <3>1 DEF Mcp!PageRead, McpInv, Mcp!ServersTypeOK, Mcp!ClosedLinksNothing
  <2> QED BY <1>5, <2>1, McpProceeds DEF Mcp!PageRead
<1>6. CASE Mcp!ServerFails
  BY <1>1, <1>6, McpCloses DEF Mcp!ServerFails, Mcp!Fails
<1>7. CASE Mcp!OpeningAborted
  <2>1. CASE opening \in {"connecting", "paging"}
    BY <1>7, <2>1, McpCloses DEF Mcp!OpeningAborted, Mcp!Fails
  <2>2. CASE opening \notin {"connecting", "paging"}
    BY <1>7, <2>2 DEF Mcp!OpeningAborted, McpInv, Mcp!ServersTypeOK, Mcp!ClosedLinksNothing
  <2> QED BY <2>1, <2>2
<1>8. CASE Mcp!SessionCloses
  BY <1>1, <1>8, McpCloses DEF Mcp!SessionCloses
<1>9. CASE Mcp!OpenRejects
  BY <1>1, <1>9 DEF Mcp!OpenRejects, Mcp!Settled, McpInv, Mcp!ServersTypeOK, Mcp!ClosedLinksNothing
<1>10. ASSUME NEW s \in Mcp!Named, Mcp!LinkCloses(s) PROVE McpInv'
  <2>1. /\ link[s] = "closing" /\ link' = [link EXCEPT ![s] = "closed"]
        /\ UNCHANGED <<opening, at, pages, serversEnded, openingAborted, uses>>
    BY <1>10 DEF Mcp!LinkCloses
  <2>2. /\ link' \in [Mcp!Named -> {"none", "up", "closing", "closed"}]
        /\ \A x \in Mcp!Named : /\ link'[x] = "none" <=> link[x] = "none"
                                /\ link'[x] = "up" => link[x] = "up"
                                /\ link[x] = "closed" => link'[x] = "closed"
    BY <1>1, <2>1
  <2>3. \A x \in 1 .. at : x \in Mcp!Named
    BY <1>1 DEF Mcp!Named
  <2>4. Mcp!ServersTypeOK' /\ Mcp!ClosedLinksNothing'
    BY <1>1, <2>1, <2>2 DEF McpInv, Mcp!ServersTypeOK, Mcp!ClosedLinksNothing
  <2> QED BY <1>1, <2>1, <2>2, <2>3, <2>4 DEF McpInv
<1>11. ASSUME NEW u \in Uses, Mcp!ToolCalled(u) \/ Mcp!ToolReturns(u) PROVE McpInv'
  <2>1. UNCHANGED <<opening, at, link, pages, serversEnded, openingAborted>>
    BY <1>11 DEF Mcp!ToolCalled, Mcp!ToolReturns
  <2>2. uses' \in [Uses -> [of : 0 .. Servers, at : {"unmade", "runs", "answered", "failed"}]]
    <3>1. CASE Mcp!ToolCalled(u)
      <4>1. PICK s \in Mcp!Named : uses' = [uses EXCEPT ![u] = [of |-> s, at |-> IF serversEnded THEN "failed" ELSE "runs"]]
        BY <3>1 DEF Mcp!ToolCalled
      <4>2. s \in 0 .. Servers
        BY <1>1 DEF Mcp!Named
      <4> QED BY <1>1, <4>1, <4>2
    <3>2. CASE Mcp!ToolReturns(u)
      <4>1. PICK to \in {"answered", "failed"} : uses' = [uses EXCEPT ![u].at = to]
        BY <3>2 DEF Mcp!ToolReturns
      <4>2. uses[u] \in [of : 0 .. Servers, at : {"unmade", "runs", "answered", "failed"}]
        BY <1>1
      <4>3. [uses[u] EXCEPT !.at = to] \in [of : 0 .. Servers, at : {"unmade", "runs", "answered", "failed"}]
        BY <4>2
      <4> QED BY <1>1, <4>1, <4>3
    <3> QED BY <1>11, <3>1, <3>2
  <2> QED BY <1>1, <2>1, <2>2 DEF McpInv, Mcp!ServersTypeOK, Mcp!ClosedLinksNothing
<1> QED BY <1>2, <1>3, <1>4, <1>5, <1>6, <1>7, <1>8, <1>9, <1>10, <1>11 DEF Mcp!ServersNext

\* What the invariant says of the properties.
LEMMA McpKeepsItsWord == McpInv => Mcp!ServersTypeOK /\ Mcp!ClosedLinksNothing /\ Mcp!OpenedAllOrNone
<1>1. ASSUME McpInv PROVE Mcp!OpenedAllOrNone
  BY <1>1, ToolsAssumption DEF McpInv, Mcp!OpenedAllOrNone, Mcp!Named
<1> QED BY <1>1 DEF McpInv

-----------------------------------------------------------------------------
\* Elicitations

\* An ID is free, of a request that was not answered, or of one that was.
LEMMA IdsDiffer ==
  /\ Asking!Absent # Asking!Unanswered
  /\ \A e \in Urls : <<e>> # Asking!Absent /\ <<e>> # Asking!Unanswered
  /\ \A e, f \in Urls : <<e>> = <<f>> => e = f
BY ToolsAssumption DEF Asking!Absent, Asking!Unanswered

\* The instance counts as this module does.
LEMMA SameCount == \A S : Asking!Cardinality(S) = Cardinality(S)
BY DEF Asking!Cardinality, Cardinality

LEMMA AskingStarts == Asking!ElicitationsInit => AskingInv
<1>1. ASSUME Asking!ElicitationsInit PROVE AskingInv
  <2>1. /\ elicit = [e \in Asking!Elicits |-> "unasked"] /\ slots = {} /\ lifetime = TRUE
        /\ completes = [i \in Asking!ServerIds |-> Asking!Absent]
        /\ completions = [e \in Asking!Elicits |-> 0]
    BY <1>1 DEF Asking!ElicitationsInit
  <2>2. IsFiniteSet({}) /\ Cardinality({}) = 0
    BY FS_EmptySet
  <2>3. completes \in [Asking!ServerIds -> {Asking!Absent, Asking!Unanswered} \cup {<<e>> : e \in Urls}]
    BY <2>1
  <2>4. Asking!ElicitationsTypeOK
    BY <2>1 DEF Asking!ElicitationsTypeOK
  <2>5. Asking!SlotsAreHeld
    BY <2>1, <2>2, SameCount, ToolsAssumption DEF Asking!SlotsAreHeld
  <2>6. \A i \in Asking!ServerIds : \A e \in Urls : completes[i] # <<e>>
    BY <2>1, IdsDiffer
  <2> QED BY <2>1, <2>2, <2>3, <2>4, <2>5, <2>6 DEF AskingInv, Asking!CompletesOnce
<1> QED BY <1>1

\* Letting slots go never exceeds the limit.
LEMMA SlotsShrink ==
  ASSUME AskingInv, slots' \subseteq slots
  PROVE  IsFiniteSet(slots') /\ Cardinality(slots') <= Slots
<1>1. /\ IsFiniteSet(slots) /\ Cardinality(slots) <= Slots
  BY SameCount DEF AskingInv, Asking!SlotsAreHeld
<1>2. IsFiniteSet(slots') /\ Cardinality(slots') <= Cardinality(slots)
  BY <1>1, FS_Subset
<1>3. Cardinality(slots) \in Nat /\ Cardinality(slots') \in Nat
  BY <1>1, <1>2, FS_CardinalityType
<1> QED BY <1>1, <1>2, <1>3, ToolsAssumption

\* What a request does to the invariant when it ends, with its slot.
IdsKept ==
  /\ completes' \in [Asking!ServerIds -> {Asking!Absent, Asking!Unanswered} \cup {<<e>> : e \in Urls}]
  /\ \A i \in Asking!ServerIds : \A e \in Urls :
       completes'[i] = <<e>> => elicit'[e] = "accepted" /\ ServerName[e] = i

Standing == {"unasked", "refused", "waits", "over", "accepted", "aborted", "completed"}

LEMMA AskingMoves ==
  ASSUME AskingInv, lifetime' \in BOOLEAN, elicit' \in [Asking!Elicits -> Standing],
         IsFiniteSet(slots'), Cardinality(slots') <= Slots,
         slots' = {e \in Asking!Elicits : elicit'[e] \in {"waits", "accepted"}},
         completions' \in [Asking!Elicits -> Nat],
         \A e \in Asking!Elicits : completions'[e] = (IF elicit'[e] = "completed" THEN 1 ELSE 0),
         IdsKept
  PROVE  AskingInv'
<1>1. Asking!ElicitationsTypeOK'
  BY DEF Asking!ElicitationsTypeOK, IdsKept, Standing
<1>2. Asking!SlotsAreHeld' /\ Asking!CompletesOnce'
  BY SameCount DEF Asking!SlotsAreHeld, Asking!CompletesOnce, IdsKept
<1> QED BY <1>1, <1>2 DEF AskingInv, IdsKept

\* Every step keeps the invariant.
LEMMA AskingNextSafe ==
  ASSUME AskingInv, [Asking!ElicitationsNext]_qV
  PROVE  AskingInv'
<1> DEFINE Kept == {Asking!Absent, Asking!Unanswered} \cup {<<e>> : e \in Urls}
<1>1. /\ elicit \in [Asking!Elicits -> Standing]
      /\ slots = {e \in Asking!Elicits : elicit[e] \in {"waits", "accepted"}}
      /\ IsFiniteSet(slots) /\ Cardinality(slots) <= Slots
      /\ lifetime \in BOOLEAN /\ completions \in [Asking!Elicits -> Nat]
      /\ completes \in [Asking!ServerIds -> Kept]
      /\ \A e \in Asking!Elicits : completions[e] = (IF elicit[e] = "completed" THEN 1 ELSE 0)
      /\ \A i \in Asking!ServerIds : \A e \in Urls : completes[i] = <<e>> => elicit[e] = "accepted" /\ ServerName[e] = i
      /\ \A e \in Urls : e \in Asking!Elicits
      /\ Asking!Absent \in Kept /\ Asking!Unanswered \in Kept /\ \A e \in Urls : <<e>> \in Kept
  BY SameCount
     DEF AskingInv, Asking!ElicitationsTypeOK, Asking!SlotsAreHeld, Asking!CompletesOnce, Asking!Elicits, Standing
<1>2. CASE UNCHANGED qV
  BY <1>2 DEF qV, AskingInv, Asking!ElicitationsTypeOK, Asking!SlotsAreHeld, Asking!CompletesOnce
\* Naming a request changes its own ID only.
<1>3. ASSUME NEW e \in Asking!Elicits, NEW to \in Kept, Asking!Names(e, to),
             to \in {Asking!Absent, Asking!Unanswered} \/ (e \in Urls /\ to = <<e>> /\ elicit'[e] = "accepted"),
             \A f \in Asking!Elicits : f # e => elicit'[f] = elicit[f],
             elicit[e] # "accepted"
      PROVE  IdsKept
  <2>1. completes' = [i \in Asking!ServerIds |-> IF e \in Urls /\ ServerName[e] = i THEN to ELSE completes[i]]
    BY <1>3 DEF Asking!Names
  <2>2. completes' \in [Asking!ServerIds -> Kept]
    BY <1>1, <1>3, <2>1
  <2>3. ASSUME NEW i \in Asking!ServerIds, NEW f \in Urls, completes'[i] = <<f>>
        PROVE  elicit'[f] = "accepted" /\ ServerName[f] = i
    <3>1. CASE e \in Urls /\ ServerName[e] = i
      <4>1. to = <<f>>
        BY <2>1, <2>3, <3>1
      <4>2. e \in Urls /\ to = <<e>> /\ elicit'[e] = "accepted"
        BY <1>3, <4>1, IdsDiffer
      <4>3. e = f
        BY <4>1, <4>2, IdsDiffer
      <4> QED BY <3>1, <4>2, <4>3
    <3>2. CASE ~(e \in Urls /\ ServerName[e] = i)
      <4>1. completes[i] = <<f>>
        BY <2>1, <2>3, <3>2
      <4>2. elicit[f] = "accepted" /\ ServerName[f] = i
        BY <1>1, <4>1
      <4>3. f # e
        BY <1>3, <4>2
      <4> QED BY <1>1, <1>3, <4>2, <4>3
    <3> QED BY <3>1, <3>2
  <2> QED BY <2>2, <2>3 DEF IdsKept
<1>4. ASSUME NEW e \in Asking!Elicits, Asking!Elicit(e) PROVE AskingInv'
  <2>1. CASE ~Asking!Full /\ lifetime
    <3>1. /\ elicit[e] = "unasked" /\ elicit' = [elicit EXCEPT ![e] = "waits"]
          /\ slots' = slots \cup {e} /\ Asking!Names(e, Asking!Unanswered)
          /\ UNCHANGED <<lifetime, completions>>
      BY <1>4, <2>1 DEF Asking!Elicit
    <3>2. e \notin slots
      BY <1>1, <3>1
    <3>3. IsFiniteSet(slots') /\ Cardinality(slots') = Cardinality(slots) + 1
      BY <1>1, <3>1, <3>2, FS_AddElement
    <3>4. Cardinality(slots) \in Nat /\ Cardinality(slots) < Slots
      BY <1>1, <2>1, FS_CardinalityType, SameCount, ToolsAssumption DEF Asking!Full
    <3>5. Cardinality(slots') <= Slots
      BY <3>3, <3>4, ToolsAssumption
    <3>6. elicit' \in [Asking!Elicits -> Standing] /\ elicit'[e] = "waits"
          /\ \A f \in Asking!Elicits : f # e => elicit'[f] = elicit[f]
      BY <1>1, <3>1 DEF Standing
    <3>7. slots' = {f \in Asking!Elicits : elicit'[f] \in {"waits", "accepted"}}
      BY <1>1, <3>1, <3>6
    <3>8. IdsKept
      BY <1>1, <1>3, <3>1, <3>6
    <3>9. \A f \in Asking!Elicits : completions'[f] = (IF elicit'[f] = "completed" THEN 1 ELSE 0)
      BY <1>1, <3>1, <3>6
    <3> QED BY <1>1, <3>1, <3>3, <3>5, <3>6, <3>7, <3>8, <3>9, AskingMoves
  <2>2. CASE ~(~Asking!Full /\ lifetime)
    <3>1. /\ elicit[e] = "unasked" /\ elicit' = [elicit EXCEPT ![e] = "refused"]
          /\ UNCHANGED <<slots, completes, lifetime, completions>>
      BY <1>4, <2>2 DEF Asking!Elicit
    <3>2. elicit' \in [Asking!Elicits -> Standing] /\ elicit'[e] = "refused"
          /\ \A f \in Asking!Elicits : f # e => elicit'[f] = elicit[f]
      BY <1>1, <3>1 DEF Standing
    <3>3. IdsKept
      BY <1>1, <3>1, <3>2 DEF IdsKept
    <3> QED BY <1>1, <3>1, <3>2, <3>3, AskingMoves
  <2> QED BY <2>1, <2>2
<1>5. ASSUME NEW e \in Asking!Elicits, Asking!DuplicateRefused(e) PROVE AskingInv'
  <2>1. /\ elicit[e] = "unasked" /\ elicit' = [elicit EXCEPT ![e] = "refused"]
        /\ UNCHANGED <<slots, completes, lifetime, completions>>
    BY <1>5 DEF Asking!DuplicateRefused
  <2>2. elicit' \in [Asking!Elicits -> Standing] /\ elicit'[e] = "refused"
        /\ \A f \in Asking!Elicits : f # e => elicit'[f] = elicit[f]
    BY <1>1, <2>1 DEF Standing
  <2>3. IdsKept
    BY <1>1, <2>1, <2>2 DEF IdsKept
  <2> QED BY <1>1, <2>1, <2>2, <2>3, AskingMoves
<1>6. ASSUME NEW e \in Asking!Elicits, Asking!Over(e) PROVE AskingInv'
  <2>1. /\ elicit[e] = "waits" /\ elicit' = [elicit EXCEPT ![e] = "over"]
        /\ slots' = slots \ {e} /\ Asking!Names(e, Asking!Absent) /\ UNCHANGED <<lifetime, completions>>
    BY <1>6 DEF Asking!Over
  <2>2. elicit' \in [Asking!Elicits -> Standing] /\ elicit'[e] = "over"
        /\ \A f \in Asking!Elicits : f # e => elicit'[f] = elicit[f]
    BY <1>1, <2>1 DEF Standing
  <2>3. IdsKept
    BY <1>1, <1>3, <2>1, <2>2
  <2>4. IsFiniteSet(slots') /\ Cardinality(slots') <= Slots
    BY <2>1, SlotsShrink
  <2>5. slots' = {f \in Asking!Elicits : elicit'[f] \in {"waits", "accepted"}}
    BY <1>1, <2>1, <2>2
  <2> QED BY <1>1, <2>1, <2>2, <2>3, <2>4, <2>5, AskingMoves
<1>7. ASSUME NEW e \in Asking!Elicits, Asking!Accepted(e) PROVE AskingInv'
  <2>1. /\ e \in Urls /\ elicit[e] = "waits" /\ elicit' = [elicit EXCEPT ![e] = "accepted"]
        /\ Asking!Names(e, <<e>>) /\ UNCHANGED <<slots, lifetime, completions>>
    BY <1>7 DEF Asking!Accepted
  <2>2. elicit' \in [Asking!Elicits -> Standing] /\ elicit'[e] = "accepted"
        /\ \A f \in Asking!Elicits : f # e => elicit'[f] = elicit[f]
    BY <1>1, <2>1 DEF Standing
  <2>3. IdsKept
    BY <1>1, <1>3, <2>1, <2>2
  <2>4. slots' = {f \in Asking!Elicits : elicit'[f] \in {"waits", "accepted"}}
    BY <1>1, <2>1, <2>2
  <2> QED BY <1>1, <2>1, <2>2, <2>3, <2>4, AskingMoves
<1>8. ASSUME NEW e \in Asking!Elicits, Asking!Aborted(e) PROVE AskingInv'
  <2>1. /\ elicit[e] = "accepted" /\ elicit' = [elicit EXCEPT ![e] = "aborted"]
        /\ slots' = slots \ {e} /\ Asking!Forgets({e}) /\ UNCHANGED <<lifetime, completions>>
    BY <1>8 DEF Asking!Aborted
  <2>2. elicit' \in [Asking!Elicits -> Standing] /\ elicit'[e] = "aborted"
        /\ \A f \in Asking!Elicits : f # e => elicit'[f] = elicit[f]
    BY <1>1, <2>1 DEF Standing
  <2>3. completes' = [i \in Asking!ServerIds |-> IF completes[i] = <<e>> THEN Asking!Absent ELSE completes[i]]
    BY <2>1 DEF Asking!Forgets
  <2>4. completes' \in [Asking!ServerIds -> Kept]
    BY <1>1, <2>3
  <2>5. ASSUME NEW i \in Asking!ServerIds, NEW f \in Urls, completes'[i] = <<f>>
        PROVE  elicit'[f] = "accepted" /\ ServerName[f] = i
    <3>1. completes[i] # <<e>> /\ completes[i] = <<f>>
      BY <2>3, <2>5, IdsDiffer
    <3> QED BY <1>1, <2>2, <3>1
  <2>6. IsFiniteSet(slots') /\ Cardinality(slots') <= Slots
    BY <2>1, SlotsShrink
  <2>7. slots' = {f \in Asking!Elicits : elicit'[f] \in {"waits", "accepted"}}
    BY <1>1, <2>1, <2>2
  <2>8. IdsKept
    BY <2>4, <2>5 DEF IdsKept
  <2> QED BY <1>1, <2>1, <2>2, <2>6, <2>7, <2>8, AskingMoves
\* What completing these requests does, if no ID leads to one of them any more.
<1>9. ASSUME NEW es, Asking!Completes(es), UNCHANGED lifetime, completes' \in [Asking!ServerIds -> Kept],
             \A i \in Asking!ServerIds : \A e \in Urls :
               completes'[i] = <<e>> => completes[i] = <<e>> /\ e \notin es
      PROVE  AskingInv'
  <2> DEFINE sent == {e \in es : Asking!Completable(e)}
  <2>1. /\ elicit' = [e \in Asking!Elicits |-> IF e \in sent THEN "completed" ELSE elicit[e]]
        /\ slots' = slots \ sent
        /\ completions' = [e \in Asking!Elicits |-> completions[e] + IF e \in sent THEN 1 ELSE 0]
    BY <1>9 DEF Asking!Completes
  <2>2. \A e \in sent : e \in Asking!Elicits /\ elicit[e] = "accepted" /\ e \in es
    BY <1>1 DEF Asking!Completable
  <2> HIDE DEF sent
  <2>3. elicit' \in [Asking!Elicits -> Standing]
    BY <1>1, <2>1 DEF Standing
  <2>4. IsFiniteSet(slots') /\ Cardinality(slots') <= Slots
    BY <2>1, SlotsShrink
  <2>5. slots' = {f \in Asking!Elicits : elicit'[f] \in {"waits", "accepted"}}
    BY <1>1, <2>1, <2>2
  <2>6. /\ completions' \in [Asking!Elicits -> Nat]
        /\ \A e \in Asking!Elicits : completions'[e] = (IF elicit'[e] = "completed" THEN 1 ELSE 0)
    BY <1>1, <2>1, <2>2
  <2>7. IdsKept
    BY <1>1, <1>9, <2>1, <2>2 DEF IdsKept
  <2> QED BY <1>1, <1>9, <2>3, <2>4, <2>5, <2>6, <2>7, AskingMoves
<1>10. ASSUME NEW e \in Asking!Elicits, Asking!ToolCompletes(e) PROVE AskingInv'
  <2>1. e \in Urls /\ ServerName[e] = 0 /\ Asking!Completes({e}) /\ UNCHANGED <<lifetime, completes>>
    BY <1>10 DEF Asking!ToolCompletes
  <2>2. \A i \in Asking!ServerIds : i # 0
    BY DEF Asking!ServerIds
  <2>3. \A i \in Asking!ServerIds : \A f \in Urls : completes'[i] = <<f>> => completes[i] = <<f>> /\ f \notin {e}
    BY <1>1, <2>1, <2>2
  <2> QED BY <1>1, <1>9, <2>1, <2>3
<1>11. ASSUME NEW i \in Asking!ServerIds, Asking!ServerCompletes(i) PROVE AskingInv'
  <2> DEFINE es == {e \in Urls : completes[i] = <<e>>}
  <2>1. completes' = [completes EXCEPT ![i] = Asking!Absent] /\ Asking!Completes(es) /\ UNCHANGED lifetime
    BY <1>11 DEF Asking!ServerCompletes
  <2>2. completes' \in [Asking!ServerIds -> Kept]
    BY <1>1, <2>1
  <2>3. ASSUME NEW j \in Asking!ServerIds, NEW f \in Urls, completes'[j] = <<f>>
        PROVE  completes[j] = <<f>> /\ f \notin es
    <3>1. j # i /\ completes[j] = <<f>>
      BY <1>1, <2>1, <2>3, IdsDiffer
    <3>2. ServerName[f] = j
      BY <1>1, <3>1
    <3> QED BY <1>1, <3>1, <3>2
  <2> HIDE DEF es
  <2> QED BY <1>9, <2>1, <2>2, <2>3
<1>12. CASE Asking!ElicitationsClose
  <2>1. /\ lifetime' = FALSE /\ slots' = {}
        /\ elicit' = [e \in Asking!Elicits |-> CASE elicit[e] = "waits" -> "over"
                                                 [] elicit[e] = "accepted" -> "aborted"
                                                 [] OTHER -> elicit[e]]
        /\ completes' = [i \in Asking!ServerIds |-> Asking!Absent] /\ UNCHANGED completions
    BY <1>12 DEF Asking!ElicitationsClose
  <2>2. ASSUME NEW e \in Asking!Elicits
        PROVE  /\ elicit'[e] \in Standing \ {"waits", "accepted"}
               /\ elicit'[e] = "completed" <=> elicit[e] = "completed"
    BY <1>1, <2>1 DEF Standing
  <2>3. elicit' \in [Asking!Elicits -> Standing]
    <3>1. elicit' = [e \in Asking!Elicits |-> elicit'[e]]
      BY <2>1
    <3> QED BY <2>2, <3>1
  <2>4. IsFiniteSet(slots') /\ Cardinality(slots') <= Slots
    BY <2>1, SlotsShrink
  <2>5. slots' = {f \in Asking!Elicits : elicit'[f] \in {"waits", "accepted"}}
    BY <2>1, <2>2
  <2>6. IdsKept
    BY <1>1, <2>1, IdsDiffer DEF IdsKept
  <2>7. lifetime' \in BOOLEAN /\ completions' \in [Asking!Elicits -> Nat]
        /\ \A e \in Asking!Elicits : completions'[e] = (IF elicit'[e] = "completed" THEN 1 ELSE 0)
    BY <1>1, <2>1, <2>2
  <2> QED BY <2>3, <2>4, <2>5, <2>6, <2>7, AskingMoves
<1> QED BY <1>2, <1>4, <1>5, <1>6, <1>7, <1>8, <1>10, <1>11, <1>12 DEF Asking!ElicitationsNext

-----------------------------------------------------------------------------
\* File writes

LEMMA FilesAreFiles ==
  ASSUME WriteInv
  PROVE  /\ files \in Seq(Seq(Nat)) /\ DOMAIN files = 1 .. Len(files) /\ Len(files) \in Nat
         /\ \A f \in 1 .. Len(files) : files[f] \in Seq(Nat)
<1>1. files \in Seq(Seq(Nat))
  BY DEF WriteInv
<1> QED BY <1>1

\* The file the path names, if it names one.
LEMMA FileThere == WriteInv /\ path # 0 => path \in 1 .. Len(files) /\ files[path] \in Seq(Nat)
<1>1. ASSUME WriteInv, path # 0 PROVE path \in 1 .. Len(files) /\ files[path] \in Seq(Nat)
  <2>1. path \in 0 .. Len(files)
    BY <1>1 DEF WriteInv
  <2>2. Len(files) \in Nat /\ \A f \in 1 .. Len(files) : files[f] \in Seq(Nat)
    BY <1>1, FilesAreFiles
  <2>3. path \in 1 .. Len(files)
    BY <1>1, <2>1, <2>2
  <2> QED BY <2>2, <2>3
<1> QED BY <1>1

LEMMA KnownValues ==
  /\ WriteTool!Unknown \in Known /\ WriteTool!Absent \in Known /\ WriteTool!Absent # WriteTool!Unknown
  /\ WriteTool!Absent.text = << >>
  /\ \A t \in Seq(Nat) : WriteTool!Text(t) \in Known /\ WriteTool!Text(t) # WriteTool!Unknown /\ WriteTool!Text(t).text = t
<1>1. << >> \in Seq(Nat)
  OBVIOUS
<1> QED BY <1>1 DEF Known, WriteTool!Unknown, WriteTool!Absent, WriteTool!Text

\* What a call writes, alone and over what was there.
LEMMA WhatIsWritten ==
  ASSUME NEW c \in WriteCalls, NEW t \in Seq(Nat)
  PROVE  /\ WriteTool!Full(c) \in Seq(Nat) /\ WriteTool!Onto(c, t) \in Seq(Nat)
         /\ t = << >> => WriteTool!Onto(c, t) = WriteTool!Full(c)
         /\ \A d : d # c /\ (\A k \in DOMAIN t : t[k] # d) =>
              /\ \A k \in DOMAIN WriteTool!Onto(c, t) : WriteTool!Onto(c, t)[k] # d
              /\ \A k \in DOMAIN WriteTool!Full(c) : WriteTool!Full(c)[k] # d
<1> DEFINE n == TextLength[c]
           m == IF Len(t) > n THEN Len(t) ELSE n
<1>1. n \in Nat /\ c \in Nat /\ Len(t) \in Nat /\ m \in Nat
  BY ToolsAssumption
<1>2. WriteTool!Full(c) = [k \in 1 .. n |-> c] /\ WriteTool!Onto(c, t) = [k \in 1 .. m |-> IF k <= n THEN c ELSE t[k]]
  BY DEF WriteTool!Full, WriteTool!Onto
<1>3. \A k \in 1 .. m : ~(k <= n) => k \in 1 .. Len(t) /\ t[k] \in Nat
  BY <1>1
<1>4. [k \in 1 .. n |-> c] \in Seq(Nat)
  BY <1>1
<1>5. [k \in 1 .. m |-> IF k <= n THEN c ELSE t[k]] \in Seq(Nat)
  <2>1. [k \in 1 .. m |-> IF k <= n THEN c ELSE t[k]] \in [1 .. m -> Nat]
    BY <1>1, <1>3
  <2> HIDE DEF m
  <2> QED BY <1>1, <2>1, SeqDef
<1>6. ASSUME t = << >> PROVE [k \in 1 .. m |-> IF k <= n THEN c ELSE t[k]] = [k \in 1 .. n |-> c]
  <2>1. Len(t) = 0 /\ m = n
    BY <1>1, <1>6
  <2>2. \A k \in 1 .. n : k <= n
    BY <1>1
  <2> HIDE DEF m, n
  <2> QED BY <2>1, <2>2
<1>7. ASSUME NEW d, d # c, \A k \in DOMAIN t : t[k] # d
      PROVE  \A k \in 1 .. m : (IF k <= n THEN c ELSE t[k]) # d
  <2>1. DOMAIN t = 1 .. Len(t)
    OBVIOUS
  <2> QED BY <1>3, <1>7, <2>1
<1> HIDE DEF m, n
<1>8. WriteTool!Full(c) \in Seq(Nat) /\ WriteTool!Onto(c, t) \in Seq(Nat) /\ (t = << >> => WriteTool!Onto(c, t) = WriteTool!Full(c))
  BY <1>2, <1>4, <1>5, <1>6
<1>9. ASSUME NEW d, d # c, \A k \in DOMAIN t : t[k] # d
      PROVE  /\ \A k \in DOMAIN WriteTool!Onto(c, t) : WriteTool!Onto(c, t)[k] # d
             /\ \A k \in DOMAIN WriteTool!Full(c) : WriteTool!Full(c)[k] # d
  BY <1>2, <1>7, <1>9
<1> QED BY <1>8, <1>9

LEMMA WritesStart == WriteTool!WriteInit => WriteInv
<1>1. ASSUME WriteTool!WriteInit PROVE WriteInv
  <2>1. /\ files = << <<0>> >>
        /\ path \in {0, 1} /\ (port # "disk" => path = 1) /\ toolCall = [c \in WriteCalls |-> WriteTool!NoCall]
    BY <1>1 DEF WriteTool!WriteInit, WriteTool!None, WriteTool!Others
  <2>2. files \in Seq(Seq(Nat)) /\ Len(files) = 1 /\ DOMAIN files = {1} /\ files[1] = <<0>>
    <3>1. <<0>> \in Seq(Nat)
      OBVIOUS
    <3>2. \A t \in Seq(Nat) : << t >> \in Seq(Seq(Nat)) /\ Len(<< t >>) = 1 /\ << t >>[1] = t /\ DOMAIN << t >> = {1}
      OBVIOUS
    <3> QED BY <2>1, <3>1, <3>2
  <2>3. WriteTool!NoCall \in CallType(1)
    BY KnownValues DEF WriteTool!NoCall, CallType, WritePlaces, WriteTool!None
  <2>4. toolCall \in [WriteCalls -> CallType(Len(files))]
    BY <2>1, <2>2, <2>3
  <2>5. ASSUME NEW c \in WriteCalls PROVE WriteShape(c)
    <3>1. /\ toolCall[c].at = "run" /\ toolCall[c].before = WriteTool!Unknown /\ toolCall[c].lost = WriteTool!Unknown
          /\ ~toolCall[c].early
      BY <2>1 DEF WriteTool!NoCall
    <3>2. c # 0
      BY ToolsAssumption
    <3>3. Unwritten(c)
      BY <2>2, <3>2 DEF Unwritten
    <3> QED BY <3>1, <3>3 DEF WriteShape
  <2>7. path \in {0, 1} /\ (port # "disk" => path = 1)
    BY <2>1
  <2>6. path \in 0 .. Len(files) /\ (port # "disk" => path # 0)
    <3>1. Len(files) = 1
      BY <2>2
    <3> QED BY <2>7, <3>1
  <2> QED BY <2>2, <2>4, <2>5, <2>6, <2>7 DEF WriteInv
<1> QED BY <1>1

\* A step that only moves a call.
CallMoves(c) ==
  /\ toolCall' = [toolCall EXCEPT ![c] = toolCall'[c]] /\ toolCall'[c] \in CallType(Len(files))
  /\ UNCHANGED <<path, files, port>>

LEMMA OneCallMoves ==
  ASSUME WriteInv, NEW c \in WriteCalls, CallMoves(c), WriteShape(c)'
  PROVE  WriteInv'
<1>1. /\ toolCall' \in [WriteCalls -> CallType(Len(files))] /\ UNCHANGED <<path, files, port>>
      /\ \A d \in WriteCalls : d # c => toolCall'[d] = toolCall[d]
  BY DEF WriteInv, CallMoves
<1>2. ASSUME NEW d \in WriteCalls, d # c PROVE WriteShape(d)'
  <2>1. WriteShape(d) /\ toolCall'[d] = toolCall[d] /\ UNCHANGED <<path, files, port>>
    BY <1>1, <1>2 DEF WriteInv
  <2> QED BY <2>1 DEF WriteShape, Unwritten, OwnFile
<1> QED BY <1>1, <1>2 DEF WriteInv

\* A step that changes the files under the other calls.
FilesChange(c) ==
  /\ files' \in Seq(Seq(Nat)) /\ Len(files) <= Len(files') /\ path' \in 0 .. Len(files')
  /\ port' = port /\ (port # "disk" => path' # 0)
  /\ DOMAIN toolCall' = WriteCalls /\ toolCall' = [d \in WriteCalls |-> toolCall'[d]]
  /\ \A d \in WriteCalls : d # c =>
       /\ toolCall'[d] = [toolCall[d] EXCEPT !.stale = TRUE, !.crossed = TRUE]
       /\ Unwritten(d) => Unwritten(d)'

LEMMA FilesMove ==
  ASSUME WriteInv, NEW c, FilesChange(c), c \in WriteCalls => toolCall'[c] \in CallType(Len(files')) /\ WriteShape(c)'
  PROVE  WriteInv'
<1>1. ASSUME NEW d \in WriteCalls, d # c PROVE toolCall'[d] \in CallType(Len(files')) /\ WriteShape(d)'
  <2>1. /\ toolCall[d] \in CallType(Len(files)) /\ WriteShape(d)
        /\ toolCall'[d] = [toolCall[d] EXCEPT !.stale = TRUE, !.crossed = TRUE] /\ (Unwritten(d) => Unwritten(d)')
        /\ Len(files) <= Len(files') /\ port' = port /\ files' \in Seq(Seq(Nat))
    BY <1>1 DEF WriteInv, FilesChange
  <2>4. Len(files) \in Nat /\ Len(files') \in Nat
    BY <2>1, FilesAreFiles
  <2>5. 0 .. Len(files) \subseteq 0 .. Len(files')
    BY <2>1, <2>4
  <2>2. toolCall'[d] \in CallType(Len(files'))
    BY <2>1, <2>5 DEF CallType
  <2>3. /\ toolCall'[d].stale /\ toolCall'[d].crossed
        /\ toolCall'[d].at = toolCall[d].at /\ toolCall'[d].file = toolCall[d].file
        /\ toolCall'[d].before = toolCall[d].before /\ toolCall'[d].lost = toolCall[d].lost
        /\ toolCall'[d].aborted = toolCall[d].aborted /\ toolCall'[d].early = toolCall[d].early
    BY <2>1 DEF CallType
  <2> QED BY <2>1, <2>2, <2>3 DEF WriteShape
<1>2. \A d \in WriteCalls : toolCall'[d] \in CallType(Len(files')) /\ WriteShape(d)'
  BY <1>1
<1>3. toolCall' \in [WriteCalls -> CallType(Len(files'))]
  BY <1>2 DEF FilesChange
<1> QED BY <1>2, <1>3 DEF WriteInv, FilesChange

\* A piece of a file that is changed, and a file that is added.
LEMMA OneFileChanges ==
  ASSUME WriteInv, NEW f \in 1 .. Len(files), NEW t \in Seq(Nat), files' = [files EXCEPT ![f] = t]
  PROVE  /\ files' \in Seq(Seq(Nat)) /\ Len(files') = Len(files) /\ files'[f] = t
         /\ \A g \in 1 .. Len(files) : g # f => files'[g] = files[g]
         /\ \A d : Unwritten(d) /\ (\A k \in DOMAIN t : t[k] # d) => Unwritten(d)'
<1>1. files \in Seq(Seq(Nat)) /\ DOMAIN files = 1 .. Len(files)
  BY FilesAreFiles
<1>2. /\ files' \in Seq(Seq(Nat)) /\ Len(files') = Len(files) /\ files'[f] = t
      /\ \A g \in 1 .. Len(files) : g # f => files'[g] = files[g]
  BY <1>1
<1>3. DOMAIN files' = 1 .. Len(files)
  BY <1>2
<1> QED BY <1>1, <1>2, <1>3 DEF Unwritten

LEMMA OneFileMore ==
  ASSUME WriteInv, NEW t \in Seq(Nat), files' = Append(files, t)
  PROVE  /\ files' \in Seq(Seq(Nat)) /\ Len(files') = Len(files) + 1 /\ files'[Len(files) + 1] = t
         /\ \A d : Unwritten(d) /\ (\A k \in DOMAIN t : t[k] # d) => Unwritten(d)'
<1>1. files \in Seq(Seq(Nat)) /\ DOMAIN files = 1 .. Len(files) /\ Len(files) \in Nat
  BY FilesAreFiles
<1>2. /\ files' \in Seq(Seq(Nat)) /\ Len(files') = Len(files) + 1 /\ files'[Len(files) + 1] = t
      /\ \A g \in 1 .. Len(files) : files'[g] = files[g]
  BY <1>1
<1>3. DOMAIN files' = 1 .. Len(files) + 1
  BY <1>1, <1>2
<1>4. \A g \in 1 .. Len(files) + 1 : g \in 1 .. Len(files) \/ g = Len(files) + 1
  BY <1>1
<1> QED BY <1>1, <1>2, <1>3, <1>4 DEF Unwritten

\* The fields of a call.
LEMMA CallFields ==
  ASSUME WriteInv, NEW c \in WriteCalls
  PROVE  /\ toolCall[c] \in CallType(Len(files)) /\ WriteShape(c)
         /\ DOMAIN toolCall = WriteCalls /\ c \in Nat /\ c # 0
BY ToolsAssumption DEF WriteInv

\* A call that fails.
LEMMA CallFails ==
  ASSUME WriteInv, NEW c \in WriteCalls, WriteTool!Fails(c)
  PROVE  WriteInv'
<1>1. /\ toolCall[c] \in CallType(Len(files)) /\ WriteShape(c) /\ DOMAIN toolCall = WriteCalls
  BY CallFields
<1>2. /\ toolCall' = [toolCall EXCEPT ![c] = [toolCall[c] EXCEPT !.at = "failed"]]
      /\ UNCHANGED <<path, files, port, made>>
  BY DEF WriteTool!Fails, WriteTool!Moves
<1>3. toolCall'[c] = [toolCall[c] EXCEPT !.at = "failed"]
  BY <1>1, <1>2
<1>4. CallMoves(c)
  BY <1>1, <1>2, <1>3 DEF CallMoves, CallType, WritePlaces
<1>5. /\ toolCall'[c].at = "failed" /\ toolCall'[c].early = toolCall[c].early
      /\ toolCall'[c].aborted = toolCall[c].aborted /\ toolCall'[c].lost = toolCall[c].lost
  BY <1>1, <1>3 DEF CallType
<1>6. WriteShape(c)'
  BY <1>1, <1>2, <1>5 DEF WriteShape, Unwritten
<1> QED BY <1>4, <1>6, OneCallMoves

\* Every step keeps the invariant.
LEMMA WriteNextSafe ==
  ASSUME WriteInv, [WriteTool!WriteNext]_wV
  PROVE  WriteInv'
<1>0. /\ files \in Seq(Seq(Nat)) /\ DOMAIN files = 1 .. Len(files) /\ Len(files) \in Nat
      /\ \A f \in 1 .. Len(files) : files[f] \in Seq(Nat)
  BY FilesAreFiles
<1>1. path \in 0 .. Len(files) /\ (port # "disk" => path # 0)
  BY DEF WriteInv
<1>2. CASE UNCHANGED wV
  <2>1. UNCHANGED <<port, path, files, toolCall>>
    BY <1>2 DEF wV
  <2>2. \A c \in WriteCalls : WriteShape(c) => WriteShape(c)'
    BY <2>1 DEF WriteShape, Unwritten, OwnFile
  <2> QED BY <2>1, <2>2 DEF WriteInv
<1>3. ASSUME NEW c \in WriteCalls, WriteTool!Opens(c) PROVE WriteInv'
  <2>1. CASE toolCall[c].aborted
    BY <1>3, <2>1, CallFails DEF WriteTool!Opens
  <2>2. CASE ~toolCall[c].aborted /\ path = 0
    <3>1. /\ port = "disk" /\ toolCall[c].at = "run"
          /\ WriteTool!Moves(c, [toolCall[c] EXCEPT !.at = "absent"])
      BY <1>3, <2>2 DEF WriteTool!Opens, WriteTool!None
    <3>2. toolCall[c] \in CallType(Len(files)) /\ WriteShape(c) /\ DOMAIN toolCall = WriteCalls
      BY CallFields
    <3>3. toolCall'[c] = [toolCall[c] EXCEPT !.at = "absent"] /\ UNCHANGED <<path, files, port>>
          /\ toolCall' = [toolCall EXCEPT ![c] = toolCall'[c]]
      BY <3>1, <3>2 DEF WriteTool!Moves
    <3>4. CallMoves(c)
      BY <3>1, <3>2, <3>3, <1>1, KnownValues DEF CallMoves, CallType, WritePlaces
    <3>5. /\ toolCall'[c].at = "absent" /\ toolCall'[c].file = toolCall[c].file
          /\ toolCall'[c].before = toolCall[c].before /\ toolCall'[c].lost = toolCall[c].lost
          /\ toolCall'[c].stale = toolCall[c].stale /\ toolCall'[c].crossed = toolCall[c].crossed
          /\ toolCall'[c].aborted = toolCall[c].aborted /\ toolCall'[c].early = toolCall[c].early
      BY <3>2, <3>3 DEF CallType
    <3>7. /\ Unwritten(c)' = Unwritten(c)
          /\ OwnFile(c)' = IF port = "disk" THEN toolCall'[c].file ELSE path
      BY <3>3 DEF Unwritten, OwnFile
    <3>8. WriteShape(c)'
      BY <3>1, <3>2, <3>3, <3>5, <3>7, KnownValues DEF WriteShape, OwnFile
    <3> QED BY <3>4, <3>8, OneCallMoves
  <2>3. CASE ~toolCall[c].aborted /\ path # 0
    <3>1. /\ port = "disk" /\ toolCall[c].at = "run" /\ path # 0
          /\ WriteTool!Moves(c, [toolCall[c] EXCEPT !.at = "open", !.file = path])
      BY <1>3, <2>3 DEF WriteTool!Opens, WriteTool!None
    <3>2. toolCall[c] \in CallType(Len(files)) /\ WriteShape(c) /\ DOMAIN toolCall = WriteCalls
      BY CallFields
    <3>3. toolCall'[c] = [toolCall[c] EXCEPT !.at = "open", !.file = path] /\ UNCHANGED <<path, files, port>>
          /\ toolCall' = [toolCall EXCEPT ![c] = toolCall'[c]]
      BY <3>1, <3>2 DEF WriteTool!Moves
    <3>4. CallMoves(c)
      BY <3>1, <3>2, <3>3, <1>1, KnownValues DEF CallMoves, CallType, WritePlaces
    <3>5. /\ toolCall'[c].at = "open" /\ toolCall'[c].file = path
          /\ toolCall'[c].before = toolCall[c].before /\ toolCall'[c].lost = toolCall[c].lost
          /\ toolCall'[c].stale = toolCall[c].stale /\ toolCall'[c].crossed = toolCall[c].crossed
          /\ toolCall'[c].aborted = toolCall[c].aborted /\ toolCall'[c].early = toolCall[c].early
      BY <3>2, <3>3 DEF CallType
    <3>7. /\ Unwritten(c)' = Unwritten(c)
          /\ OwnFile(c)' = IF port = "disk" THEN toolCall'[c].file ELSE path
      BY <3>3 DEF Unwritten, OwnFile
    <3>8. WriteShape(c)'
      BY <3>1, <3>2, <3>3, <3>5, <3>7, KnownValues DEF WriteShape, OwnFile
    <3> QED BY <3>4, <3>8, OneCallMoves
  <2> QED BY <2>1, <2>2, <2>3
<1>4. ASSUME NEW c \in WriteCalls, WriteTool!Checks(c) PROVE WriteInv'
  <2>1. CASE path = 0
    BY <1>4, <2>1, CallFails DEF WriteTool!Checks, WriteTool!None
  <2>2. CASE path # 0
    <3>1. /\ toolCall[c].at = "open"
          /\ WriteTool!Moves(c, [toolCall[c] EXCEPT !.at = "checked"])
      BY <1>4, <2>2 DEF WriteTool!Checks, WriteTool!None
    <3>2. toolCall[c] \in CallType(Len(files)) /\ WriteShape(c) /\ DOMAIN toolCall = WriteCalls
      BY CallFields
    <3>3. toolCall'[c] = [toolCall[c] EXCEPT !.at = "checked"] /\ UNCHANGED <<path, files, port>>
          /\ toolCall' = [toolCall EXCEPT ![c] = toolCall'[c]]
      BY <3>1, <3>2 DEF WriteTool!Moves
    <3>4. CallMoves(c)
      BY <3>1, <3>2, <3>3, <1>1, KnownValues DEF CallMoves, CallType, WritePlaces
    <3>5. /\ toolCall'[c].at = "checked" /\ toolCall'[c].file = toolCall[c].file
          /\ toolCall'[c].before = toolCall[c].before /\ toolCall'[c].lost = toolCall[c].lost
          /\ toolCall'[c].stale = toolCall[c].stale /\ toolCall'[c].crossed = toolCall[c].crossed
          /\ toolCall'[c].aborted = toolCall[c].aborted /\ toolCall'[c].early = toolCall[c].early
      BY <3>2, <3>3 DEF CallType
    <3>7. /\ Unwritten(c)' = Unwritten(c)
          /\ OwnFile(c)' = IF port = "disk" THEN toolCall'[c].file ELSE path
      BY <3>3 DEF Unwritten, OwnFile
    <3>8. WriteShape(c)'
      BY <3>1, <3>2, <3>3, <3>5, <3>7, KnownValues DEF WriteShape, OwnFile
    <3> QED BY <3>4, <3>8, OneCallMoves
  <2> QED BY <2>1, <2>2
<1>5. ASSUME NEW c \in WriteCalls, WriteTool!Baseline(c) PROVE WriteInv'
  <2>1. CASE toolCall[c].aborted
    BY <1>5, <2>1, CallFails DEF WriteTool!Baseline
  <2>2. CASE ~toolCall[c].aborted /\ path = toolCall[c].file
    <3>1. /\ toolCall[c].at = "checked" /\ path = toolCall[c].file /\ path # 0
          /\ WriteTool!Moves(c, [toolCall[c] EXCEPT !.at = "baseline", !.stale = FALSE, !.before = WriteTool!Text(files[path])])
      BY <1>5, <2>2, CallFields DEF WriteTool!Baseline, WriteShape
    <3>2. toolCall[c] \in CallType(Len(files)) /\ WriteShape(c) /\ DOMAIN toolCall = WriteCalls
      BY CallFields
    <3>3. toolCall'[c] = [toolCall[c] EXCEPT !.at = "baseline", !.stale = FALSE, !.before = WriteTool!Text(files[path])] /\ UNCHANGED <<path, files, port>>
          /\ toolCall' = [toolCall EXCEPT ![c] = toolCall'[c]]
      BY <3>1, <3>2 DEF WriteTool!Moves
    <3>9. files[path] \in Seq(Nat)
      BY <3>1, <1>0, <1>1, FileThere
    <3>6. WriteTool!Text(files[path]) \in Known /\ WriteTool!Text(files[path]).text = files[path]
      BY <3>9, KnownValues
    <3>4. CallMoves(c)
      BY <3>1, <3>2, <3>3, <3>6, <1>1, KnownValues DEF CallMoves, CallType, WritePlaces
    <3>5. /\ toolCall'[c].at = "baseline" /\ toolCall'[c].file = toolCall[c].file
          /\ toolCall'[c].before = WriteTool!Text(files[path]) /\ toolCall'[c].lost = toolCall[c].lost
          /\ toolCall'[c].stale = FALSE /\ toolCall'[c].crossed = toolCall[c].crossed
          /\ toolCall'[c].aborted = toolCall[c].aborted /\ toolCall'[c].early = toolCall[c].early
      BY <3>2, <3>3 DEF CallType
    <3>7. /\ Unwritten(c)' = Unwritten(c)
          /\ OwnFile(c)' = IF port = "disk" THEN toolCall'[c].file ELSE path
      BY <3>3 DEF Unwritten, OwnFile
    <3>8. WriteShape(c)'
      BY <3>1, <3>2, <3>3, <3>5, <3>7, <3>6, KnownValues DEF WriteShape, OwnFile
    <3> QED BY <3>4, <3>8, OneCallMoves
  <2>3. CASE ~toolCall[c].aborted /\ path # toolCall[c].file
    <3>1. /\ toolCall[c].at = "checked"
          /\ WriteTool!Moves(c, [toolCall[c] EXCEPT !.at = "baseline", !.stale = FALSE, !.before = WriteTool!Unknown])
      BY <1>5, <2>3 DEF WriteTool!Baseline
    <3>2. toolCall[c] \in CallType(Len(files)) /\ WriteShape(c) /\ DOMAIN toolCall = WriteCalls
      BY CallFields
    <3>3. toolCall'[c] = [toolCall[c] EXCEPT !.at = "baseline", !.stale = FALSE, !.before = WriteTool!Unknown] /\ UNCHANGED <<path, files, port>>
          /\ toolCall' = [toolCall EXCEPT ![c] = toolCall'[c]]
      BY <3>1, <3>2 DEF WriteTool!Moves
    <3>4. CallMoves(c)
      BY <3>1, <3>2, <3>3, <1>1, KnownValues DEF CallMoves, CallType, WritePlaces
    <3>5. /\ toolCall'[c].at = "baseline" /\ toolCall'[c].file = toolCall[c].file
          /\ toolCall'[c].before = WriteTool!Unknown /\ toolCall'[c].lost = toolCall[c].lost
          /\ toolCall'[c].stale = FALSE /\ toolCall'[c].crossed = toolCall[c].crossed
          /\ toolCall'[c].aborted = toolCall[c].aborted /\ toolCall'[c].early = toolCall[c].early
      BY <3>2, <3>3 DEF CallType
    <3>7. /\ Unwritten(c)' = Unwritten(c)
          /\ OwnFile(c)' = IF port = "disk" THEN toolCall'[c].file ELSE path
      BY <3>3 DEF Unwritten, OwnFile
    <3>8. WriteShape(c)'
      BY <3>1, <3>2, <3>3, <3>5, <3>7, KnownValues DEF WriteShape, OwnFile
    <3> QED BY <3>4, <3>8, OneCallMoves
  <2> QED BY <2>1, <2>2, <2>3
<1>6. ASSUME NEW c \in WriteCalls, WriteTool!LooksAgain(c) PROVE WriteInv'
  <2>1. CASE ~WriteTool!Same(c)
    BY <1>6, <2>1, CallFails DEF WriteTool!LooksAgain
  <2>2. CASE WriteTool!Same(c)
    <3>1. /\ toolCall[c].at = "baseline" /\ path = toolCall[c].file
          /\ WriteTool!Moves(c, [toolCall[c] EXCEPT !.at = "same", !.crossed = FALSE])
      BY <1>6, <2>2 DEF WriteTool!LooksAgain, WriteTool!Same
    <3>2. toolCall[c] \in CallType(Len(files)) /\ WriteShape(c) /\ DOMAIN toolCall = WriteCalls
      BY CallFields
    <3>3. toolCall'[c] = [toolCall[c] EXCEPT !.at = "same", !.crossed = FALSE] /\ UNCHANGED <<path, files, port>>
          /\ toolCall' = [toolCall EXCEPT ![c] = toolCall'[c]]
      BY <3>1, <3>2 DEF WriteTool!Moves
    <3>4. CallMoves(c)
      BY <3>1, <3>2, <3>3, <1>1, KnownValues DEF CallMoves, CallType, WritePlaces
    <3>5. /\ toolCall'[c].at = "same" /\ toolCall'[c].file = toolCall[c].file
          /\ toolCall'[c].before = toolCall[c].before /\ toolCall'[c].lost = toolCall[c].lost
          /\ toolCall'[c].stale = toolCall[c].stale /\ toolCall'[c].crossed = FALSE
          /\ toolCall'[c].aborted = toolCall[c].aborted /\ toolCall'[c].early = toolCall[c].early
      BY <3>2, <3>3 DEF CallType
    <3>7. /\ Unwritten(c)' = Unwritten(c)
          /\ OwnFile(c)' = IF port = "disk" THEN toolCall'[c].file ELSE path
      BY <3>3 DEF Unwritten, OwnFile
    <3>8. WriteShape(c)'
      BY <3>1, <3>2, <3>3, <3>5, <3>7, KnownValues DEF WriteShape, OwnFile
    <3> QED BY <3>4, <3>8, OneCallMoves
  <2> QED BY <2>1, <2>2
<1>7. ASSUME NEW c \in WriteCalls, WriteTool!AsksBaseline(c) PROVE WriteInv'
  <2>1. CASE toolCall[c].aborted
    BY <1>7, <2>1, CallFails DEF WriteTool!AsksBaseline
  <2>2. CASE ~toolCall[c].aborted /\ port = "editor"
    <3>1. /\ port # "disk" /\ toolCall[c].at = "run"
          /\ WriteTool!Moves(c, [toolCall[c] EXCEPT !.at = "reading"])
      BY <1>7, <2>2 DEF WriteTool!AsksBaseline
    <3>2. toolCall[c] \in CallType(Len(files)) /\ WriteShape(c) /\ DOMAIN toolCall = WriteCalls
      BY CallFields
    <3>3. toolCall'[c] = [toolCall[c] EXCEPT !.at = "reading"] /\ UNCHANGED <<path, files, port>>
          /\ toolCall' = [toolCall EXCEPT ![c] = toolCall'[c]]
      BY <3>1, <3>2 DEF WriteTool!Moves
    <3>4. CallMoves(c)
      BY <3>1, <3>2, <3>3, <1>1, KnownValues DEF CallMoves, CallType, WritePlaces
    <3>5. /\ toolCall'[c].at = "reading" /\ toolCall'[c].file = toolCall[c].file
          /\ toolCall'[c].before = toolCall[c].before /\ toolCall'[c].lost = toolCall[c].lost
          /\ toolCall'[c].stale = toolCall[c].stale /\ toolCall'[c].crossed = toolCall[c].crossed
          /\ toolCall'[c].aborted = toolCall[c].aborted /\ toolCall'[c].early = toolCall[c].early
      BY <3>2, <3>3 DEF CallType
    <3>7. /\ Unwritten(c)' = Unwritten(c)
          /\ OwnFile(c)' = IF port = "disk" THEN toolCall'[c].file ELSE path
      BY <3>3 DEF Unwritten, OwnFile
    <3>8. WriteShape(c)'
      BY <3>1, <3>2, <3>3, <3>5, <3>7, KnownValues DEF WriteShape, OwnFile
    <3> QED BY <3>4, <3>8, OneCallMoves
  <2>3. CASE ~toolCall[c].aborted /\ port # "editor"
    <3>1. /\ port # "disk" /\ toolCall[c].at = "run" /\ ~toolCall[c].aborted
          /\ WriteTool!Moves(c, [toolCall[c] EXCEPT !.at = "asked", !.crossed = FALSE])
      BY <1>7, <2>3 DEF WriteTool!AsksBaseline
    <3>2. toolCall[c] \in CallType(Len(files)) /\ WriteShape(c) /\ DOMAIN toolCall = WriteCalls
      BY CallFields
    <3>3. toolCall'[c] = [toolCall[c] EXCEPT !.at = "asked", !.crossed = FALSE] /\ UNCHANGED <<path, files, port>>
          /\ toolCall' = [toolCall EXCEPT ![c] = toolCall'[c]]
      BY <3>1, <3>2 DEF WriteTool!Moves
    <3>4. CallMoves(c)
      BY <3>1, <3>2, <3>3, <1>1, KnownValues DEF CallMoves, CallType, WritePlaces
    <3>5. /\ toolCall'[c].at = "asked" /\ toolCall'[c].file = toolCall[c].file
          /\ toolCall'[c].before = toolCall[c].before /\ toolCall'[c].lost = toolCall[c].lost
          /\ toolCall'[c].stale = toolCall[c].stale /\ toolCall'[c].crossed = FALSE
          /\ toolCall'[c].aborted = toolCall[c].aborted /\ toolCall'[c].early = toolCall[c].early
      BY <3>2, <3>3 DEF CallType
    <3>7. /\ Unwritten(c)' = Unwritten(c)
          /\ OwnFile(c)' = IF port = "disk" THEN toolCall'[c].file ELSE path
      BY <3>3 DEF Unwritten, OwnFile
    <3>8. WriteShape(c)'
      BY <3>1, <3>2, <3>3, <3>5, <3>7, KnownValues DEF WriteShape, OwnFile
    <3> QED BY <3>4, <3>8, OneCallMoves
  <2> QED BY <2>1, <2>2, <2>3
<1>8. ASSUME NEW c \in WriteCalls, WriteTool!BaselineAnswered(c) PROVE WriteInv'
  <2>1. CASE WriteTool!Moves(c, [toolCall[c] EXCEPT !.at = "answered", !.stale = FALSE, !.before = WriteTool!Text(files[path])])
    <3>1. /\ toolCall[c].at = "reading" /\ port # "disk" /\ path # 0
          /\ WriteTool!Moves(c, [toolCall[c] EXCEPT !.at = "answered", !.stale = FALSE, !.before = WriteTool!Text(files[path])])
      BY <1>1, <1>8, <2>1, CallFields DEF WriteTool!BaselineAnswered, WriteShape
    <3>2. toolCall[c] \in CallType(Len(files)) /\ WriteShape(c) /\ DOMAIN toolCall = WriteCalls
      BY CallFields
    <3>3. toolCall'[c] = [toolCall[c] EXCEPT !.at = "answered", !.stale = FALSE, !.before = WriteTool!Text(files[path])] /\ UNCHANGED <<path, files, port>>
          /\ toolCall' = [toolCall EXCEPT ![c] = toolCall'[c]]
      BY <3>1, <3>2 DEF WriteTool!Moves
    <3>9. files[path] \in Seq(Nat)
      BY <3>1, <1>0, <1>1, FileThere
    <3>6. WriteTool!Text(files[path]) \in Known /\ WriteTool!Text(files[path]).text = files[path]
      BY <3>9, KnownValues
    <3>4. CallMoves(c)
      BY <3>1, <3>2, <3>3, <3>6, <1>1, KnownValues DEF CallMoves, CallType, WritePlaces
    <3>5. /\ toolCall'[c].at = "answered" /\ toolCall'[c].file = toolCall[c].file
          /\ toolCall'[c].before = WriteTool!Text(files[path]) /\ toolCall'[c].lost = toolCall[c].lost
          /\ toolCall'[c].stale = FALSE /\ toolCall'[c].crossed = toolCall[c].crossed
          /\ toolCall'[c].aborted = toolCall[c].aborted /\ toolCall'[c].early = toolCall[c].early
      BY <3>2, <3>3 DEF CallType
    <3>7. /\ Unwritten(c)' = Unwritten(c)
          /\ OwnFile(c)' = IF port = "disk" THEN toolCall'[c].file ELSE path
      BY <3>3 DEF Unwritten, OwnFile
    <3>8. WriteShape(c)'
      BY <3>1, <3>2, <3>3, <3>5, <3>7, <3>6, KnownValues DEF WriteShape, OwnFile
    <3> QED BY <3>4, <3>8, OneCallMoves
  <2>2. CASE WriteTool!Moves(c, [toolCall[c] EXCEPT !.at = "answered"])
    <3>1. /\ toolCall[c].at = "reading"
          /\ WriteTool!Moves(c, [toolCall[c] EXCEPT !.at = "answered"])
      BY <1>8, <2>2 DEF WriteTool!BaselineAnswered
    <3>2. toolCall[c] \in CallType(Len(files)) /\ WriteShape(c) /\ DOMAIN toolCall = WriteCalls
      BY CallFields
    <3>3. toolCall'[c] = [toolCall[c] EXCEPT !.at = "answered"] /\ UNCHANGED <<path, files, port>>
          /\ toolCall' = [toolCall EXCEPT ![c] = toolCall'[c]]
      BY <3>1, <3>2 DEF WriteTool!Moves
    <3>4. CallMoves(c)
      BY <3>1, <3>2, <3>3, <1>1, KnownValues DEF CallMoves, CallType, WritePlaces
    <3>5. /\ toolCall'[c].at = "answered" /\ toolCall'[c].file = toolCall[c].file
          /\ toolCall'[c].before = toolCall[c].before /\ toolCall'[c].lost = toolCall[c].lost
          /\ toolCall'[c].stale = toolCall[c].stale /\ toolCall'[c].crossed = toolCall[c].crossed
          /\ toolCall'[c].aborted = toolCall[c].aborted /\ toolCall'[c].early = toolCall[c].early
      BY <3>2, <3>3 DEF CallType
    <3>7. /\ Unwritten(c)' = Unwritten(c)
          /\ OwnFile(c)' = IF port = "disk" THEN toolCall'[c].file ELSE path
      BY <3>3 DEF Unwritten, OwnFile
    <3>8. WriteShape(c)'
      BY <3>1, <3>2, <3>3, <3>5, <3>7, KnownValues DEF WriteShape, OwnFile
    <3> QED BY <3>4, <3>8, OneCallMoves
  <2> QED BY <1>8, <2>1, <2>2 DEF WriteTool!BaselineAnswered
<1>9. ASSUME NEW c \in WriteCalls, WriteTool!AsksWrite(c) PROVE WriteInv'
  <2>1. CASE toolCall[c].aborted
    BY <1>9, <2>1, CallFails DEF WriteTool!AsksWrite
  <2>2. CASE ~toolCall[c].aborted
    <3>1. /\ toolCall[c].at = "answered" /\ ~toolCall[c].aborted
          /\ WriteTool!Moves(c, [toolCall[c] EXCEPT !.at = "asked", !.crossed = FALSE])
      BY <1>9, <2>2 DEF WriteTool!AsksWrite
    <3>2. toolCall[c] \in CallType(Len(files)) /\ WriteShape(c) /\ DOMAIN toolCall = WriteCalls
      BY CallFields
    <3>3. toolCall'[c] = [toolCall[c] EXCEPT !.at = "asked", !.crossed = FALSE] /\ UNCHANGED <<path, files, port>>
          /\ toolCall' = [toolCall EXCEPT ![c] = toolCall'[c]]
      BY <3>1, <3>2 DEF WriteTool!Moves
    <3>4. CallMoves(c)
      BY <3>1, <3>2, <3>3, <1>1, KnownValues DEF CallMoves, CallType, WritePlaces
    <3>5. /\ toolCall'[c].at = "asked" /\ toolCall'[c].file = toolCall[c].file
          /\ toolCall'[c].before = toolCall[c].before /\ toolCall'[c].lost = toolCall[c].lost
          /\ toolCall'[c].stale = toolCall[c].stale /\ toolCall'[c].crossed = FALSE
          /\ toolCall'[c].aborted = toolCall[c].aborted /\ toolCall'[c].early = toolCall[c].early
      BY <3>2, <3>3 DEF CallType
    <3>7. /\ Unwritten(c)' = Unwritten(c)
          /\ OwnFile(c)' = IF port = "disk" THEN toolCall'[c].file ELSE path
      BY <3>3 DEF Unwritten, OwnFile
    <3>8. WriteShape(c)'
      BY <3>1, <3>2, <3>3, <3>5, <3>7, KnownValues DEF WriteShape, OwnFile
    <3> QED BY <3>4, <3>8, OneCallMoves
  <2> QED BY <2>1, <2>2
<1>10. ASSUME NEW c \in WriteCalls, WriteTool!EditorRefuses(c) PROVE WriteInv'
  BY <1>10, CallFails DEF WriteTool!EditorRefuses
<1>11. ASSUME NEW c \in WriteCalls, WriteTool!Confirms(c) PROVE WriteInv'
  <2>1. /\ toolCall[c].at = "written"
        /\ WriteTool!Moves(c, [toolCall[c] EXCEPT !.at = "done"])
    BY <1>11 DEF WriteTool!Confirms
  <2>2. toolCall[c] \in CallType(Len(files)) /\ WriteShape(c) /\ DOMAIN toolCall = WriteCalls
    BY CallFields
  <2>3. toolCall'[c] = [toolCall[c] EXCEPT !.at = "done"] /\ UNCHANGED <<path, files, port>>
        /\ toolCall' = [toolCall EXCEPT ![c] = toolCall'[c]]
    BY <2>1, <2>2 DEF WriteTool!Moves
  <2>4. CallMoves(c)
    BY <2>1, <2>2, <2>3, <1>1, KnownValues DEF CallMoves, CallType, WritePlaces
  <2>5. /\ toolCall'[c].at = "done" /\ toolCall'[c].file = toolCall[c].file
        /\ toolCall'[c].before = toolCall[c].before /\ toolCall'[c].lost = toolCall[c].lost
        /\ toolCall'[c].stale = toolCall[c].stale /\ toolCall'[c].crossed = toolCall[c].crossed
        /\ toolCall'[c].aborted = toolCall[c].aborted /\ toolCall'[c].early = toolCall[c].early
    BY <2>2, <2>3 DEF CallType
  <2>7. /\ Unwritten(c)' = Unwritten(c)
        /\ OwnFile(c)' = IF port = "disk" THEN toolCall'[c].file ELSE path
    BY <2>3 DEF Unwritten, OwnFile
  <2>8. WriteShape(c)'
    BY <2>1, <2>2, <2>3, <2>5, <2>7, KnownValues DEF WriteShape, OwnFile
  <2> QED BY <2>4, <2>8, OneCallMoves
<1>12. ASSUME NEW c \in WriteCalls, WriteTool!GivesUp(c) PROVE WriteInv'
  <2>1. CASE toolCall[c].at # "asked"
    <3>1. WriteTool!Fails(c)
      BY <1>12, <2>1 DEF WriteTool!GivesUp, WriteTool!Fails
    <3> QED BY <3>1, CallFails
  <2>2. CASE toolCall[c].at = "asked"
    <3>1. /\ toolCall[c].at = "asked"
          /\ WriteTool!Moves(c, [toolCall[c] EXCEPT !.at = "left"])
      BY <1>12, <2>2 DEF WriteTool!GivesUp
    <3>2. toolCall[c] \in CallType(Len(files)) /\ WriteShape(c) /\ DOMAIN toolCall = WriteCalls
      BY CallFields
    <3>3. toolCall'[c] = [toolCall[c] EXCEPT !.at = "left"] /\ UNCHANGED <<path, files, port>>
          /\ toolCall' = [toolCall EXCEPT ![c] = toolCall'[c]]
      BY <3>1, <3>2 DEF WriteTool!Moves
    <3>4. CallMoves(c)
      BY <3>1, <3>2, <3>3, <1>1, KnownValues DEF CallMoves, CallType, WritePlaces
    <3>5. /\ toolCall'[c].at = "left" /\ toolCall'[c].file = toolCall[c].file
          /\ toolCall'[c].before = toolCall[c].before /\ toolCall'[c].lost = toolCall[c].lost
          /\ toolCall'[c].stale = toolCall[c].stale /\ toolCall'[c].crossed = toolCall[c].crossed
          /\ toolCall'[c].aborted = toolCall[c].aborted /\ toolCall'[c].early = toolCall[c].early
      BY <3>2, <3>3 DEF CallType
    <3>7. /\ Unwritten(c)' = Unwritten(c)
          /\ OwnFile(c)' = IF port = "disk" THEN toolCall'[c].file ELSE path
      BY <3>3 DEF Unwritten, OwnFile
    <3>8. WriteShape(c)'
      BY <3>1, <3>2, <3>3, <3>5, <3>7, KnownValues DEF WriteShape, OwnFile
    <3> QED BY <3>4, <3>8, OneCallMoves
  <2> QED BY <2>1, <2>2
<1>13. ASSUME NEW c \in WriteCalls, WriteTool!Aborts(c) PROVE WriteInv'
  <2> DEFINE soon == toolCall[c].at \in {"run", "absent", "open", "checked", "baseline", "reading", "answered"}
  <2>0. soon => /\ toolCall[c].at \in {"run", "absent", "open", "checked", "baseline", "reading", "answered"}
                /\ toolCall[c].lost = WriteTool!Unknown /\ Unwritten(c)
    BY CallFields DEF WriteShape
  <2>1. /\ toolCall[c].at \notin {"done", "failed", "left"} /\ soon \in BOOLEAN
        /\ WriteTool!Moves(c, [toolCall[c] EXCEPT !.aborted = TRUE, !.early = soon])
    BY <1>13 DEF WriteTool!Aborts, WriteTool!Over
  <2> HIDE DEF soon
  <2>2. toolCall[c] \in CallType(Len(files)) /\ WriteShape(c) /\ DOMAIN toolCall = WriteCalls
    BY CallFields
  <2>3. toolCall'[c] = [toolCall[c] EXCEPT !.aborted = TRUE, !.early = soon] /\ UNCHANGED <<path, files, port>>
        /\ toolCall' = [toolCall EXCEPT ![c] = toolCall'[c]]
    BY <2>1, <2>2 DEF WriteTool!Moves
  <2>4. CallMoves(c)
    BY <2>1, <2>2, <2>3, <1>1, KnownValues DEF CallMoves, CallType, WritePlaces
  <2>5. /\ toolCall'[c].at = toolCall[c].at /\ toolCall'[c].file = toolCall[c].file
        /\ toolCall'[c].before = toolCall[c].before /\ toolCall'[c].lost = toolCall[c].lost
        /\ toolCall'[c].stale = toolCall[c].stale /\ toolCall'[c].crossed = toolCall[c].crossed
        /\ toolCall'[c].aborted = TRUE /\ toolCall'[c].early = soon
    BY <2>2, <2>3 DEF CallType
  <2>7. /\ Unwritten(c)' = Unwritten(c)
        /\ OwnFile(c)' = IF port = "disk" THEN toolCall'[c].file ELSE path
    BY <2>3 DEF Unwritten, OwnFile
  <2>8. WriteShape(c)'
    BY <2>0, <2>1, <2>2, <2>3, <2>5, <2>7, KnownValues DEF WriteShape, OwnFile
  <2> QED BY <2>4, <2>8, OneCallMoves
<1>14. ASSUME NEW c \in WriteCalls, WriteTool!Creates(c) PROVE WriteInv'
  <2>1. CASE path # 0
    BY <1>14, <2>1, CallFails DEF WriteTool!Creates, WriteTool!None
  <2>2. CASE path = 0
    <3>1. /\ toolCall[c].at = "absent" /\ path = 0 /\ port = "disk" /\ UNCHANGED port
          /\ files' = Append(files, << >>) /\ path' = Len(files) + 1
          /\ toolCall' = WriteTool!Seen(c, [toolCall[c] EXCEPT !.at = "baseline", !.file = path', !.before = WriteTool!Absent])
      BY <1>14, <2>2, CallFields DEF WriteTool!Creates, WriteTool!None, WriteShape
    <3>2. toolCall[c] \in CallType(Len(files)) /\ WriteShape(c) /\ c \in Nat /\ c # 0
      BY CallFields
    <3>3. /\ files' \in Seq(Seq(Nat)) /\ Len(files') = Len(files) + 1 /\ files'[path'] = << >>
          /\ \A d : Unwritten(d) => Unwritten(d)'
      <4>1. << >> \in Seq(Nat) /\ \A d : \A k \in DOMAIN << >> : << >>[k] # d
        OBVIOUS
      <4> QED BY <3>1, <4>1, OneFileMore
    <3>4. /\ toolCall' = [d \in WriteCalls |-> toolCall'[d]] /\ DOMAIN toolCall' = WriteCalls
          /\ \A d \in WriteCalls : d # c => toolCall'[d] = [toolCall[d] EXCEPT !.stale = TRUE, !.crossed = TRUE]
          /\ toolCall'[c] = [toolCall[c] EXCEPT !.at = "baseline", !.file = path', !.before = WriteTool!Absent]
      BY <3>1 DEF WriteTool!Seen
    <3>11. /\ Len(files) <= Len(files') /\ path' \in 0 .. Len(files') /\ Len(files') \in Nat
           /\ path' = path \/ port = "disk"
      BY <3>1, <3>3, <1>0, <1>1
    <3>12. /\ port' = port /\ (port # "disk" => path' # 0) /\ files' \in Seq(Seq(Nat))
           /\ \A d \in WriteCalls : d # c => (Unwritten(d) => Unwritten(d)')
      BY <3>1, <3>3, <3>11, <1>1
    <3>5. FilesChange(c)
      BY <3>4, <3>11, <3>12 DEF FilesChange
    <3>6. toolCall'[c] \in CallType(Len(files'))
      <4>1. 0 .. Len(files) \subseteq 0 .. Len(files') /\ path' \in 0 .. Len(files')
        BY <3>11, <1>0
      <4> QED BY <3>1, <3>2, <3>3, <3>4, <4>1, KnownValues DEF CallType, WritePlaces
    <3>7. /\ toolCall'[c].at = "baseline" /\ toolCall'[c].file = path'
          /\ toolCall'[c].before = WriteTool!Absent /\ toolCall'[c].lost = toolCall[c].lost
          /\ toolCall'[c].stale = toolCall[c].stale /\ toolCall'[c].crossed = toolCall[c].crossed
          /\ toolCall'[c].aborted = toolCall[c].aborted /\ toolCall'[c].early = toolCall[c].early
      BY <3>2, <3>4 DEF CallType
    <3>8. OwnFile(c)' = IF port = "disk" THEN toolCall'[c].file ELSE path'
      BY <3>1 DEF OwnFile
    <3>9. WriteShape(c)'
      BY <3>1, <3>2, <3>3, <3>7, <3>8, KnownValues DEF WriteShape, OwnFile
    <3> QED BY <3>5, <3>6, <3>9, FilesMove
  <2> QED BY <2>1, <2>2
<1>15. ASSUME NEW c \in WriteCalls, WriteTool!Truncates(c) PROVE WriteInv'
  <2>1. CASE toolCall[c].aborted
    BY <1>15, <2>1, CallFails DEF WriteTool!Truncates
  <2>2. CASE ~toolCall[c].aborted
    <3>1. /\ toolCall[c].at = "same" /\ ~toolCall[c].aborted /\ port = "disk" /\ UNCHANGED <<port, path>>
          /\ files' = [files EXCEPT ![toolCall[c].file] = << >>]
          /\ toolCall' = WriteTool!Seen(c, [toolCall[c] EXCEPT !.at = "truncated", !.lost = WriteTool!Text(files[toolCall[c].file])])
      BY <1>15, <2>2, CallFields DEF WriteTool!Truncates, WriteShape
    <3>2. toolCall[c] \in CallType(Len(files)) /\ WriteShape(c) /\ c \in Nat /\ c # 0
      BY CallFields
    <3>10. toolCall[c].file \in 1 .. Len(files) /\ files[toolCall[c].file] \in Seq(Nat)
      <4>1. toolCall[c].file \in 0 .. Len(files) /\ toolCall[c].file # 0
        BY <3>1, <3>2 DEF CallType, WriteShape
      <4>2. toolCall[c].file \in 1 .. Len(files)
        BY <1>0, <4>1
      <4> QED BY <1>0, <4>2
    <3>3. /\ files' \in Seq(Seq(Nat)) /\ Len(files') = Len(files) /\ files'[toolCall[c].file] = << >>
          /\ \A d : Unwritten(d) => Unwritten(d)'
          /\ WriteTool!Text(files[toolCall[c].file]) \in Known
          /\ WriteTool!Text(files[toolCall[c].file]).text = files[toolCall[c].file]
      <4>1. << >> \in Seq(Nat) /\ \A d : \A k \in DOMAIN << >> : << >>[k] # d
        OBVIOUS
      <4> QED BY <3>1, <3>10, <4>1, OneFileChanges, KnownValues
    <3>4. /\ toolCall' = [d \in WriteCalls |-> toolCall'[d]] /\ DOMAIN toolCall' = WriteCalls
          /\ \A d \in WriteCalls : d # c => toolCall'[d] = [toolCall[d] EXCEPT !.stale = TRUE, !.crossed = TRUE]
          /\ toolCall'[c] = [toolCall[c] EXCEPT !.at = "truncated", !.lost = WriteTool!Text(files[toolCall[c].file])]
      BY <3>1 DEF WriteTool!Seen
    <3>11. /\ Len(files) <= Len(files') /\ path' \in 0 .. Len(files') /\ Len(files') \in Nat
           /\ path' = path \/ port = "disk"
      BY <3>1, <3>3, <1>0, <1>1
    <3>12. /\ port' = port /\ (port # "disk" => path' # 0) /\ files' \in Seq(Seq(Nat))
           /\ \A d \in WriteCalls : d # c => (Unwritten(d) => Unwritten(d)')
      BY <3>1, <3>3, <3>11, <1>1
    <3>5. FilesChange(c)
      BY <3>4, <3>11, <3>12 DEF FilesChange
    <3>6. toolCall'[c] \in CallType(Len(files'))
      <4>1. 0 .. Len(files) \subseteq 0 .. Len(files') /\ path' \in 0 .. Len(files')
        BY <3>11, <1>0
      <4> QED BY <3>1, <3>2, <3>3, <3>4, <4>1, KnownValues DEF CallType, WritePlaces
    <3>7. /\ toolCall'[c].at = "truncated" /\ toolCall'[c].file = toolCall[c].file
          /\ toolCall'[c].before = toolCall[c].before /\ toolCall'[c].lost = WriteTool!Text(files[toolCall[c].file])
          /\ toolCall'[c].stale = toolCall[c].stale /\ toolCall'[c].crossed = toolCall[c].crossed
          /\ toolCall'[c].aborted = toolCall[c].aborted /\ toolCall'[c].early = toolCall[c].early
      BY <3>2, <3>4 DEF CallType
    <3>8. OwnFile(c)' = IF port = "disk" THEN toolCall'[c].file ELSE path'
      BY <3>1 DEF OwnFile
    <3>9. WriteShape(c)'
      BY <3>1, <3>2, <3>3, <3>7, <3>8, KnownValues DEF WriteShape, OwnFile
    <3> QED BY <3>5, <3>6, <3>9, FilesMove
  <2> QED BY <2>1, <2>2
<1>16. ASSUME NEW c \in WriteCalls, WriteTool!Writes(c) PROVE WriteInv'
  <2>1. CASE toolCall[c].aborted
    BY <1>16, <2>1, CallFails DEF WriteTool!Writes
  <2>2. CASE ~toolCall[c].aborted
    <3>1. /\ toolCall[c].at = "truncated" /\ port = "disk" /\ UNCHANGED <<port, path>>
          /\ files' = [files EXCEPT ![toolCall[c].file] = WriteTool!Onto(c, files[toolCall[c].file])]
          /\ toolCall' = WriteTool!Seen(c, [toolCall[c] EXCEPT !.at = "done"])
      BY <1>16, <2>2, CallFields DEF WriteTool!Writes, WriteShape
    <3>2. toolCall[c] \in CallType(Len(files)) /\ WriteShape(c) /\ c \in Nat /\ c # 0
      BY CallFields
    <3>10. toolCall[c].file \in 1 .. Len(files) /\ files[toolCall[c].file] \in Seq(Nat)
      <4>1. toolCall[c].file \in 0 .. Len(files) /\ toolCall[c].file # 0
        BY <3>1, <3>2 DEF CallType, WriteShape
      <4>2. toolCall[c].file \in 1 .. Len(files)
        BY <1>0, <4>1
      <4> QED BY <1>0, <4>2
    <3>3. /\ files' \in Seq(Seq(Nat)) /\ Len(files') = Len(files)
          /\ files[toolCall[c].file] = << >> => files'[toolCall[c].file] = WriteTool!Full(c)
          /\ \A d \in WriteCalls : d # c /\ Unwritten(d) => Unwritten(d)'
      <4> DEFINE t == files[toolCall[c].file]
                 new == WriteTool!Onto(c, t)
      <4>1. /\ new \in Seq(Nat) /\ (t = << >> => new = WriteTool!Full(c))
            /\ \A d : d # c /\ (\A k \in DOMAIN t : t[k] # d) => \A k \in DOMAIN new : new[k] # d
        BY <3>10, WhatIsWritten
      <4>2. \A d : Unwritten(d) => \A k \in DOMAIN t : t[k] # d
        BY <1>0, <3>10 DEF Unwritten
      <4>3. files' = [files EXCEPT ![toolCall[c].file] = new]
        BY <3>1
      <4> HIDE DEF new
      <4>4. /\ files' \in Seq(Seq(Nat)) /\ Len(files') = Len(files) /\ files'[toolCall[c].file] = new
            /\ \A d : Unwritten(d) /\ (\A k \in DOMAIN new : new[k] # d) => Unwritten(d)'
        BY <3>10, <4>1, <4>3, OneFileChanges
      <4> QED BY <4>1, <4>2, <4>4
    <3>4. /\ toolCall' = [d \in WriteCalls |-> toolCall'[d]] /\ DOMAIN toolCall' = WriteCalls
          /\ \A d \in WriteCalls : d # c => toolCall'[d] = [toolCall[d] EXCEPT !.stale = TRUE, !.crossed = TRUE]
          /\ toolCall'[c] = [toolCall[c] EXCEPT !.at = "done"]
      BY <3>1 DEF WriteTool!Seen
    <3>11. /\ Len(files) <= Len(files') /\ path' \in 0 .. Len(files') /\ Len(files') \in Nat
           /\ path' = path \/ port = "disk"
      BY <3>1, <3>3, <1>0, <1>1
    <3>12. /\ port' = port /\ (port # "disk" => path' # 0) /\ files' \in Seq(Seq(Nat))
           /\ \A d \in WriteCalls : d # c => (Unwritten(d) => Unwritten(d)')
      BY <3>1, <3>3, <3>11, <1>1
    <3>5. FilesChange(c)
      BY <3>4, <3>11, <3>12 DEF FilesChange
    <3>6. toolCall'[c] \in CallType(Len(files'))
      <4>1. 0 .. Len(files) \subseteq 0 .. Len(files') /\ path' \in 0 .. Len(files')
        BY <3>11, <1>0
      <4> QED BY <3>1, <3>2, <3>3, <3>4, <4>1, KnownValues DEF CallType, WritePlaces
    <3>7. /\ toolCall'[c].at = "done" /\ toolCall'[c].file = toolCall[c].file
          /\ toolCall'[c].before = toolCall[c].before /\ toolCall'[c].lost = toolCall[c].lost
          /\ toolCall'[c].stale = toolCall[c].stale /\ toolCall'[c].crossed = toolCall[c].crossed
          /\ toolCall'[c].aborted = toolCall[c].aborted /\ toolCall'[c].early = toolCall[c].early
      BY <3>2, <3>4 DEF CallType
    <3>8. OwnFile(c)' = IF port = "disk" THEN toolCall'[c].file ELSE path'
      BY <3>1 DEF OwnFile
    <3>9. WriteShape(c)'
      BY <3>1, <3>2, <3>3, <3>7, <3>8, KnownValues DEF WriteShape, OwnFile
    <3> QED BY <3>5, <3>6, <3>9, FilesMove
  <2> QED BY <2>1, <2>2
<1>17. ASSUME NEW c \in WriteCalls, WriteTool!EditorWrites(c) PROVE WriteInv'
  <2> DEFINE to == IF toolCall[c].at = "asked" THEN "written" ELSE "failed"
  <2>1. /\ toolCall[c].at \in {"asked", "left"} /\ to \in {"written", "failed"} /\ UNCHANGED <<port, path>>
        /\ files' = [files EXCEPT ![path] = WriteTool!Full(c)] /\ port # "disk" /\ path # 0
        /\ toolCall' = WriteTool!Seen(c, [toolCall[c] EXCEPT !.at = to, !.lost = WriteTool!Text(files[path])])
    BY <1>1, <1>17, CallFields DEF WriteTool!EditorWrites, WriteShape
  <2>2. toolCall[c] \in CallType(Len(files)) /\ WriteShape(c) /\ c \in Nat /\ c # 0
    BY CallFields
  <2>10. path \in 1 .. Len(files) /\ files[path] \in Seq(Nat)
    BY <2>1, FileThere
  <2> HIDE DEF to
  <2>3. /\ files' \in Seq(Seq(Nat)) /\ Len(files') = Len(files) /\ files'[path] = WriteTool!Full(c)
        /\ \A d \in WriteCalls : d # c /\ Unwritten(d) => Unwritten(d)'
        /\ WriteTool!Text(files[path]) \in Known /\ WriteTool!Text(files[path]).text = files[path]
    <3>1. /\ WriteTool!Full(c) \in Seq(Nat)
          /\ \A d : d # c /\ (\A k \in DOMAIN files[path] : files[path][k] # d) =>
               \A k \in DOMAIN WriteTool!Full(c) : WriteTool!Full(c)[k] # d
      BY <2>10, WhatIsWritten
    <3>2. \A d : Unwritten(d) => \A k \in DOMAIN files[path] : files[path][k] # d
      BY <1>0, <2>10 DEF Unwritten
    <3>3. /\ files' \in Seq(Seq(Nat)) /\ Len(files') = Len(files) /\ files'[path] = WriteTool!Full(c)
          /\ \A d : Unwritten(d) /\ (\A k \in DOMAIN WriteTool!Full(c) : WriteTool!Full(c)[k] # d) => Unwritten(d)'
      BY <2>1, <2>10, <3>1, OneFileChanges
    <3> QED BY <2>10, <3>1, <3>2, <3>3, KnownValues
  <2>13. ~toolCall[c].early /\ (~toolCall[c].stale /\ toolCall[c].before # WriteTool!Unknown =>
           files[path] = toolCall[c].before.text)
    BY <2>1, <2>2 DEF WriteShape, OwnFile
  <2>4. /\ toolCall' = [d \in WriteCalls |-> toolCall'[d]] /\ DOMAIN toolCall' = WriteCalls
        /\ \A d \in WriteCalls : d # c => toolCall'[d] = [toolCall[d] EXCEPT !.stale = TRUE, !.crossed = TRUE]
        /\ toolCall'[c] = [toolCall[c] EXCEPT !.at = to, !.lost = WriteTool!Text(files[path])]
    BY <2>1 DEF WriteTool!Seen
  <2>11. /\ Len(files) <= Len(files') /\ path' \in 0 .. Len(files') /\ Len(files') \in Nat
         /\ path' = path \/ port = "disk"
    BY <2>1, <2>3, <1>0, <1>1
  <2>12. /\ port' = port /\ (port # "disk" => path' # 0) /\ files' \in Seq(Seq(Nat))
         /\ \A d \in WriteCalls : d # c => (Unwritten(d) => Unwritten(d)')
    BY <2>1, <2>3, <2>11, <1>1
  <2>5. FilesChange(c)
    BY <2>4, <2>11, <2>12 DEF FilesChange
  <2>6. toolCall'[c] \in CallType(Len(files'))
    <3>1. 0 .. Len(files) \subseteq 0 .. Len(files') /\ path' \in 0 .. Len(files')
      BY <2>11, <1>0
    <3> QED BY <2>1, <2>2, <2>3, <2>4, <3>1, KnownValues DEF CallType, WritePlaces
  <2>7. /\ toolCall'[c].at = to /\ toolCall'[c].file = toolCall[c].file
        /\ toolCall'[c].before = toolCall[c].before /\ toolCall'[c].lost = WriteTool!Text(files[path])
        /\ toolCall'[c].stale = toolCall[c].stale /\ toolCall'[c].crossed = toolCall[c].crossed
        /\ toolCall'[c].aborted = toolCall[c].aborted /\ toolCall'[c].early = toolCall[c].early
    BY <2>2, <2>4 DEF CallType
  <2>8. OwnFile(c)' = IF port = "disk" THEN toolCall'[c].file ELSE path'
    BY <2>1 DEF OwnFile
  <2>9. WriteShape(c)'
    BY <2>1, <2>3, <2>7, <2>13 DEF WriteShape
  <2> QED BY <2>5, <2>6, <2>9, FilesMove
<1>18. CASE WriteTool!OthersEdit
  <2>1. toolCall' = WriteTool!Seen(0, WriteTool!NoCall) /\ UNCHANGED port
    BY <1>18 DEF WriteTool!OthersEdit, WriteTool!None
  <2>2. 0 \notin WriteCalls
    BY ToolsAssumption
  <2>3. /\ toolCall' = [d \in WriteCalls |-> toolCall'[d]] /\ DOMAIN toolCall' = WriteCalls
        /\ \A d \in WriteCalls : d # 0 => toolCall'[d] = [toolCall[d] EXCEPT !.stale = TRUE, !.crossed = TRUE]
    BY <2>1, <2>2 DEF WriteTool!Seen
  <2>4. <<0>> \in Seq(Nat) /\ \A d \in WriteCalls : \A k \in DOMAIN <<0>> : <<0>>[k] # d
    BY <2>2
  <2>5. /\ files' \in Seq(Seq(Nat)) /\ Len(files) <= Len(files') /\ path' \in 0 .. Len(files')
        /\ (port # "disk" => path' # 0) /\ \A d \in WriteCalls : Unwritten(d) => Unwritten(d)'
    <3>1. CASE path # 0 /\ files' = [files EXCEPT ![path] = <<0>>] /\ UNCHANGED path
      <4>1. path \in 1 .. Len(files)
        BY <3>1, FileThere
      <4>2. /\ files' \in Seq(Seq(Nat)) /\ Len(files') = Len(files)
            /\ \A d \in WriteCalls : Unwritten(d) => Unwritten(d)'
        BY <2>4, <3>1, <4>1, OneFileChanges
      <4> QED BY <1>0, <1>1, <3>1, <4>2
    <3>2. CASE port = "disk" /\ files' = Append(files, <<0>>) /\ path' = Len(files')
      <4>1. /\ files' \in Seq(Seq(Nat)) /\ Len(files') = Len(files) + 1
            /\ \A d \in WriteCalls : Unwritten(d) => Unwritten(d)'
        BY <2>4, <3>2, OneFileMore
      <4> QED BY <1>0, <3>2, <4>1
    <3>3. CASE port = "disk" /\ path' = 0 /\ UNCHANGED files
      BY <1>0, <3>3 DEF Unwritten
    <3> QED BY <1>18, <3>1, <3>2, <3>3 DEF WriteTool!OthersEdit, WriteTool!None, WriteTool!Others
  <2>6. FilesChange(0)
    BY <2>1, <2>3, <2>5 DEF FilesChange
  <2> QED BY <2>2, <2>6, FilesMove
<1> QED BY <1>2, <1>3, <1>4, <1>5, <1>6, <1>7, <1>8, <1>9, <1>10, <1>11, <1>12, <1>13, <1>14, <1>15, <1>16, <1>17, <1>18
        DEF WriteTool!WriteNext

\* What the invariant says of the properties.
LEMMA WritesKeepTheirWord ==
  WriteInv => WriteTool!FilesTypeOK /\ WriteTool!WrittenIsThere /\ WriteTool!DiffIsTrue /\ WriteTool!CancelledOverwritesNothing
<1>1. ASSUME WriteInv PROVE WriteTool!FilesTypeOK
  BY <1>1, CallFields DEF WriteInv, WriteTool!FilesTypeOK, CallType, Known
<1>2. ASSUME WriteInv, NEW c \in WriteCalls
      PROVE  /\ toolCall[c].at = "done" /\ ~toolCall[c].crossed => path # 0 /\ files[path] = WriteTool!Full(c)
             /\ toolCall[c].at = "done" /\ ~toolCall[c].stale /\ toolCall[c].before # WriteTool!Unknown =>
                  toolCall[c].lost.text = toolCall[c].before.text
             /\ toolCall[c].early => toolCall[c].lost = WriteTool!Unknown /\ Unwritten(c)
  BY <1>2, CallFields DEF WriteShape
<1>3. ASSUME WriteInv PROVE WriteTool!WrittenIsThere /\ WriteTool!DiffIsTrue /\ WriteTool!CancelledOverwritesNothing
  BY <1>2, <1>3 DEF WriteTool!WrittenIsThere, WriteTool!DiffIsTrue, WriteTool!CancelledOverwritesNothing, Unwritten, WriteTool!None
<1> QED BY <1>1, <1>3

-----------------------------------------------------------------------------
\* The whole

ToolsInv == AuthInv /\ CommandInv /\ ProxyInv /\ McpInv /\ AskingInv /\ WriteInv

\* The inductive invariants of all parts hold: where a terminal, a connection, a server's
\* client, a slot, a write or a change of credentials stands and what there is of it go
\* together.
THEOREM ToolsSafe == ToolsSpec => []ToolsInv
<1>1. ToolsInit => ToolsInv
  BY AuthStarts, CommandStarts, ProxyStarts, McpStarts, AskingStarts, WritesStart DEF ToolsInit, ToolsInv
<1>2. ToolsInv /\ [UNCHANGED part /\ ToolsNext]_<<part, toolVars>> => ToolsInv'
  <2>1. ASSUME ToolsInv, [UNCHANGED part /\ ToolsNext]_<<part, toolVars>>
        PROVE  /\ [Auth!CredentialsNext]_aV /\ [Commandline!TerminalsNext]_lV /\ [Proxy!ProxyNext]_pV
               /\ [Mcp!ServersNext]_vV /\ [Asking!ElicitationsNext]_qV /\ [WriteTool!WriteNext]_wV
    BY <2>1 DEF ToolsNext, toolVars
  <2> QED BY <2>1, AuthNextSafe, CommandNextSafe, ProxyNextSafe, McpNextSafe, AskingNextSafe, WriteNextSafe
          DEF ToolsInv
<1> QED BY <1>1, <1>2, PTL DEF ToolsSpec

\* Whatever a tool obtained of the client or of a server is let go again, also what arrives
\* late; nothing is answered over what was closed; and a write is what its result says.
THEOREM ToolsKeepFaith == ToolsSpec => []ToolsKeepTheirWord
<1>1. ToolsInv => ToolsKeepTheirWord
  <2>1. ASSUME CommandInv
        PROVE  Commandline!TerminalsTypeOK /\ Commandline!TerminalsAreReleased /\ Commandline!ResultsFollowRelease
    <3>1. Commandline!TerminalsTypeOK /\ \A r \in Runs : RunShape(r)
      BY <2>1 DEF CommandInv
    <3>2. \A r \in Runs : /\ standsAt[r] \in {"unasked", "creating", "exiting", "reading", "surfacing", "leaving", "done"}
                          /\ cleaning[r] \in {"none", "killing", "releasing", "released", "failed"}
                          /\ releases[r] \in Nat
      BY <3>1 DEF Commandline!TerminalsTypeOK
    <3>3. ASSUME NEW r \in Runs
          PROVE  /\ releases[r] <= 1
                 /\ online /\ terminal[r] = "known" /\ standsAt[r] = "done" => cleaning[r] = "killing" \/ releases[r] = 1
                 /\ outcome[r] = "result" => cleaning[r] = "released"
      BY <3>1, <3>2 DEF RunShape
    <3> QED BY <3>1, <3>3 DEF Commandline!TerminalsAreReleased, Commandline!ResultsFollowRelease
  <2>2. ASSUME ProxyInv PROVE Proxy!ProxyTypeOK /\ Proxy!ConnectionsAreHeld /\ Proxy!ClosedIsQuiet
    BY <2>2 DEF ProxyInv
  <2>3. ASSUME AskingInv PROVE Asking!ElicitationsTypeOK /\ Asking!SlotsAreHeld /\ Asking!CompletesOnce
    BY <2>3 DEF AskingInv
  <2> QED BY <2>1, <2>2, <2>3, McpKeepsItsWord, WritesKeepTheirWord DEF ToolsInv, ToolsKeepTheirWord
<1> QED BY <1>1, ToolsSafe, PTL

\* A change of credentials ends what was opened before it, and one that was cancelled
\* grants nothing when it ends late.
THEOREM AccessIsGranted == ToolsSpec => []AccessFollowsCredentials
<1>1. ToolsInv => AccessFollowsCredentials
  <2>1. ASSUME AuthInv PROVE Auth!RevokedBeforeChange
    BY <2>1, ToolsAssumption DEF AuthInv, Auth!RevokedBeforeChange, Auth!Changes
  <2> QED BY <2>1 DEF ToolsInv, AuthInv, AccessFollowsCredentials
<1> QED BY <1>1, ToolsSafe, PTL
=============================================================================

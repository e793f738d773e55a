------------------------------ MODULE HostProofs ------------------------------
(***************************************************************************)
(* What TLAPS proves of a host: it keeps its types, a tool runs only when it *)
(* is allowed to, nothing goes on that no turn waits for, and a batch counts *)
(* what its session recorded.                                                *)
(***************************************************************************)
EXTENDS HostInvariant, FiniteSetTheorems, SequenceTheorems, TLAPS

-----------------------------------------------------------------------------
\* Sequences and actors

\* The elements of a sequence that one is appended to.
LEMMA Appended ==
  ASSUME NEW S, NEW s \in Seq(S), NEW e \in S
  PROVE  /\ Append(s, e) \in Seq(S) /\ Append(s, e) # << >>
         /\ DOMAIN s \subseteq DOMAIN Append(s, e) /\ Len(s) + 1 \in DOMAIN Append(s, e)
         /\ \A i \in DOMAIN s : Append(s, e)[i] = s[i]
         /\ Append(s, e)[Len(s) + 1] = e
         /\ \A i \in DOMAIN Append(s, e) :
              i \in DOMAIN s \/ (i = Len(s) + 1 /\ i \notin DOMAIN s)
         /\ DOMAIN s = 1..Len(s) /\ Len(s) \in Nat /\ DOMAIN Append(s, e) = 1..(Len(s) + 1)
OBVIOUS

\* What is left of a sequence that has lost its head.
LEMMA Beheaded ==
  ASSUME NEW S, NEW s \in Seq(S), s # << >>
  PROVE  /\ Head(s) = s[1] /\ Head(s) \in S /\ 1 \in DOMAIN s /\ Tail(s) \in Seq(S)
         /\ \A i \in DOMAIN Tail(s) :
              i \in Nat /\ i + 1 \in DOMAIN s /\ i + 1 # 1 /\ Tail(s)[i] = s[i + 1]
         /\ \A i \in DOMAIN s : i # 1 =>
              i - 1 \in DOMAIN Tail(s) /\ Tail(s)[i - 1] = s[i]
OBVIOUS

\* The names of operations.
LEMMA OpNames ==
  /\ \A o \in Ops :
       /\ o[1] \in {"completion", "permission", "tool"} /\ o[2] \in Steps
       /\ o[1] = "tool" => o[3] \in DOMAIN ToolOf /\ o = <<"tool", o[2], o[3]>>
       /\ o[1] # "tool" => o = <<o[1], o[2]>>
  /\ \A s \in Steps :
       /\ <<"completion", s>> \in Ops /\ <<"permission", s>> \in Ops
       /\ \A c \in DOMAIN ToolOf : <<"tool", s, c>> \in Ops
BY DEF Ops

\* What an operation actor becomes when an event is sent to it.
LEMMA SentOp ==
  ASSUME NEW a \in OpActors, NEW t \in Own \cup Failing
  PROVE  LET b == Sent(a, Event(t)) IN
         /\ b \in OpActors /\ b.status = a.status /\ b.work = a.work /\ b.timer = a.timer
         /\ a.status \in Final \cup {"none"} => b = a
         /\ a.status \notin Final \cup {"none"} =>
              b.inbox = Append(a.inbox, Event(t)) /\ b = [a EXCEPT !.inbox = Append(@, Event(t))]
<1>1. Event(t) \in [type : Own \cup Failing]
  BY DEF Event
<1>2. a.status # "settled"
  BY DEF OpActors, Statuses
<1> DEFINE M == [type : Own \cup Failing]
<1>3. a.inbox \in Seq(M)
  BY DEF OpActors
<1>4. Append(a.inbox, Event(t)) \in Seq(M)
  BY <1>1, <1>3
<1> DEFINE more == Append(a.inbox, Event(t))
<1> HIDE DEF M, more
<1>5. [a EXCEPT !.inbox = more] \in [status : Statuses, inbox : Seq(M), work : {"none"} \cup Working, timer : BOOLEAN]
  BY <1>4 DEF OpActors, M, more
<1>6. CASE a.status \in Final \cup {"none"}
  BY <1>6 DEF Sent
<1>7. CASE a.status \notin Final \cup {"none"}
  <2>1. Sent(a, Event(t)) = [a EXCEPT !.inbox = more]
    BY <1>2, <1>7 DEF Sent, more
  <2>2. [a EXCEPT !.inbox = more] \in OpActors
    BY <1>5 DEF OpActors, M
  <2>3. LET b == [a EXCEPT !.inbox = more] IN
          b.status = a.status /\ b.work = a.work /\ b.timer = a.timer /\ b.inbox = more
    BY DEF OpActors
  <2> QED BY <1>7, <2>1, <2>2, <2>3 DEF more
<1> QED BY <1>6, <1>7

\* What a batch actor becomes when an event is sent to it.
LEMMA SentBatch ==
  ASSUME NEW a \in BatchActors, NEW e \in [type : {"start", "cancel"}] \cup Counteds
  PROVE  LET b == Sent(a, e) IN
         /\ b \in BatchActors
         /\ b.status = a.status /\ b.pending = a.pending /\ b.results = a.results
         /\ b.granted = a.granted /\ b.refused = a.refused /\ b.invalid = a.invalid
         /\ b.refusing = a.refusing
         /\ a.status \in {"none", "settled"} => b = a
         /\ a.status \in {"ready", "running"} => b.inbox = Append(a.inbox, e)
<1> DEFINE M == [type : {"start", "cancel"}] \cup Counteds
           more == Append(a.inbox, e)
<1>1. a.inbox \in Seq(M)
  BY DEF BatchActors
<1>2. more \in Seq(M)
  BY <1>1
<1>3. a.status \in {"none", "ready", "running", "settled"}
  BY DEF BatchActors
<1> HIDE DEF M, more
<1>4. CASE a.status \in {"none", "settled"}
  BY <1>4 DEF Sent
<1>5. CASE a.status \in {"ready", "running"}
  <2>1. Sent(a, e) = [a EXCEPT !.inbox = more]
    BY <1>5 DEF Sent, Final, more
  <2>2. [a EXCEPT !.inbox = more] \in
          [status : {"none", "ready", "running", "settled"}, inbox : Seq(M),
           pending : SUBSET DOMAIN ToolOf, results : SUBSET DOMAIN ToolOf,
           granted : BOOLEAN, refused : SUBSET DOMAIN ToolOf,
           invalid : SUBSET DOMAIN ToolOf, refusing : SUBSET DOMAIN ToolOf]
    BY <1>2 DEF BatchActors, M
  <2>3. [a EXCEPT !.inbox = more] \in BatchActors
    BY <2>2 DEF BatchActors, M
  <2>4. LET b == [a EXCEPT !.inbox = more] IN
         /\ b.status = a.status /\ b.pending = a.pending /\ b.results = a.results
         /\ b.granted = a.granted /\ b.refused = a.refused /\ b.invalid = a.invalid
         /\ b.refusing = a.refusing /\ b.inbox = more
    BY DEF BatchActors
  <2> QED BY <1>5, <2>1, <2>3, <2>4 DEF more
<1> QED BY <1>3, <1>4, <1>5

\* Actors at their start and their end.
LEMMA FreshActors ==
  /\ NoOp \in OpActors /\ Quiet(NoOp) /\ NoOp.status = "none"
  /\ NoBatch \in BatchActors /\ NoGrant \in Requested
  /\ \A o, status : status \in Final =>
       /\ Over(o, status) \in OpActors /\ Over(o, status).status = status
       /\ Quiet(Over(o, status))
<1>1. << >> \in Seq([type : Own \cup Failing])
      /\ << >> \in Seq([type : {"start", "cancel"}] \cup Counteds)
  OBVIOUS
<1> DEFINE M == [type : Own \cup Failing]
           N == [type : {"start", "cancel"}] \cup Counteds
<1>2. << >> \in Seq(M) /\ << >> \in Seq(N)
  BY <1>1
<1> HIDE DEF M, N
<1>3. NoOp \in [status : Statuses, inbox : Seq(M), work : {"none"} \cup Working, timer : BOOLEAN]
  BY <1>2 DEF NoOp, Statuses
<1>4. NoOp \in OpActors /\ Quiet(NoOp) /\ NoOp.status = "none"
  BY <1>3 DEF OpActors, M, Quiet, NoOp
<1>5. NoBatch \in
          [status : {"none", "ready", "running", "settled"}, inbox : Seq(N),
           pending : SUBSET DOMAIN ToolOf, results : SUBSET DOMAIN ToolOf,
           granted : BOOLEAN, refused : SUBSET DOMAIN ToolOf,
           invalid : SUBSET DOMAIN ToolOf, refusing : SUBSET DOMAIN ToolOf]
  BY <1>2 DEF NoBatch
<1>6. NoBatch \in BatchActors
  BY <1>5 DEF BatchActors, N
<1>7. NoGrant \in Requested
  BY DEF NoGrant, Requested
<1>8. ASSUME NEW o, NEW status \in Final
      PROVE  /\ Over(o, status) \in OpActors /\ Over(o, status).status = status
             /\ Quiet(Over(o, status))
  <2>1. Over(o, status) \in [status : Statuses, inbox : Seq(M), work : {"none"} \cup Working, timer : BOOLEAN]
    BY <1>2 DEF Over, NoOp, Final, Statuses
  <2> QED BY <2>1 DEF OpActors, M, Over, NoOp, Quiet
<1> QED BY <1>4, <1>6, <1>7, <1>8

-----------------------------------------------------------------------------
\* What a decision of the turn changes

Turns == {t \in [phase : Phases, step : 0..MaxSteps, left : 0..MaxSteps] :
            t.step + t.left <= MaxSteps}

\* The settlement of the child the turn waits for.
Mine(in) == ~Idle /\ in.step = turn.step /\ in.kind = KindOf(turn.phase)

Ends == turn' \in Turns /\ turn'.phase = "idle" /\ turn'.step = turn.step

\* The turn's operation of a kind is told to stop.
Stopped(kind) == [ops EXCEPT ![<<kind, turn.step>>] = Sent(@, Event("cancel"))]

\* The turn ends with its child, or never began.
Rests(in) ==
  /\ Idle \/ (Mine(in) /\ (in.kind = "permission" => in.result # "succeeded"))
  /\ Ends /\ UNCHANGED <<ops, batches, grants, remembered>>

\* The turn ends before its operation.
GivesUp(kind) ==
  /\ turn.phase # "idle" /\ KindOf(turn.phase) = kind /\ Ends /\ ops' = Stopped(kind)
  /\ grants' = IF kind = "permission" THEN [grants EXCEPT ![turn.step] = NoGrant] ELSE grants
  /\ UNCHANGED <<batches, remembered>>

\* The next step calls the model, instead of a call that is given up, or after a batch.
Following == <<"completion", turn.step + 1>>

MovesOn(in) ==
  /\ turn.step + 1 \in Steps
  /\ turn' \in Turns /\ turn'.phase = "awaiting_model" /\ turn'.step = turn.step + 1
  /\ \/ /\ turn.phase = "awaiting_model"
        /\ ops' = [Stopped("completion") EXCEPT ![Following] = Spawned(Following)]
     \/ /\ Idle \/ (Mine(in) /\ in.kind = "batch")
        /\ ops' = [ops EXCEPT ![Following] = Spawned(Following)]
  /\ UNCHANGED <<batches, grants, remembered>>

\* The user is asked about the calls of a step.
AsksUser(in) ==
  /\ Mine(in) /\ in.kind = "completion" /\ mode.asks
  /\ turn' = [turn EXCEPT !.phase = "awaiting_permission"]
  /\ ops' = [ops EXCEPT ![Asking(turn.step)] = Spawned(Asking(turn.step))]
  /\ grants' = [grants EXCEPT ![turn.step] = [NoGrant EXCEPT !.held = TRUE]]
  /\ UNCHANGED <<batches, remembered>>

\* A batch starts with what its grant allows.
BatchOf(g) ==
  [NoBatch EXCEPT !.status = "ready", !.inbox = <<Event("start")>>, !.pending = CallSet,
                  !.granted = mode.asks, !.refused = g.refused, !.invalid = g.invalid]

Complete(g) == g.approved /\ CallSet = g.inputs \cup g.invalid \cup g.refused

RunsBatch(in) ==
  /\ Mine(in)
  /\ \/ in.kind = "completion" /\ ~mode.asks
     \/ in.kind = "permission" /\ Complete(grants[turn.step])
  /\ turn' = [turn EXCEPT !.phase = "executing_tools"]
  /\ batches' = [batches EXCEPT ![turn.step] = BatchOf(grants[turn.step])]
  /\ remembered' = remembered \cup grants[turn.step].remembered
  /\ grants' = [grants EXCEPT ![turn.step] = NoGrant]
  /\ ops' = ops

\* The turn gives up its batch, and ends now or with it.
StopsBatch ==
  /\ ~Idle /\ KindOf(turn.phase) = "batch"
  /\ \/ Ends
     \/ turn' = [turn EXCEPT !.phase = "cancelling_tools"]
  /\ batches' = [batches EXCEPT ![turn.step] = Sent(@, Event("cancel"))]
  /\ UNCHANGED <<ops, grants, remembered>>

\* A success without a grant runs nothing, and is reported as a failure.
Refuses(in) ==
  /\ Mine(in) /\ in.kind = "permission" /\ in.result = "succeeded"
  /\ ~Complete(grants[turn.step])
  /\ turn' = [turn EXCEPT !.phase = "executing_tools"]
  /\ UNCHANGED <<ops, batches, grants, remembered>>

TurnMoves(in) ==
  \/ UNCHANGED <<turn, ops, batches, grants, remembered>>
  \/ Rests(in) \/ GivesUp("completion") \/ GivesUp("permission") \/ MovesOn(in)
  \/ AsksUser(in) \/ RunsBatch(in) \/ StopsBatch \/ Refuses(in)

\* What the policy of a host is.
LEMMA ModeType ==
  ASSUME HostType
  PROVE  /\ mode.journaled \in BOOLEAN /\ mode.asks \in BOOLEAN /\ mode.tolerant \in BOOLEAN
         /\ mode.deadline \in BOOLEAN
         /\ mode.calls \in Nat /\ mode.calls \in DOMAIN Calls /\ mode.allowance \in 1..MaxSteps
         /\ MaxSteps \in Nat /\ CallSet \subseteq DOMAIN ToolOf
         /\ \A i \in 1..mode.calls : Calls[i] \in DOMAIN ToolOf
<1>1. PICK e \in Scenarios : mode = e.mode
  BY DEF HostType
<1>2. /\ {mode.journaled, mode.asks, mode.tolerant, mode.deadline} \subseteq BOOLEAN
      /\ mode.calls \in DOMAIN Calls /\ mode.allowance \in 1..MaxSteps /\ MaxSteps \in Nat
      /\ Calls \in Seq(DOMAIN ToolOf)
  BY <1>1, HostAssumption
<1>3. mode.calls \in Nat /\ \A i \in 1..mode.calls : i \in DOMAIN Calls
  BY <1>2
<1>4. \A i \in 1..mode.calls : Calls[i] \in DOMAIN ToolOf
  BY <1>2, <1>3
<1> QED BY <1>2, <1>3, <1>4 DEF CallSet

\* An operation as it is spawned.
LEMMA SpawnedOp ==
  ASSUME HostType
  PROVE  \A o : /\ Spawned(o) \in OpActors /\ Spawned(o).status = "ready"
                /\ Spawned(o).work = "none" /\ Spawned(o).inbox = <<Event("start")>>
<1> DEFINE M == [type : Own \cup Failing]
<1>1. <<Event("start")>> \in Seq(M)
  BY DEF Event, Own
<1>2. mode.deadline \in BOOLEAN
  BY ModeType
<1> HIDE DEF M
<1> TAKE o
<1>3. Spawned(o) \in [status : Statuses, inbox : Seq(M), work : {"none"} \cup Working, timer : BOOLEAN]
  BY <1>1, <1>2 DEF Spawned, NoOp, Statuses
<1> QED BY <1>3 DEF OpActors, M, Spawned, NoOp

\* Changes of what a decision works on.
World(t, o, b, g, r) ==
  [turn |-> t, ops |-> o, batches |-> b, grants |-> g, remembered |-> r]

\* The next step, unless the turn has none left.
LEMMA PreparesOn ==
  ASSUME HostType, NEW w, NEW o2 \in [Ops -> OpActors], NEW t \in Turns,
         w = [turn |-> t, ops |-> o2, batches |-> batches, grants |-> grants,
              remembered |-> remembered],
         t.step = turn.step, Become(Prepares(w))
  PROVE  /\ UNCHANGED <<batches, grants, remembered>>
         /\ \/ Ends /\ ops' = o2
            \/ /\ turn.step + 1 \in Steps
               /\ turn' \in Turns /\ turn'.phase = "awaiting_model" /\ turn'.step = turn.step + 1
               /\ ops' = [o2 EXCEPT ![Following] = Spawned(Following)]
<1>1. t.left \in Nat /\ t.step \in Nat /\ t.step + t.left <= MaxSteps /\ MaxSteps \in Nat
  BY HostAssumption DEF Turns
<1>2. CASE t.left = 0
  <2>1. Prepares(w) = [w EXCEPT !.turn.phase = "idle"]
    BY <1>2 DEF Prepares, Ended
  <2>2. turn' = [t EXCEPT !.phase = "idle"] /\ ops' = o2 /\ UNCHANGED <<batches, grants, remembered>>
    BY <2>1 DEF Become
  <2>3. turn' \in Turns /\ turn'.phase = "idle" /\ turn'.step = t.step
    BY <2>2 DEF Turns, Phases
  <2> QED BY <2>2, <2>3 DEF Ends
<1>3. CASE t.left # 0
  <2> DEFINE n == [phase |-> "awaiting_model", step |-> t.step + 1, left |-> t.left - 1]
  <2>1. Prepares(w) = [turn |-> n,
                       ops |-> [o2 EXCEPT ![<<"completion", t.step + 1>>] =
                                            Spawned(<<"completion", t.step + 1>>)],
                       batches |-> batches, grants |-> grants, remembered |-> remembered]
    BY <1>3 DEF Prepares, Spawn
  <2> DEFINE o3 == [o2 EXCEPT ![<<"completion", t.step + 1>>] =
                                            Spawned(<<"completion", t.step + 1>>)]
             r == [turn |-> n, ops |-> o3, batches |-> batches, grants |-> grants,
                   remembered |-> remembered]
  <2>4. Become(r)
    BY <2>1
  <2> HIDE DEF o3
  <2>5. turn' = n /\ ops' = o3 /\ UNCHANGED <<batches, grants, remembered>>
    BY <2>4 DEF Become
  <2>2. /\ turn' = n /\ UNCHANGED <<batches, grants, remembered>>
        /\ ops' = [o2 EXCEPT ![<<"completion", t.step + 1>>] =
                                            Spawned(<<"completion", t.step + 1>>)]
    BY <2>5 DEF o3
  <2>3. turn' \in Turns /\ turn'.phase = "awaiting_model" /\ turn'.step = turn.step + 1
        /\ turn.step + 1 \in Steps
    BY <2>2, <1>1, <1>3 DEF Turns, Phases, Steps
  <2> QED BY <2>2, <2>3 DEF Following
<1> QED BY <1>2, <1>3

\* Cancelling the child of the turn.
LEMMA ChildStops ==
  ASSUME HostType, ~Idle
  PROVE  /\ turn.phase = "awaiting_model" => CancelsChild(Now) =
              [turn |-> turn, ops |-> Stopped("completion"), batches |-> batches,
               grants |-> grants, remembered |-> remembered]
         /\ turn.phase = "awaiting_permission" => CancelsChild(Now) =
              [turn |-> turn, ops |-> Stopped("permission"), batches |-> batches,
               grants |-> [grants EXCEPT ![turn.step] = NoGrant], remembered |-> remembered]
         /\ KindOf(turn.phase) = "batch" => CancelsChild(Now) =
              [turn |-> turn, ops |-> ops,
               batches |-> [batches EXCEPT ![turn.step] = Sent(@, Event("cancel"))],
               grants |-> grants, remembered |-> remembered]
<1> DEFINE kind == KindOf(turn.phase)
           o == <<kind, turn.step>>
           told == [Now EXCEPT !.ops[o] = Sent(@, Event("cancel"))]
<1>1. o[1] = kind /\ o[2] = turn.step
  OBVIOUS
<1>2. told = [turn |-> turn, ops |-> Stopped(kind), batches |-> batches,
              grants |-> grants, remembered |-> remembered]
  BY DEF Now, Stopped
<1>3. CancelsOp(Now, o) = IF kind = "permission" THEN Revoked(told, turn.step) ELSE told
  BY <1>1 DEF CancelsOp
<1> HIDE DEF told
<1>4. CASE turn.phase = "awaiting_model"
  <2>1. kind = "completion" /\ CancelsChild(Now) = CancelsOp(Now, o)
    BY <1>4 DEF KindOf, CancelsChild, Now
  <2> QED BY <2>1, <1>2, <1>3, <1>4 DEF KindOf
<1>5. CASE turn.phase = "awaiting_permission"
  <2>1. kind = "permission" /\ CancelsChild(Now) = CancelsOp(Now, o)
    BY <1>5 DEF KindOf, CancelsChild, Now
  <2>2. Revoked(told, turn.step) = [turn |-> turn, ops |-> Stopped(kind), batches |-> batches,
               grants |-> [grants EXCEPT ![turn.step] = NoGrant], remembered |-> remembered]
    BY <1>2 DEF Revoked
  <2> QED BY <2>1, <2>2, <1>3, <1>5 DEF KindOf
<1>6. CASE KindOf(turn.phase) = "batch"
  <2>1. CancelsChild(Now) = CancelsBatch(Now, turn.step)
    BY <1>6 DEF CancelsChild, Now
  <2>2. CancelsBatch(Now, turn.step) = [turn |-> turn, ops |-> ops,
               batches |-> [batches EXCEPT ![turn.step] = Sent(@, Event("cancel"))],
               grants |-> grants, remembered |-> remembered]
    BY DEF CancelsBatch, Now
  <2>3. turn.phase # "awaiting_model" /\ turn.phase # "awaiting_permission"
    BY <1>6 DEF KindOf
  <2> QED BY <2>1, <2>2, <2>3
<1>7. turn.phase \in {"awaiting_model", "awaiting_permission"} \/ KindOf(turn.phase) = "batch"
  BY DEF KindOf
<1> QED BY <1>4, <1>5, <1>6, <1>7

\* What a user's submission does to the turn.
LEMMA UserMoves ==
  ASSUME HostType, NEW in, in.kind = "user", Become(UserApplies(Now))
  PROVE  TurnMoves(in)
<1>1. turn \in Turns /\ Now.turn = turn
  BY DEF HostType, Turns, Now
<1>2. CASE turn.phase = "idle"
  <2> DEFINE t == [turn EXCEPT !.left = Allowance(Now)]
             w == [turn |-> t, ops |-> ops, batches |-> batches, grants |-> grants,
                   remembered |-> remembered]
  <2>1. Allowance(Now) \in Nat /\ turn.step + Allowance(Now) <= MaxSteps /\ Allowance(Now) <= MaxSteps
    BY <1>1, ModeType DEF Allowance, Turns
  <2>2. t \in Turns /\ t.step = turn.step
    BY <1>1, <2>1, ModeType DEF Turns
  <2>3. [Now EXCEPT !.turn.left = Allowance(Now)] = w
    <3> DEFINE n == Allowance(Now)
    <3> HIDE DEF n
    <3>1. [Now EXCEPT !.turn.left = n] = [turn |-> [turn EXCEPT !.left = n], ops |-> ops,
             batches |-> batches, grants |-> grants, remembered |-> remembered]
      BY DEF Now
    <3> QED BY <3>1 DEF n
  <2>4. UserApplies(Now) = Prepares(w)
    BY <1>1, <1>2, <2>3 DEF UserApplies
  <2>5. Become(Prepares(w)) /\ ops \in [Ops -> OpActors]
    BY <2>4 DEF HostType
  <2> HIDE DEF t
  <2>6. /\ UNCHANGED <<batches, grants, remembered>>
        /\ \/ Ends /\ ops' = ops
           \/ /\ turn.step + 1 \in Steps
              /\ turn' \in Turns /\ turn'.phase = "awaiting_model" /\ turn'.step = turn.step + 1
              /\ ops' = [ops EXCEPT ![Following] = Spawned(Following)]
    BY <2>2, <2>5, PreparesOn
  <2> QED BY <2>6, <1>2 DEF TurnMoves, Rests, MovesOn, Idle
<1>3. CASE turn.phase = "awaiting_model"
  <2>1. CancelsChild(Now) = [turn |-> turn, ops |-> Stopped("completion"), batches |-> batches,
               grants |-> grants, remembered |-> remembered]
    BY <1>3, ChildStops DEF Idle
  <2>2. UserApplies(Now) = Prepares(CancelsChild(Now))
    BY <1>1, <1>3 DEF UserApplies
  <2>3. Stopped("completion") \in [Ops -> OpActors]
    <3>1. turn.step \in Steps /\ <<"completion", turn.step>> \in Ops
      BY <1>3, OpNames DEF HostType, Idle
    <3>2. Sent(ops[<<"completion", turn.step>>], Event("cancel")) \in OpActors
      BY <3>1, SentOp DEF HostType, Failing
    <3> QED BY <3>1, <3>2 DEF Stopped, HostType
  <2>4. /\ UNCHANGED <<batches, grants, remembered>>
        /\ \/ Ends /\ ops' = Stopped("completion")
           \/ /\ turn.step + 1 \in Steps
              /\ turn' \in Turns /\ turn'.phase = "awaiting_model" /\ turn'.step = turn.step + 1
              /\ ops' = [Stopped("completion") EXCEPT ![Following] = Spawned(Following)]
    BY <1>1, <2>1, <2>2, <2>3, PreparesOn
  <2> QED BY <2>4, <1>3 DEF TurnMoves, GivesUp, MovesOn, Idle, KindOf
<1>4. CASE turn.phase \notin {"idle", "awaiting_model"}
  <2>1. UserApplies(Now) = Now
    BY <1>1, <1>4 DEF UserApplies
  <2> QED BY <2>1 DEF Become, Now, TurnMoves
<1> QED BY <1>2, <1>3, <1>4

\* What an abort does to the turn.
LEMMA AbortMoves ==
  ASSUME HostType, NEW in, Become(AbortApplies(Now))
  PROVE  TurnMoves(in)
<1>1. turn \in Turns /\ Now.turn = turn
  BY DEF HostType, Turns, Now
<1>2. CASE turn.phase = "executing_tools"
  <2>1. CancelsChild(Now) = [turn |-> turn, ops |-> ops,
               batches |-> [batches EXCEPT ![turn.step] = Sent(@, Event("cancel"))],
               grants |-> grants, remembered |-> remembered]
    BY <1>2, ChildStops DEF Idle, KindOf
  <2>2. AbortApplies(Now) = [CancelsChild(Now) EXCEPT !.turn.phase = "cancelling_tools"]
    BY <1>1, <1>2 DEF AbortApplies
  <2> DEFINE b == [batches EXCEPT ![turn.step] = Sent(@, Event("cancel"))]
  <2>3. AbortApplies(Now) = [turn |-> [turn EXCEPT !.phase = "cancelling_tools"], ops |-> ops,
               batches |-> b, grants |-> grants, remembered |-> remembered]
    BY <2>1, <2>2
  <2> HIDE DEF b
  <2>4. turn' = [turn EXCEPT !.phase = "cancelling_tools"] /\ batches' = b
        /\ UNCHANGED <<ops, grants, remembered>>
    BY <2>3 DEF Become
  <2>5. StopsBatch
    BY <2>4, <1>2 DEF StopsBatch, Idle, KindOf, b
  <2> QED BY <2>5 DEF TurnMoves
<1>3. CASE turn.phase \in {"awaiting_model", "awaiting_permission"}
  <2>1. AbortApplies(Now) = [CancelsChild(Now) EXCEPT !.turn.phase = "idle"]
    BY <1>1, <1>3 DEF AbortApplies, Ended
  <2> DEFINE kind == KindOf(turn.phase)
             g == IF kind = "permission" THEN [grants EXCEPT ![turn.step] = NoGrant] ELSE grants
             p == Stopped(kind)
  <2>2. CancelsChild(Now) = [turn |-> turn, ops |-> p, batches |-> batches,
               grants |-> g, remembered |-> remembered]
    BY <1>3, ChildStops DEF KindOf, Idle
  <2> HIDE DEF g, p
  <2>3. AbortApplies(Now) = [turn |-> [turn EXCEPT !.phase = "idle"], ops |-> p,
               batches |-> batches, grants |-> g, remembered |-> remembered]
    BY <2>1, <2>2
  <2>4. turn' = [turn EXCEPT !.phase = "idle"] /\ ops' = p /\ grants' = g
        /\ UNCHANGED <<batches, remembered>>
    BY <2>3 DEF Become
  <2>5. Ends
    BY <2>4, <1>1 DEF Ends, Turns, Phases
  <2>6. GivesUp(kind) /\ kind \in {"completion", "permission"}
    BY <2>4, <2>5, <1>3 DEF GivesUp, g, p, KindOf
  <2> QED BY <2>6 DEF TurnMoves
<1>4. CASE turn.phase \notin {"executing_tools", "awaiting_model", "awaiting_permission"}
  <2>1. AbortApplies(Now) = Now
    BY <1>1, <1>4 DEF AbortApplies
  <2> QED BY <2>1 DEF Become, Now, TurnMoves
<1> QED BY <1>2, <1>3, <1>4

\* What a settlement does to the turn that waits for it.
LEMMA SettlementMoves ==
  ASSUME HostType, NEW in \in Settlements, Accepts(in), Become(Applied(in, Now))
  PROVE  TurnMoves(in)
<1>1. turn \in Turns /\ Now.turn = turn
  BY DEF HostType, Turns, Now
<1>2. ~Idle /\ in.step = turn.step /\ turn.step \in Steps
      /\ KindOf(turn.phase) = IF in.kind = "failed" THEN in.result ELSE in.kind
  BY DEF Accepts, Settlements, HostType
<1>3. \A w : w = [turn |-> turn, ops |-> ops, batches |-> batches, grants |-> grants,
                  remembered |-> remembered] =>
         w.turn = turn /\ w.grants = grants /\ w.turn.step = turn.step
  OBVIOUS
<1>4. Mine(in) /\ (in.kind = "permission" => in.result # "succeeded") /\ Become(Ended(Now))
        => Rests(in)
  <2> SUFFICES ASSUME Mine(in), in.kind = "permission" => in.result # "succeeded",
                      Become(Ended(Now))
               PROVE  Rests(in)
    OBVIOUS
  <2>1. Ended(Now) = [turn |-> [turn EXCEPT !.phase = "idle"], ops |-> ops, batches |-> batches,
                      grants |-> grants, remembered |-> remembered]
    BY DEF Ended, Now
  <2>2. turn' = [turn EXCEPT !.phase = "idle"] /\ UNCHANGED <<ops, batches, grants, remembered>>
    BY <2>1 DEF Become
  <2>3. Ends
    BY <2>2, <1>1 DEF Ends, Turns, Phases
  <2> QED BY <2>2, <2>3 DEF Rests
<1>5. Mine(in) /\ Become(RunsTools(Now))
        /\ (\/ in.kind = "completion" /\ ~mode.asks
            \/ in.kind = "permission" /\ Granted(Now)) => RunsBatch(in)
  <2> SUFFICES ASSUME Mine(in), Become(RunsTools(Now)),
                      \/ in.kind = "completion" /\ ~mode.asks
                      \/ in.kind = "permission" /\ Granted(Now)
               PROVE  RunsBatch(in)
    OBVIOUS
  <2> DEFINE g == grants[turn.step]
             b == [batches EXCEPT ![turn.step] = BatchOf(g)]
             h == [grants EXCEPT ![turn.step] = NoGrant]
             r == remembered \cup g.remembered
  <2>5. /\ Now.turn.step = turn.step /\ Now.grants[turn.step] = g
        /\ Now = [turn |-> turn, ops |-> ops, batches |-> batches, grants |-> grants,
                  remembered |-> remembered]
    BY DEF Now
  <2>6. RunsTools(Now) = [Now EXCEPT
            !.turn.phase = "executing_tools", !.batches[turn.step] = BatchOf(g),
            !.remembered = @ \cup g.remembered, !.grants[turn.step] = NoGrant]
    <3> HIDE DEF g
    <3> QED BY <2>5 DEF RunsTools, BatchOf
  <2>7. [Now EXCEPT
            !.turn.phase = "executing_tools", !.batches[turn.step] = BatchOf(g),
            !.remembered = @ \cup g.remembered, !.grants[turn.step] = NoGrant]
         = [turn |-> [turn EXCEPT !.phase = "executing_tools"], ops |-> ops,
            batches |-> b, grants |-> h, remembered |-> r]
    <3> DEFINE bg == BatchOf(g)
               gr == g.remembered
    <3> HIDE DEF bg, gr, g
    <3> DEFINE w0 == World(turn, ops, batches, grants, remembered)
               w1 == [w0 EXCEPT !.turn.phase = "executing_tools"]
               w2 == [w1 EXCEPT !.batches[turn.step] = bg]
               w3 == [w2 EXCEPT !.remembered = @ \cup gr]
               w4 == [w3 EXCEPT !.grants[turn.step] = NoGrant]
               t1 == [turn EXCEPT !.phase = "executing_tools"]
               b1 == [batches EXCEPT ![turn.step] = bg]
               g1 == [grants EXCEPT ![turn.step] = NoGrant]
    <3>2. Now = w0
      BY <2>5 DEF World
    <3>3. w1 = World(t1, ops, batches, grants, remembered)
      BY DEF World
    <3> HIDE DEF w1
    <3>4. w2 = World(t1, ops, b1, grants, remembered)
      BY <3>3 DEF World
    <3> HIDE DEF w2, t1, b1, g1
    <3>5. w3 = World(t1, ops, b1, grants, remembered \cup gr)
      BY <3>4 DEF World
    <3> HIDE DEF w3
    <3>6. w4 = World(t1, ops, b1, g1, remembered \cup gr)
      BY <3>5 DEF World, g1
    <3> USE DEF w1, w2, w3
    <3> HIDE DEF w0
    <3>7. [Now EXCEPT
            !.turn.phase = "executing_tools", !.batches[turn.step] = bg,
            !.remembered = @ \cup gr, !.grants[turn.step] = NoGrant] = w4
      BY <3>2
    <3> HIDE DEF w1, w2, w3, w4
    <3>1. [Now EXCEPT
            !.turn.phase = "executing_tools", !.batches[turn.step] = bg,
            !.remembered = @ \cup gr, !.grants[turn.step] = NoGrant]
         = [turn |-> t1, ops |-> ops, batches |-> b1, grants |-> g1,
            remembered |-> remembered \cup gr]
      BY <3>6, <3>7 DEF World
    <3> USE DEF t1, b1, g1
    <3> QED BY <3>1 DEF bg, gr
  <2>1. RunsTools(Now) = [turn |-> [turn EXCEPT !.phase = "executing_tools"], ops |-> ops,
                          batches |-> b, grants |-> h, remembered |-> r]
    BY <2>6, <2>7
  <2>2. Granted(Now) => Complete(g)
    BY DEF Granted, Now, Complete
  <2> HIDE DEF b, h, r
  <2>3. turn' = [turn EXCEPT !.phase = "executing_tools"] /\ ops' = ops /\ batches' = b
        /\ grants' = h /\ remembered' = r
    BY <2>1 DEF Become
  <2> QED BY <2>2, <2>3 DEF RunsBatch, b, h, r
<1>6. CASE in.kind = "failed"
  <2>1. KindOf(turn.phase) = "batch"
    BY <1>2, <1>6 DEF Settlements
  <2> DEFINE b == [batches EXCEPT ![turn.step] = Sent(@, Event("cancel"))]
  <2>2. CancelsChild(Now) = [turn |-> turn, ops |-> ops, batches |-> b, grants |-> grants,
                             remembered |-> remembered]
    BY <1>2, <2>1, ChildStops
  <2>3. Applied(in, Now) = [CancelsChild(Now) EXCEPT !.turn.phase = "idle"]
    BY <1>6 DEF Applied, Ended
  <2> HIDE DEF b
  <2>4. Applied(in, Now) = [turn |-> [turn EXCEPT !.phase = "idle"], ops |-> ops, batches |-> b,
                            grants |-> grants, remembered |-> remembered]
    BY <2>2, <2>3
  <2>5. turn' = [turn EXCEPT !.phase = "idle"] /\ batches' = b /\ UNCHANGED <<ops, grants, remembered>>
    BY <2>4 DEF Become
  <2>6. Ends
    BY <2>5, <1>1 DEF Ends, Turns, Phases
  <2>7. StopsBatch
    BY <2>1, <2>5, <2>6, <1>2 DEF StopsBatch, b
  <2> QED BY <2>7 DEF TurnMoves
<1>7. CASE in.kind = "completion"
  <2>1. Mine(in)
    BY <1>2, <1>7 DEF Mine
  <2>2. CASE in.result # "tools"
    BY <1>4, <1>7, <2>1, <2>2 DEF Applied, TurnMoves
  <2>3. CASE in.result = "tools" /\ ~mode.asks
    BY <1>5, <1>7, <2>1, <2>3 DEF Applied, TurnMoves
  <2>4. CASE in.result = "tools" /\ mode.asks
    <3> DEFINE o2 == [ops EXCEPT ![Asking(turn.step)] = Spawned(Asking(turn.step))]
               h == [grants EXCEPT ![turn.step] = [NoGrant EXCEPT !.held = TRUE]]
    <3>1. Requests(Now) = [turn |-> [turn EXCEPT !.phase = "awaiting_permission"], ops |-> o2,
                           batches |-> batches, grants |-> h, remembered |-> remembered]
      <4>1. /\ Now.turn.step = turn.step
            /\ Now = [turn |-> turn, ops |-> ops, batches |-> batches, grants |-> grants,
                      remembered |-> remembered]
        BY DEF Now
      <4> DEFINE sp == Spawned(Asking(turn.step))
                 hg == [NoGrant EXCEPT !.held = TRUE]
      <4>2. Spawn(Now, Asking(turn.step)) = [Now EXCEPT !.ops[Asking(turn.step)] = sp]
        BY DEF Spawn
      <4>3. Requests(Now) = [Spawn(Now, Asking(turn.step)) EXCEPT
                !.turn.phase = "awaiting_permission", !.grants[turn.step] = hg]
        BY <4>1 DEF Requests, Asking
      <4> HIDE DEF sp, hg
      <4> DEFINE o1 == [ops EXCEPT ![Asking(turn.step)] = sp]
                 t1 == [turn EXCEPT !.phase = "awaiting_permission"]
                 w1 == [Now EXCEPT !.ops[Asking(turn.step)] = sp]
                 w2 == [w1 EXCEPT !.turn.phase = "awaiting_permission"]
                 w3 == [w2 EXCEPT !.grants[turn.step] = hg]
      <4>4. Now = World(turn, ops, batches, grants, remembered)
        BY <4>1 DEF World
      <4>5. w1 = World(turn, o1, batches, grants, remembered)
        BY <4>4 DEF World
      <4> HIDE DEF w1
      <4>6. w2 = World(t1, o1, batches, grants, remembered)
        BY <4>5 DEF World
      <4> HIDE DEF w2
      <4>7. w3 = World(t1, o1, batches, [grants EXCEPT ![turn.step] = hg], remembered)
        BY <4>6 DEF World
      <4> USE DEF w1, w2
      <4>8. Requests(Now) = w3
        BY <4>2, <4>3
      <4> HIDE DEF w1, w2, w3
      <4> QED BY <4>7, <4>8 DEF World, sp, hg
    <3>2. Applied(in, Now) = Requests(Now)
      BY <1>7, <2>4 DEF Applied
    <3> HIDE DEF o2, h
    <3>3. turn' = [turn EXCEPT !.phase = "awaiting_permission"] /\ ops' = o2 /\ grants' = h
          /\ UNCHANGED <<batches, remembered>>
      BY <3>1, <3>2 DEF Become
    <3>4. AsksUser(in)
      BY <2>1, <2>4, <1>7, <3>3 DEF AsksUser, o2, h
    <3> QED BY <3>4 DEF TurnMoves
  <2> QED BY <2>2, <2>3, <2>4
<1>8. CASE in.kind = "permission"
  <2>1. Mine(in)
    BY <1>2, <1>8 DEF Mine
  <2>2. CASE in.result # "succeeded"
    <3>1. Applied(in, Now) = Ended(Now)
      BY <1>8, <2>2 DEF Applied
    <3> QED BY <3>1, <1>4, <2>1, <2>2 DEF TurnMoves
  <2>3. CASE in.result = "succeeded" /\ Granted(Now)
    <3>1. Applied(in, Now) = RunsTools(Now)
      BY <1>8, <2>3 DEF Applied
    <3> QED BY <3>1, <1>5, <1>8, <2>1, <2>3 DEF TurnMoves
  <2>4. CASE in.result = "succeeded" /\ ~Granted(Now)
    <3>1. Applied(in, Now) = [Now EXCEPT !.turn.phase = "executing_tools"]
      BY <1>8, <2>4 DEF Applied
    <3>2. [Now EXCEPT !.turn.phase = "executing_tools"] =
            [turn |-> [turn EXCEPT !.phase = "executing_tools"], ops |-> ops,
             batches |-> batches, grants |-> grants, remembered |-> remembered]
      BY DEF Now
    <3>3. turn' = [turn EXCEPT !.phase = "executing_tools"]
          /\ UNCHANGED <<ops, batches, grants, remembered>>
      BY <3>1, <3>2 DEF Become
    <3>4. Refuses(in)
      BY <2>1, <2>4, <1>8, <3>3 DEF Refuses, Granted, Complete, Now
    <3> QED BY <3>4 DEF TurnMoves
  <2> QED BY <2>2, <2>3, <2>4
<1>9. CASE in.kind = "batch"
  <2>1. Mine(in)
    BY <1>2, <1>9 DEF Mine
  <2>2. CASE ~(in.result = "succeeded" /\ turn.phase = "executing_tools")
    <3>1. Applied(in, Now) = Ended(Now)
      BY <1>1, <1>9, <2>2 DEF Applied
    <3> QED BY <3>1, <1>4, <1>9, <2>1 DEF TurnMoves
  <2>3. CASE in.result = "succeeded" /\ turn.phase = "executing_tools"
    <3>1. Applied(in, Now) = Prepares(Now)
      BY <1>1, <1>9, <2>3 DEF Applied
    <3>2. Now = [turn |-> turn, ops |-> ops, batches |-> batches, grants |-> grants,
                 remembered |-> remembered] /\ ops \in [Ops -> OpActors]
      BY DEF Now, HostType
    <3>3. Become(Prepares(Now))
      BY <3>1
    <3>4. /\ UNCHANGED <<batches, grants, remembered>>
          /\ \/ Ends /\ ops' = ops
             \/ /\ turn.step + 1 \in Steps
                /\ turn' \in Turns /\ turn'.phase = "awaiting_model" /\ turn'.step = turn.step + 1
                /\ ops' = [ops EXCEPT ![Following] = Spawned(Following)]
      BY <3>2, <3>3, <1>1, PreparesOn
    <3>5. Rests(in) \/ MovesOn(in)
      BY <3>4, <2>1, <1>9 DEF Rests, MovesOn
    <3> QED BY <3>5 DEF TurnMoves
  <2> QED BY <2>2, <2>3
<1> QED BY <1>6, <1>7, <1>8, <1>9 DEF Settlements

\* What a decision of the session changes.
LEMMA ActsCases ==
  ASSUME HostType, NEW in \in Submissions, Accepts(in), Acts(in)
  PROVE  \/ /\ in \in Results /\ turn.phase = "executing_tools" /\ in.step = turn.step
            /\ batches' = Released(in.step, in.call, batches)
            /\ unreleased' = Forgotten(in.step, in.call)
            /\ partial' = [partial EXCEPT ![in.call] = in.result]
            /\ UNCHANGED <<turn, ops, grants, remembered>>
         \/ /\ in \notin Results /\ TurnMoves(in) /\ UNCHANGED unreleased
            /\ partial' \in {partial, NoResults}
<1>1. CASE in.kind = "tool"
  <2>1. in \in Results
    BY <1>1 DEF Submissions, Settlements, Results
  <2>2. turn.phase = "executing_tools" /\ in.step = turn.step
    BY <1>1 DEF Accepts
  <2> QED BY <1>1, <2>1, <2>2 DEF Acts
<1>2. CASE in.kind # "tool"
  <2>1. in \notin Results
    BY <1>2 DEF Results
  <2>2. Become(Applied(in, Now)) /\ UNCHANGED unreleased /\ partial' \in {partial, NoResults}
    BY <1>2 DEF Acts
  <2>3. TurnMoves(in)
    <3>1. CASE in.kind = "user"
      BY <3>1, <2>2, UserMoves DEF Applied
    <3>2. CASE in.kind = "abort"
      BY <3>2, <2>2, AbortMoves DEF Applied
    <3>3. CASE in \in Settlements
      BY <3>3, <2>2, SettlementMoves
    <3>4. in.kind \in {"user", "abort"} \/ in \in Settlements
      BY <2>1 DEF Submissions
    <3> QED BY <3>1, <3>2, <3>3, <3>4
  <2> QED BY <2>1, <2>2, <2>3
<1> QED BY <1>1, <1>2

-----------------------------------------------------------------------------
\* Types

\* The event at the head of an operation's inbox, and where it leads.
LEMMA VerdictCases ==
  ASSUME HostType, OperationInv, NEW o \in Ops, Live(o), Pending(ops[o])
  PROVE  LET a == ops[o]
             e == Head(a.inbox)
         IN /\ e = a.inbox[1] /\ 1 \in DOMAIN a.inbox /\ e.type \in Own \cup Failing
            /\ e.type \in Failing => Verdict(o, e) \in {"failed", "cancelled"}
            /\ e.type \in Own =>
                 /\ e.type = Advances[a.status] /\ a.work = "none"
                 /\ a.status \in {"ready"} \cup Working /\ Verdict(o, e) = After[a.status]
                 /\ \A i \in DOMAIN Tail(a.inbox) : Tail(a.inbox)[i].type \notin Own
<1> DEFINE a == ops[o]
           e == Head(a.inbox)
           M == [type : Own \cup Failing]
<1>1. a \in OpActors /\ Ordered(a)
  BY DEF HostType, OperationInv
<1>2. a.inbox \in Seq(M) /\ a.inbox # << >> /\ a.status \in Statuses
  BY <1>1 DEF OpActors, Pending
<1>3. /\ e = a.inbox[1] /\ 1 \in DOMAIN a.inbox /\ e \in M
      /\ \A i \in DOMAIN Tail(a.inbox) : i + 1 \in DOMAIN a.inbox /\ i + 1 # 1
                                         /\ Tail(a.inbox)[i] = a.inbox[i + 1]
  <2> HIDE DEF M, a
  <2> QED BY <1>2, Beheaded
<1>4. e.type \in Own \cup Failing
  BY <1>3
<1>5. a.status \in {"ready"} \cup Working
  BY <1>2 DEF Live, Statuses, Working, Final
<1>6. ASSUME e.type \in Failing PROVE Verdict(o, e) \in {"failed", "cancelled"}
  <2>1. e.type \notin Own
    BY <1>6 DEF Own, Failing
  <2>2. Advances[a.status] \in Own
    BY <1>5 DEF Advances, Own, Working
  <2>3. CASE e.type = "cancel"
    BY <2>3, <2>1, <2>2 DEF Verdict
  <2>4. CASE e.type \in {"failed", "timeout"}
    BY <2>4, <2>1, <2>2 DEF Verdict
  <2> QED BY <1>6, <2>3, <2>4 DEF Failing
<1>7. ASSUME e.type \in Own
      PROVE  /\ e.type = Advances[a.status] /\ a.work = "none"
             /\ Verdict(o, e) = After[a.status]
             /\ \A i \in DOMAIN Tail(a.inbox) : Tail(a.inbox)[i].type \notin Own
  <2>1. e.type = Advances[a.status] /\ a.work = "none"
        /\ \A j \in DOMAIN a.inbox : a.inbox[j].type \in Own => 1 = j
    BY <1>1, <1>3, <1>7 DEF Ordered
  <2>2. e.type \notin Failing
    BY <1>7 DEF Own, Failing
  <2>3. Verdict(o, e) = After[a.status]
    BY <2>1, <2>2 DEF Verdict, Failing
  <2> QED BY <2>1, <2>3, <1>3
<1> QED BY <1>3, <1>4, <1>5, <1>6, <1>7

\* Outcomes count as settlements do.
LEMMA CountsFinal ==
  ASSUME NEW r \in Outcomes
  PROVE  Counts(r) \in Final
BY DEF Counts, Outcomes, Final

\* What an outcome that may count does to the batches.
LEMMA ReleasedBatches ==
  ASSUME HostType, NEW s \in Steps, NEW c \in DOMAIN ToolOf, NEW known \in [Steps -> BatchActors]
  PROVE  \/ Released(s, c, known) = known
         \/ \E p \in unreleased, result \in Final :
              /\ p.step = s /\ p.call = c
              /\ Counted(c, result) \in Counteds
              /\ Released(s, c, known) = [known EXCEPT ![s] = Sent(@, Counted(c, result))]
<1>1. CASE \E p \in unreleased : p.step = s /\ p.call = c
  <2> DEFINE q == CHOOSE p \in unreleased : p.step = s /\ p.call = c
  <2>1. q \in unreleased /\ q.step = s /\ q.call = c
    BY <1>1
  <2>2. q.result \in Outcomes
    BY <2>1 DEF HostType
  <2> DEFINE r == Counts(q.result)
  <2>3. r \in Final
    BY <2>2, CountsFinal
  <2>4. Released(s, c, known) = [known EXCEPT ![s] = Sent(@, Counted(c, r))]
    BY <1>1 DEF Released
  <2>5. Counted(c, r) \in Counteds
    BY <2>3 DEF Counted, Counteds
  <2> HIDE DEF q, r
  <2> QED BY <2>1, <2>3, <2>4, <2>5
<1>2. CASE ~ \E p \in unreleased : p.step = s /\ p.call = c
  BY <1>2 DEF Released
<1> QED BY <1>1, <1>2

\* The parts of the state a decision of the turn changes keep their types.
LEMMA TurnTypes ==
  ASSUME HostType, NEW in \in Submissions, TurnMoves(in)
  PROVE  /\ turn' \in Turns /\ (turn'.phase # "idle" => turn'.step \in Steps)
         /\ ops' \in [Ops -> OpActors] /\ batches' \in [Steps -> BatchActors]
         /\ grants' \in [Steps -> Requested] /\ remembered' \subseteq Tools
<1>1. /\ turn \in Turns /\ (~Idle => turn.step \in Steps)
      /\ ops \in [Ops -> OpActors] /\ batches \in [Steps -> BatchActors]
      /\ grants \in [Steps -> Requested] /\ remembered \subseteq Tools
  BY DEF HostType, Turns
<1>2. \A kind \in {"completion", "permission"} : ~Idle => Stopped(kind) \in [Ops -> OpActors]
  <2> SUFFICES ASSUME NEW kind \in {"completion", "permission"}, ~Idle
               PROVE  Stopped(kind) \in [Ops -> OpActors]
    OBVIOUS
  <2>1. <<kind, turn.step>> \in Ops
    BY <1>1, OpNames
  <2>2. Sent(ops[<<kind, turn.step>>], Event("cancel")) \in OpActors
    BY <1>1, <2>1, SentOp DEF Failing
  <2> QED BY <1>1, <2>1, <2>2 DEF Stopped
<1>3. NoGrant \in Requested
  BY FreshActors
<1>12. \A o : Spawned(o) \in OpActors
  BY SpawnedOp
<1>4. CASE UNCHANGED <<turn, ops, batches, grants, remembered>>
  BY <1>1, <1>4 DEF Idle
<1>5. CASE Rests(in)
  BY <1>1, <1>5 DEF Rests, Ends
<1>6. CASE GivesUp("completion") \/ GivesUp("permission")
  BY <1>1, <1>2, <1>3, <1>6 DEF GivesUp, Ends, Idle
<1>7. CASE MovesOn(in)
  <2>1. Following \in Ops /\ Spawned(Following) \in OpActors
    BY <1>7, <1>12, OpNames DEF MovesOn, Following
  <2> QED BY <1>1, <1>2, <1>7, <2>1 DEF MovesOn, Idle
<1>8. CASE AsksUser(in)
  <2>1. Asking(turn.step) \in Ops /\ Spawned(Asking(turn.step)) \in OpActors
    BY <1>1, <1>8, <1>12, OpNames DEF AsksUser, Mine, Asking
  <2>2. [NoGrant EXCEPT !.held = TRUE] \in Requested
    BY <1>3 DEF Requested
  <2>3. turn' \in Turns /\ turn'.step = turn.step
    BY <1>1, <1>8 DEF AsksUser, Turns, Phases
  <2> QED BY <1>1, <1>8, <2>1, <2>2, <2>3 DEF AsksUser, Mine
<1>9. CASE RunsBatch(in)
  <2> DEFINE g == grants[turn.step]
  <2>1. g \in Requested
    BY <1>1, <1>9 DEF RunsBatch, Mine
  <2>2. BatchOf(g) \in BatchActors
    <3> DEFINE M == [type : {"start", "cancel"}] \cup Counteds
    <3>1. <<Event("start")>> \in Seq(M)
      BY DEF Event
    <3> HIDE DEF M
    <3>2. g.refused \subseteq DOMAIN ToolOf /\ g.invalid \subseteq DOMAIN ToolOf
      BY <2>1 DEF Requested
    <3> HIDE DEF g
    <3>3. BatchOf(g) \in [status : {"none", "ready", "running", "settled"}, inbox : Seq(M),
           pending : SUBSET DOMAIN ToolOf, results : SUBSET DOMAIN ToolOf,
           granted : BOOLEAN, refused : SUBSET DOMAIN ToolOf,
           invalid : SUBSET DOMAIN ToolOf, refusing : SUBSET DOMAIN ToolOf]
      BY <3>1, <3>2, ModeType DEF BatchOf, NoBatch
    <3> QED BY <3>3 DEF BatchActors, M
  <2>3. turn' \in Turns /\ turn'.step = turn.step
    BY <1>1, <1>9 DEF RunsBatch, Turns, Phases
  <2>4. g.remembered \subseteq Tools
    BY <2>1 DEF Requested
  <2> QED BY <1>1, <1>3, <1>9, <2>2, <2>3, <2>4 DEF RunsBatch, Mine
<1>10. CASE StopsBatch
  <2>1. Event("cancel") \in [type : {"start", "cancel"}] \cup Counteds
    BY DEF Event
  <2>2. Sent(batches[turn.step], Event("cancel")) \in BatchActors
    BY <1>1, <1>10, <2>1, SentBatch DEF StopsBatch
  <2>3. turn' \in Turns /\ (turn'.phase # "idle" => turn'.step \in Steps)
    <3>1. CASE Ends
      BY <3>1 DEF Ends
    <3>2. CASE turn' = [turn EXCEPT !.phase = "cancelling_tools"]
      BY <1>1, <1>10, <3>2 DEF Turns, Phases, StopsBatch
    <3> QED BY <1>10, <3>1, <3>2 DEF StopsBatch
  <2> QED BY <1>1, <1>10, <2>2, <2>3 DEF StopsBatch
<1>11. CASE Refuses(in)
  <2>1. turn' \in Turns /\ turn'.step = turn.step
    BY <1>1, <1>11 DEF Refuses, Turns, Phases
  <2> QED BY <1>1, <1>11, <2>1 DEF Refuses, Mine
<1> QED BY <1>4, <1>5, <1>6, <1>7, <1>8, <1>9, <1>10, <1>11 DEF TurnMoves

\* A decision keeps types.
LEMMA ActsTypes ==
  ASSUME HostType, NEW in \in Submissions, Accepts(in), Acts(in)
  PROVE  /\ turn' \in Turns /\ (turn'.phase # "idle" => turn'.step \in Steps)
         /\ ops' \in [Ops -> OpActors] /\ batches' \in [Steps -> BatchActors]
         /\ grants' \in [Steps -> Requested] /\ remembered' \subseteq Tools
         /\ partial' \in [DOMAIN ToolOf -> Outcomes \cup {"none"}]
         /\ unreleased' \subseteq unreleased
<1>1. /\ turn \in Turns /\ (~Idle => turn.step \in Steps)
      /\ ops \in [Ops -> OpActors] /\ batches \in [Steps -> BatchActors]
      /\ grants \in [Steps -> Requested] /\ remembered \subseteq Tools
      /\ partial \in [DOMAIN ToolOf -> Outcomes \cup {"none"}]
  BY DEF HostType, Turns
<1>2. CASE /\ in \in Results /\ turn.phase = "executing_tools" /\ in.step = turn.step
           /\ batches' = Released(in.step, in.call, batches)
           /\ unreleased' = Forgotten(in.step, in.call)
           /\ partial' = [partial EXCEPT ![in.call] = in.result]
           /\ UNCHANGED <<turn, ops, grants, remembered>>
  <2>1. in.step \in Steps /\ in.call \in DOMAIN ToolOf /\ in.result \in Outcomes
    BY <1>2 DEF Results
  <2>2. batches' \in [Steps -> BatchActors]
    <3>0. \/ Released(in.step, in.call, batches) = batches
          \/ \E p \in unreleased, result \in Final :
               /\ Counted(in.call, result) \in Counteds
               /\ Released(in.step, in.call, batches)
                    = [batches EXCEPT ![in.step] = Sent(@, Counted(in.call, result))]
      BY <1>1, <2>1, ReleasedBatches
    <3>1. \/ batches' = batches
          \/ \E result \in Final :
               /\ Counted(in.call, result) \in Counteds
               /\ batches' = [batches EXCEPT ![in.step] = Sent(@, Counted(in.call, result))]
      BY <1>2, <3>0
    <3>2. ASSUME NEW result \in Final, Counted(in.call, result) \in Counteds,
                 batches' = [batches EXCEPT ![in.step] = Sent(@, Counted(in.call, result))]
          PROVE  batches' \in [Steps -> BatchActors]
      <4>1. Sent(batches[in.step], Counted(in.call, result)) \in BatchActors
        BY <1>1, <2>1, <3>2, SentBatch
      <4> QED BY <1>1, <3>2, <4>1
    <3> QED BY <1>1, <3>1, <3>2
  <2>3. unreleased' \subseteq unreleased
    BY <1>2 DEF Forgotten
  <2>4. partial' \in [DOMAIN ToolOf -> Outcomes \cup {"none"}]
    BY <1>1, <1>2, <2>1
  <2> QED BY <1>1, <1>2, <2>2, <2>3, <2>4 DEF Idle
<1>3. CASE in \notin Results /\ TurnMoves(in) /\ UNCHANGED unreleased
           /\ partial' \in {partial, NoResults}
  <2>1. NoResults \in [DOMAIN ToolOf -> Outcomes \cup {"none"}]
    BY DEF NoResults
  <2> QED BY <1>1, <1>3, <2>1, TurnTypes
<1> QED BY <1>2, <1>3, ActsCases

\* What a dispatch throws is a submission.
LEMMA ThrownType ==
  ASSUME HostType, NEW in, Accepts(in)
  PROVE  Thrown(in) \in Seq(Submissions)
<1>1. CASE in.kind = "permission"
  <2>1. turn.step \in Steps
    BY <1>1 DEF Accepts, HostType
  <2>2. Settled("failed", turn.step, "batch") \in Submissions
    BY <2>1 DEF Settled, Submissions, Settlements
  <2> HIDE DEF Submissions
  <2> QED BY <2>2 DEF Thrown
<1>2. CASE in.kind # "permission"
  BY <1>2 DEF Thrown
<1> QED BY <1>1, <1>2

\* Closing tells what runs to stop.
LEMMA ClosesTypes ==
  ASSUME HostType, Closes
  PROVE  HostType'
<1>1. \A o \in Ops : Sent(ops[o], Event("cancel")) \in OpActors
  BY SentOp DEF HostType, Failing
<1>2. Event("cancel") \in [type : {"start", "cancel"}] \cup Counteds
  BY DEF Event
<1>3. \A s \in Steps : Sent(batches[s], Event("cancel")) \in BatchActors
  BY <1>2, SentBatch DEF HostType
<1>4. ops' \in [Ops -> OpActors] /\ batches' \in [Steps -> BatchActors]
  BY <1>1, <1>3 DEF Closes
<1>5. grants' \in [Steps -> Requested]
  BY FreshActors DEF Closes
<1> QED BY <1>4, <1>5 DEF Closes, HostType, Idle

\* The session and its user keep types.
LEMMA SessionTypes ==
  ASSUME HostType, Appending,
         Session \/ SessionEnds \/ ResetPermissions \/ Prompts \/ BargesIn \/ Aborts
  PROVE  HostType'
<1>1. inbox # << >> => Head(inbox) \in Submissions /\ Tail(inbox) \in Seq(Submissions)
  <2> HIDE DEF Submissions
  <2> QED BY Beheaded DEF HostType
<1>2. CASE SessionIgnores
  BY <1>1, <1>2 DEF SessionIgnores, HostType, hostVars, Idle
<1>3. CASE RuntimeActs
  <2> DEFINE in == Head(inbox)
  <2>1. in \in Submissions /\ Accepts(in) /\ Acts(in)
    BY <1>1, <1>3 DEF RuntimeActs
  <2> HIDE DEF in
  <2>2. inbox' \in Seq(Submissions)
    <3>1. inbox' = Tail(inbox) \o Thrown(in)
      BY <1>3 DEF RuntimeActs, in
    <3> HIDE DEF Submissions
    <3> QED BY <1>1, <1>3, <2>1, <3>1, ThrownType, ConcatProperties DEF RuntimeActs
  <2>3. /\ turn' \in Turns /\ (turn'.phase # "idle" => turn'.step \in Steps)
        /\ ops' \in [Ops -> OpActors] /\ batches' \in [Steps -> BatchActors]
        /\ grants' \in [Steps -> Requested] /\ remembered' \subseteq Tools
        /\ partial' \in [DOMAIN ToolOf -> Outcomes \cup {"none"}]
        /\ unreleased' \subseteq unreleased
    BY <2>1, ActsTypes
  <2> QED BY <2>2, <2>3, <1>3 DEF RuntimeActs, HostType, Turns, Idle
<1>4. CASE SessionAppends
  <2>1. CASE Stageable(Head(inbox))
    <3>1. writing' = {Head(inbox)} /\ inbox' = Tail(inbox) /\ Head(inbox) \in Submissions
          /\ Tail(inbox) \in Seq(Submissions)
      BY <1>1, <1>4, <2>1 DEF SessionAppends
    <3> QED BY <1>4, <2>1, <3>1 DEF SessionAppends, HostType, hostVars, Idle
  <2>2. CASE ~Stageable(Head(inbox))
    BY <1>4, <2>2, ClosesTypes DEF SessionAppends
  <2> QED BY <2>1, <2>2
<1>5. CASE SessionCommits
  <2>1. PICK in \in writing : Acts(in) /\ inbox' = inbox \o Thrown(in)
    BY <1>5 DEF SessionCommits
  <2>2. in \in Submissions
    BY <2>1 DEF HostType
  <2>3. Accepts(in)
    BY <2>1 DEF Appending
  <2>4. inbox' \in Seq(Submissions)
    <3> HIDE DEF Submissions
    <3> QED BY <2>1, <2>3, ThrownType, ConcatProperties DEF HostType
  <2>5. /\ turn' \in Turns /\ (turn'.phase # "idle" => turn'.step \in Steps)
        /\ ops' \in [Ops -> OpActors] /\ batches' \in [Steps -> BatchActors]
        /\ grants' \in [Steps -> Requested] /\ remembered' \subseteq Tools
        /\ partial' \in [DOMAIN ToolOf -> Outcomes \cup {"none"}]
        /\ unreleased' \subseteq unreleased
    BY <2>1, <2>2, <2>3, ActsTypes
  <2> QED BY <2>4, <2>5, <1>5 DEF SessionCommits, HostType, Turns, Idle
<1>6. CASE SessionEnds
  BY <1>6, ClosesTypes DEF SessionEnds
<1>7. CASE ResetPermissions
  BY <1>7 DEF ResetPermissions, HostType, Idle
<1>8. CASE Prompts \/ BargesIn \/ Aborts
  <2>1. \A kind \in {"user", "abort"} : [kind |-> kind] \in Submissions
    BY DEF Submissions
  <2>2. inbox' \in Seq(Submissions)
    <3>1. PICK kind \in {"user", "abort"} : inbox' = Append(inbox, [kind |-> kind])
      BY <1>8 DEF Prompts, BargesIn, Aborts, Says
    <3>2. inbox \in Seq(Submissions)
      BY DEF HostType
    <3> HIDE DEF Submissions
    <3> QED BY <2>1, <3>1, <3>2, Appended
  <2> QED BY <1>8, <2>2 DEF Prompts, BargesIn, Aborts, HostType, hostVars, Idle
<1> QED BY <1>2, <1>3, <1>4, <1>5, <1>6, <1>7, <1>8 DEF Session

\* What an operation that settles tells the host.
LEMMA SettlementTypes ==
  ASSUME HostType, NEW o \in Ops, NEW result \in Final, Settlement(o, result)
  PROVE  /\ inbox' \in Seq(Submissions) /\ batches' \in [Steps -> BatchActors]
         /\ grants' \in [Steps -> Requested]
         /\ unreleased' \subseteq [step : Steps, call : DOMAIN ToolOf, result : Outcomes]
<1> DEFINE s == o[2]
<1>1. /\ inbox \in Seq(Submissions) /\ batches \in [Steps -> BatchActors]
      /\ grants \in [Steps -> Requested] /\ s \in Steps
      /\ unreleased \subseteq [step : Steps, call : DOMAIN ToolOf, result : Outcomes]
  BY OpNames DEF HostType
<1>2. \A in \in Submissions : Posted(in) \in Seq(Submissions)
  <2> HIDE DEF Submissions
  <2> QED BY <1>1, Appended DEF Posted
<1>3. CASE closed
  BY <1>1, <1>3 DEF Settlement
<1>4. CASE ~closed /\ o[1] = "completion"
  <2>1. \A value \in {"answer", "tools", "failed", "cancelled"} :
          Settled("completion", s, value) \in Submissions
    BY <1>1 DEF Settled, Submissions, Settlements
  <2>2. inbox' \in Seq(Submissions)
    <3> HIDE DEF Submissions
    <3> QED BY <1>2, <1>4, <2>1 DEF Settlement, Final
  <2> QED BY <1>1, <1>4, <2>2 DEF Settlement
<1>5. CASE ~closed /\ o[1] = "permission"
  <2>1. \A r \in Final : Settled("permission", s, r) \in Submissions
    BY <1>1 DEF Settled, Submissions, Settlements
  <2>2. inbox' \in Seq(Submissions)
    <3> HIDE DEF Submissions
    <3> QED BY <1>2, <1>5, <2>1 DEF Settlement, Final
  <2>3. grants' \in [Steps -> Requested] /\ UNCHANGED <<batches, unreleased>>
    <3>1. grants[s] \in Requested /\ NoGrant \in Requested
      BY <1>1, FreshActors
    <3>2. [grants[s] EXCEPT !.approved = grants[s].held] \in Requested
      BY <3>1 DEF Requested
    <3>3. grants' = [grants EXCEPT ![s] = NoGrant]
          \/ grants' = [grants EXCEPT ![s] = [grants[s] EXCEPT !.approved = grants[s].held]]
      BY <1>5 DEF Settlement
    <3> QED BY <1>1, <1>5, <3>1, <3>2, <3>3 DEF Settlement
  <2> QED BY <1>1, <2>2, <2>3
<1>6. CASE ~closed /\ o[1] = "tool"
  <2>1. o[3] \in DOMAIN ToolOf /\ result \in Outcomes
    BY <1>6, OpNames DEF Final, Outcomes
  <2>2. ToolResult(s, o[3], result) \in Submissions
    BY <1>1, <2>1 DEF ToolResult, Submissions, Results
  <2>3. Counts(result) \in Final
    BY <2>1, CountsFinal
  <2>4. Counted(o[3], Counts(result)) \in Counteds
    BY <2>1, <2>3 DEF Counted, Counteds
  <2>5. Sent(batches[s], Counted(o[3], Counts(result))) \in BatchActors
    BY <1>1, <2>4, SentBatch
  <2>6. /\ inbox' \in {inbox, Posted(ToolResult(s, o[3], result))} /\ UNCHANGED grants
        /\ \/ unreleased' = unreleased \cup {[step |-> s, call |-> o[3], result |-> result]}
              /\ UNCHANGED batches
           \/ batches' = [batches EXCEPT ![s] = Sent(@, Counted(o[3], Counts(result)))]
              /\ UNCHANGED unreleased
    BY <1>6 DEF Settlement
  <2>7. inbox' \in Seq(Submissions)
    <3> HIDE DEF Submissions
    <3> QED BY <1>1, <1>2, <2>2, <2>6
  <2>8. batches' \in [Steps -> BatchActors]
    BY <1>1, <2>5, <2>6
  <2> QED BY <1>1, <2>1, <2>6, <2>7, <2>8
<1> QED BY <1>3, <1>4, <1>5, <1>6, OpNames

\* The work of an operation is done with, and reported.
Reported(o, type) == [Sent(ops[o], Event(type)) EXCEPT !.work = "none"]

\* What an operation is after its work is reported.
LEMMA ReportedOp ==
  ASSUME HostType, NEW o \in Ops, NEW type \in Own \cup Failing
  PROVE  /\ Reported(o, type) \in OpActors /\ Reported(o, type).status = ops[o].status
         /\ Reported(o, type).work = "none" /\ Reported(o, type).timer = ops[o].timer
         /\ Reported(o, type).inbox = Sent(ops[o], Event(type)).inbox
         /\ WorkReports(o, type) => ops' = [ops EXCEPT ![o] = Reported(o, type)]
<1> DEFINE a == Sent(ops[o], Event(type))
<1>1. a \in OpActors /\ a.status = ops[o].status /\ a.timer = ops[o].timer
  BY SentOp DEF HostType
<1>2. WorkReports(o, type) => ops' = [ops EXCEPT ![o] = Reported(o, type)]
  BY DEF WorkReports, Reported
<1> HIDE DEF a
<1>3. [a EXCEPT !.work = "none"] \in OpActors
  BY <1>1 DEF OpActors
<1>4. LET b == [a EXCEPT !.work = "none"] IN
        b.status = a.status /\ b.work = "none" /\ b.timer = a.timer /\ b.inbox = a.inbox
  BY <1>1 DEF OpActors
<1> QED BY <1>1, <1>2, <1>3, <1>4 DEF Reported, a

\* An operation that advances works at its next status.
LEMMA AdvancedOp ==
  ASSUME HostType, OperationInv, NEW o \in Ops, OpAdvances(o)
  PROVE  \E b \in OpActors, next \in Working :
           /\ ops' = [ops EXCEPT ![o] = b]
           /\ b.status = next /\ b.work = next /\ b.timer = ops[o].timer
           /\ b.inbox = Tail(ops[o].inbox) /\ ops[o].inbox # << >>
           /\ Head(ops[o].inbox).type \in Own /\ Head(ops[o].inbox).type = Advances[ops[o].status]
           /\ \A i \in DOMAIN b.inbox : b.inbox[i].type \notin Own
           /\ ops[o].status \in {"ready", "validating_input", "running"}
           /\ next = After[ops[o].status] /\ ops[o].work = "none"
           /\ ran' = IF o[1] = "tool" /\ next = "running" THEN ran \cup {<<o[2], o[3]>>} ELSE ran
<1> DEFINE a == ops[o]
           next == Verdict(o, Head(a.inbox))
           b == [Taken(a) EXCEPT !.status = next, !.work = next]
           M == [type : Own \cup Failing]
<1>1. Live(o) /\ Pending(a) /\ next \notin Final /\ ops' = [ops EXCEPT ![o] = b]
      /\ ran' = IF o[1] = "tool" /\ next = "running" THEN ran \cup {<<o[2], o[3]>>} ELSE ran
  BY DEF OpAdvances
<1>2. Head(a.inbox).type \in Own
  BY <1>1, VerdictCases DEF Final
<1>3. /\ Head(a.inbox).type = Advances[a.status] /\ a.work = "none"
      /\ a.status \in {"ready"} \cup Working /\ next = After[a.status]
      /\ \A i \in DOMAIN Tail(a.inbox) : Tail(a.inbox)[i].type \notin Own
  BY <1>1, <1>2, VerdictCases
<1>4. a.status \in {"ready", "validating_input", "running"} /\ next \in Working
  BY <1>1, <1>3 DEF Working, After, Final
<1>5. a \in OpActors
  BY DEF HostType
<1>6. Tail(a.inbox) \in Seq(M) /\ a.inbox # << >>
  <2>1. a.inbox \in Seq(M) /\ a.inbox # << >>
    BY <1>1, <1>5 DEF OpActors, Pending
  <2> HIDE DEF M, a
  <2> QED BY <2>1, Beheaded
<1>7. b \in OpActors /\ b.status = next /\ b.work = next /\ b.timer = a.timer
      /\ b.inbox = Tail(a.inbox)
  <2> DEFINE rest == Tail(a.inbox)
  <2> HIDE DEF next, M, rest
  <2>1. next \in Statuses
    BY <1>4 DEF Working, Statuses
  <2>2. b = [a EXCEPT !.inbox = rest, !.status = next, !.work = next]
    BY <1>5 DEF Taken, rest
  <2>3. b \in [status : Statuses, inbox : Seq(M), work : {"none"} \cup Working, timer : BOOLEAN]
    BY <1>4, <1>5, <1>6, <2>1, <2>2 DEF OpActors, M, rest
  <2>4. b.status = next /\ b.work = next /\ b.timer = a.timer /\ b.inbox = rest
    BY <1>5, <2>2 DEF OpActors
  <2> QED BY <2>3, <2>4 DEF OpActors, M, rest
<1> HIDE DEF b
<1> QED BY <1>1, <1>2, <1>3, <1>4, <1>6, <1>7

\* Operations keep types.
LEMMA OpTypes ==
  ASSUME HostType, OperationInv, NEW o \in Ops,
         OpStep(o) \/ DeadlineFires(o) \/ WorkSucceeds(o) \/ WorkFails(o)
  PROVE  HostType'
<1>1. o[1] = "tool" => <<o[2], o[3]>> \in Steps \X DOMAIN ToolOf
  BY OpNames
<1>2. CASE OpAdvances(o)
  <2>1. PICK b \in OpActors, next \in Working :
          /\ ops' = [ops EXCEPT ![o] = b]
          /\ ran' = IF o[1] = "tool" /\ next = "running" THEN ran \cup {<<o[2], o[3]>>} ELSE ran
    BY <1>2, AdvancedOp
  <2>2. ran' \subseteq Steps \X DOMAIN ToolOf
    BY <1>1, <2>1 DEF HostType
  <2>3. ops' \in [Ops -> OpActors]
    BY <2>1 DEF HostType
  <2> QED BY <1>2, <2>2, <2>3 DEF OpAdvances, HostType, Idle
<1>3. CASE OpSettles(o)
  <2>1. PICK next \in Final : ops' = [ops EXCEPT ![o] = Over(o, next)] /\ Settlement(o, next)
    BY <1>3 DEF OpSettles
  <2>2. ops' \in [Ops -> OpActors]
    BY <2>1, FreshActors DEF HostType
  <2>3. /\ inbox' \in Seq(Submissions) /\ batches' \in [Steps -> BatchActors]
        /\ grants' \in [Steps -> Requested]
        /\ unreleased' \subseteq [step : Steps, call : DOMAIN ToolOf, result : Outcomes]
    BY <2>1, SettlementTypes
  <2> QED BY <1>3, <2>2, <2>3 DEF OpSettles, HostType, Idle
<1>4. CASE DeadlineFires(o)
  <2> DEFINE a == Sent(ops[o], Event("timeout"))
  <2>1. a \in OpActors
    BY SentOp DEF HostType, Failing
  <2> HIDE DEF a
  <2>2. [a EXCEPT !.timer = FALSE] \in OpActors
    BY <2>1 DEF OpActors
  <2>3. ops' = [ops EXCEPT ![o] = [a EXCEPT !.timer = FALSE]]
    BY <1>4 DEF DeadlineFires, a
  <2>4. ops' \in [Ops -> OpActors]
    BY <2>2, <2>3 DEF HostType
  <2> QED BY <1>4, <2>4 DEF DeadlineFires, HostType, hostVars, Idle
<1>5. CASE WorkSucceeds(o) \/ WorkFails(o)
  <2>1. \E type \in Own \cup Failing : WorkReports(o, type)
    <3>1. CASE WorkFails(o)
      BY <3>1 DEF WorkFails, Failing
    <3>2. CASE WorkSucceeds(o)
      <4>1. ops[o].work \in Working
        BY <3>2 DEF WorkSucceeds, HostType, OpActors
      <4>2. Reports[ops[o].work] \in Own
        BY <4>1 DEF Reports, Working, Own
      <4> QED BY <3>2, <4>2 DEF WorkSucceeds
    <3> QED BY <1>5, <3>1, <3>2
  <2>2. ops' \in [Ops -> OpActors]
    BY <2>1, ReportedOp DEF HostType
  <2> QED BY <1>5, <2>2 DEF WorkSucceeds, WorkFails, HostType, hostVars, Idle
<1> QED BY <1>2, <1>3, <1>4, <1>5 DEF OpStep

\* A grant that is asked about.
LEMMA UnaskedGrant ==
  ASSUME HostType, NEW s \in Steps, Unasked(s), Approving
  PROVE  /\ grants[s] \in Requested /\ grants[s].held /\ grants[s].next \in 1..mode.calls
         /\ Current(s) \in CallSet /\ Current(s) \in DOMAIN ToolOf /\ ToolOf[Current(s)] \in Tools
         /\ Request(s) /\ Asking(s) \in Ops /\ <<s, Current(s)>> \in Steps \X DOMAIN ToolOf
<1>1. grants[s] \in Requested /\ grants[s].held /\ grants[s].next <= mode.calls /\ Request(s)
  BY DEF Unasked, HostType
<1>2. grants[s].next \in 1..mode.calls
  BY <1>1, ModeType DEF Approving, GrantInv
<1>3. Current(s) \in CallSet /\ Current(s) \in DOMAIN ToolOf
  BY <1>2, ModeType DEF Current, CallSet
<1> QED BY <1>1, <1>2, <1>3, OpNames DEF Tools, Asking

\* A grant goes on to its next call.
LEMMA AnsweredGrant ==
  ASSUME NEW g \in Requested
  PROVE  /\ Answered(g) \in Requested /\ Answered(g).next = g.next + 1
         /\ Answered(g).held = g.held /\ Answered(g).approved = g.approved
         /\ Answered(g).stopped = g.stopped /\ Answered(g).inputs = g.inputs
         /\ Answered(g).invalid = g.invalid /\ Answered(g).refused = g.refused
         /\ Answered(g).remembered = g.remembered /\ Answered(g).asking = FALSE
<1> DEFINE n == g.next + 1
<1>1. n \in Nat
  BY DEF Requested
<1>2. Answered(g) = [g EXCEPT !.next = n, !.asking = FALSE]
  BY DEF Answered
<1> HIDE DEF n
<1>3. [g EXCEPT !.next = n, !.asking = FALSE] \in Requested
  BY <1>1 DEF Requested
<1>4. LET h == [g EXCEPT !.next = n, !.asking = FALSE] IN
        /\ h.next = n /\ h.held = g.held /\ h.approved = g.approved
        /\ h.stopped = g.stopped /\ h.inputs = g.inputs
        /\ h.invalid = g.invalid /\ h.refused = g.refused
        /\ h.remembered = g.remembered /\ h.asking = FALSE
  BY DEF Requested
<1> QED BY <1>2, <1>3, <1>4 DEF n

\* Permission requests keep types.
LEMMA RequestTypes ==
  ASSUME HostType, Approving, NEW s \in Steps,
         Requesting(s) \/ UserDecides(s) \/ RequestRejectsInput(s) \/ RequestBreaks(s)
  PROVE  HostType'
<1>1. grants[s] \in Requested /\ Asking(s) \in Ops
  BY OpNames DEF HostType, Asking
<1>2. \A type \in Own \cup Failing : WorkReports(Asking(s), type) => ops' \in [Ops -> OpActors]
  BY <1>1, ReportedOp DEF HostType
<1>3. \A what \in {"allowed", "remembered", "rejected"} : Unasked(s) /\ Answers(s, what) =>
        answer' \in [Steps \X DOMAIN ToolOf -> {"none", "allowed", "remembered", "rejected"}]
  BY UnaskedGrant DEF Answers, HostType
<1>4. \A g \in Requested : Answered(g) \in Requested
  BY AnsweredGrant
<1>5. \A g \in Requested : Grants(s, g) => grants' \in [Steps -> Requested]
  BY DEF Grants, HostType
<1>6. CASE RequestReturns(s) \/ RequestStops(s) \/ RequestBreaks(s)
  <2>1. ops' \in [Ops -> OpActors]
    BY <1>2, <1>6 DEF RequestReturns, RequestStops, RequestBreaks, Own, Failing
  <2> QED BY <1>6, <2>1 DEF RequestReturns, RequestStops, RequestBreaks, HostType, hostVars, Idle
<1>7. CASE RequestValidates(s)
  <2> DEFINE g == [grants[s] EXCEPT !.inputs = @ \cup {Current(s)}]
  <2>1. Current(s) \in DOMAIN ToolOf
    BY <1>7, UnaskedGrant DEF RequestValidates
  <2>2. g \in Requested
    BY <1>1, <2>1 DEF Requested
  <2> HIDE DEF g
  <2>3. [g EXCEPT !.asking = TRUE] \in Requested
    BY <2>2 DEF Requested
  <2>4. \/ Grants(s, Answered(g)) /\ Answers(s, "remembered")
        \/ Grants(s, [g EXCEPT !.asking = TRUE]) /\ UNCHANGED answer
    BY <1>7 DEF RequestValidates, g
  <2>5. grants' \in [Steps -> Requested]
    BY <1>4, <1>5, <2>2, <2>3, <2>4
  <2>6. answer' \in [Steps \X DOMAIN ToolOf -> {"none", "allowed", "remembered", "rejected"}]
    BY <1>3, <1>7, <2>4 DEF RequestValidates, HostType
  <2> QED BY <1>7, <2>5, <2>6 DEF RequestValidates, HostType, Idle
<1>8. CASE RequestRejectsInput(s)
  <2> DEFINE g == Answered(grants[s])
  <2>1. Current(s) \in DOMAIN ToolOf
    BY <1>8, UnaskedGrant DEF RequestRejectsInput
  <2>2. g \in Requested
    BY <1>1, <1>4
  <2>3. \/ Grants(s, [g EXCEPT !.invalid = @ \cup {Current(s)}]) /\ UNCHANGED ops
        \/ WorkReports(Asking(s), "failed") /\ UNCHANGED grants
    BY <1>8 DEF RequestRejectsInput
  <2> HIDE DEF g
  <2>4. [g EXCEPT !.invalid = @ \cup {Current(s)}] \in Requested
    BY <2>1, <2>2 DEF Requested
  <2>5. grants' \in [Steps -> Requested] /\ ops' \in [Ops -> OpActors]
    BY <1>2, <1>5, <2>3, <2>4 DEF HostType, Failing
  <2> QED BY <1>8, <2>5 DEF RequestRejectsInput, HostType, hostVars, Idle
<1>9. CASE UserAllows(s, TRUE) \/ UserAllows(s, FALSE)
  <2> DEFINE g == Answered(grants[s])
  <2>1. PICK tool \in {{}, {ToolOf[Current(s)]}} :
          Grants(s, [g EXCEPT !.remembered = @ \cup tool]) /\ standing' = standing \cup tool
    BY <1>9 DEF UserAllows
  <2>2. tool \subseteq Tools
    BY <1>9, UnaskedGrant DEF UserAllows
  <2>3. g \in Requested
    BY <1>1, <1>4
  <2> HIDE DEF g
  <2>4. [g EXCEPT !.remembered = @ \cup tool] \in Requested
    BY <2>2, <2>3 DEF Requested
  <2>5. grants' \in [Steps -> Requested] /\ standing' \subseteq Tools
    BY <1>5, <2>1, <2>2, <2>4 DEF HostType
  <2>6. answer' \in [Steps \X DOMAIN ToolOf -> {"none", "allowed", "remembered", "rejected"}]
    BY <1>3, <1>9 DEF UserAllows
  <2> QED BY <1>9, <2>5, <2>6 DEF UserAllows, HostType, Idle
<1>10. CASE UserRejects(s)
  <2> DEFINE g == Answered(grants[s])
  <2>1. Grants(s, [g EXCEPT !.refused = @ \cup {Current(s)}]) /\ Current(s) \in DOMAIN ToolOf
    BY <1>10, UnaskedGrant DEF UserRejects
  <2>3. g \in Requested
    BY <1>1, <1>4
  <2> HIDE DEF g
  <2>4. [g EXCEPT !.refused = @ \cup {Current(s)}] \in Requested
    BY <2>1, <2>3 DEF Requested
  <2>5. grants' \in [Steps -> Requested]
    BY <1>5, <2>1, <2>4
  <2>6. answer' \in [Steps \X DOMAIN ToolOf -> {"none", "allowed", "remembered", "rejected"}]
    BY <1>3, <1>10 DEF UserRejects
  <2> QED BY <1>10, <2>5, <2>6 DEF UserRejects, HostType, Idle
<1>11. CASE UserDismisses(s)
  <2>1. [grants[s] EXCEPT !.stopped = TRUE, !.asking = FALSE] \in Requested
    BY <1>1 DEF Requested
  <2>2. grants' \in [Steps -> Requested] /\ ops' \in [Ops -> OpActors]
    BY <1>2, <1>5, <1>11, <2>1 DEF UserDismisses, Own
  <2> QED BY <1>11, <2>2 DEF UserDismisses, HostType, hostVars, Idle
<1> QED BY <1>6, <1>7, <1>8, <1>9, <1>10, <1>11 DEF Requesting, UserDecides

\* A batch that takes an event, or settles.
LEMMA BatchChanges ==
  ASSUME HostType, NEW s \in Steps
  PROVE  LET b == batches[s] IN
         /\ b.inbox # << >> =>
              /\ Head(b.inbox) = b.inbox[1] /\ 1 \in DOMAIN b.inbox
              /\ Head(b.inbox) \in [type : {"start", "cancel"}] \cup Counteds
              /\ Tail(b.inbox) \in Seq([type : {"start", "cancel"}] \cup Counteds)
              /\ \A i \in DOMAIN Tail(b.inbox) : i + 1 \in DOMAIN b.inbox /\ i + 1 # 1
                                                 /\ Tail(b.inbox)[i] = b.inbox[i + 1]
              /\ \A i \in DOMAIN b.inbox : i # 1 =>
                   i - 1 \in DOMAIN Tail(b.inbox) /\ Tail(b.inbox)[i - 1] = b.inbox[i]
         /\ \A i \in DOMAIN b.inbox : b.inbox[i] \in [type : {"start", "cancel"}] \cup Counteds
<1> DEFINE M == [type : {"start", "cancel"}] \cup Counteds
           b == batches[s]
<1>1. b.inbox \in Seq(M)
  BY DEF HostType, BatchActors
<1> HIDE DEF M, b
<1>2. b.inbox # << >> =>
              /\ Head(b.inbox) = b.inbox[1] /\ 1 \in DOMAIN b.inbox
              /\ Head(b.inbox) \in M /\ Tail(b.inbox) \in Seq(M)
              /\ \A i \in DOMAIN Tail(b.inbox) : i + 1 \in DOMAIN b.inbox /\ i + 1 # 1
                                                 /\ Tail(b.inbox)[i] = b.inbox[i + 1]
              /\ \A i \in DOMAIN b.inbox : i # 1 =>
                   i - 1 \in DOMAIN Tail(b.inbox) /\ Tail(b.inbox)[i - 1] = b.inbox[i]
  BY <1>1, Beheaded
<1>3. \A i \in DOMAIN b.inbox : b.inbox[i] \in M
  BY <1>1
<1> QED BY <1>2, <1>3 DEF M, b

\* A batch as it settles.
Settles(s, results) == [NoBatch EXCEPT !.status = "settled", !.results = results,
                                       !.refusing = batches[s].refusing]

\* What a batch that settles changes.
LEMMA BatchEndTypes ==
  ASSUME HostType, NEW s \in Steps, NEW outcome \in Final, NEW results \in SUBSET DOMAIN ToolOf,
         BatchEnds(s, outcome, results)
  PROVE  /\ HostType' /\ Settles(s, results) \in BatchActors
         /\ Settles(s, results).status = "settled" /\ Settles(s, results).inbox = << >>
         /\ Settles(s, results).pending = {} /\ Settles(s, results).results = results
         /\ Settles(s, results).refusing = batches[s].refusing
         /\ batches' = [batches EXCEPT ![s] = Settles(s, results)]
         /\ inbox' = Posted(Settled("batch", s, outcome)) /\ Settled("batch", s, outcome) \in Submissions
<1>1. Settled("batch", s, outcome) \in Submissions
  BY DEF Settled, Submissions, Settlements
<1>2. inbox' = Posted(Settled("batch", s, outcome))
  BY DEF BatchEnds
<1>3. inbox' \in Seq(Submissions)
  <2>1. inbox \in Seq(Submissions)
    BY DEF HostType
  <2> HIDE DEF Submissions
  <2> QED BY <1>1, <1>2, <2>1, Appended DEF Posted
<1>4. \A o \in Ops : Sent(ops[o], Event("cancel")) \in OpActors
  BY SentOp DEF HostType, Failing
<1>5. ops' \in [Ops -> OpActors]
  BY <1>4 DEF BatchEnds, HostType
<1>6. /\ Settles(s, results) \in BatchActors
      /\ Settles(s, results).status = "settled" /\ Settles(s, results).inbox = << >>
      /\ Settles(s, results).pending = {} /\ Settles(s, results).results = results
      /\ Settles(s, results).refusing = batches[s].refusing
  <2> DEFINE r == batches[s].refusing
             M == [type : {"start", "cancel"}] \cup Counteds
  <2>1. r \in SUBSET DOMAIN ToolOf
    BY DEF HostType, BatchActors
  <2>2. << >> \in Seq(M)
    OBVIOUS
  <2> DEFINE b == [NoBatch EXCEPT !.status = "settled", !.results = results, !.refusing = r]
  <2> HIDE DEF r, M
  <2>3. /\ b \in [status : {"none", "ready", "running", "settled"}, inbox : Seq(M),
           pending : SUBSET DOMAIN ToolOf, results : SUBSET DOMAIN ToolOf,
           granted : BOOLEAN, refused : SUBSET DOMAIN ToolOf,
           invalid : SUBSET DOMAIN ToolOf, refusing : SUBSET DOMAIN ToolOf]
        /\ b.status = "settled" /\ b.inbox = << >> /\ b.pending = {} /\ b.results = results
        /\ b.refusing = r
    BY <2>1, <2>2 DEF NoBatch
  <2> HIDE DEF b
  <2> QED BY <2>3 DEF BatchActors, M, Settles, b, r
<1>7. batches' = [batches EXCEPT ![s] = Settles(s, results)]
  BY DEF BatchEnds, Settles
<1>8. batches' \in [Steps -> BatchActors]
  BY <1>6, <1>7 DEF HostType
<1>9. unreleased' \subseteq unreleased
  BY DEF BatchEnds
<1> QED BY <1>1, <1>2, <1>3, <1>5, <1>6, <1>7, <1>8, <1>9 DEF BatchEnds, HostType, Idle

\* A batch that starts, and one that counts.
LEMMA BatchGoesOn ==
  ASSUME HostType, NEW s \in Steps
  PROVE  /\ BatchStarts(s) =>
              \E b \in BatchActors :
                /\ batches' = [batches EXCEPT ![s] = b]
                /\ b.status = "running" /\ b.inbox = Tail(batches[s].inbox)
                /\ b.pending = batches[s].pending /\ b.results = batches[s].results
                /\ b.granted = batches[s].granted /\ b.refused = batches[s].refused
                /\ b.invalid = batches[s].invalid /\ b.refusing = batches[s].refused
         /\ BatchCounts(s) =>
              \E b \in BatchActors : LET c == Head(batches[s].inbox).call IN
                /\ batches' = [batches EXCEPT ![s] = b]
                /\ b.status = "running" /\ b.inbox = Tail(batches[s].inbox)
                /\ b.pending = batches[s].pending \ {c} /\ b.results = batches[s].results \cup {c}
                /\ b.granted = batches[s].granted /\ b.refused = batches[s].refused
                /\ b.invalid = batches[s].invalid /\ b.refusing = batches[s].refusing
                /\ c \in batches[s].pending /\ batches[s].status = "running"
                /\ batches[s].inbox # << >> /\ Head(batches[s].inbox).type = "tool_settled"
<1> DEFINE a == batches[s]
           M == [type : {"start", "cancel"}] \cup Counteds
           rest == Tail(a.inbox)
           c == Head(a.inbox).call
<1>1. a \in [status : {"none", "ready", "running", "settled"}, inbox : Seq(M),
           pending : SUBSET DOMAIN ToolOf, results : SUBSET DOMAIN ToolOf,
           granted : BOOLEAN, refused : SUBSET DOMAIN ToolOf,
           invalid : SUBSET DOMAIN ToolOf, refusing : SUBSET DOMAIN ToolOf]
  BY DEF HostType, BatchActors
<1>2. a.inbox # << >> => rest \in Seq(M)
  BY BatchChanges
<1>3. ASSUME BatchStarts(s)
      PROVE  \E b \in BatchActors :
                /\ batches' = [batches EXCEPT ![s] = b]
                /\ b.status = "running" /\ b.inbox = rest
                /\ b.pending = a.pending /\ b.results = a.results
                /\ b.granted = a.granted /\ b.refused = a.refused
                /\ b.invalid = a.invalid /\ b.refusing = a.refused
  <2> DEFINE b == [Taken(a) EXCEPT !.status = "running", !.refusing = a.refused]
  <2>1. batches' = [batches EXCEPT ![s] = b] /\ a.inbox # << >>
    BY <1>3 DEF BatchStarts, Pending
  <2>2. rest \in Seq(M)
    BY <1>2, <2>1
  <2> HIDE DEF M, rest
  <2>3. b = [a EXCEPT !.inbox = rest, !.status = "running", !.refusing = a.refused]
    BY <1>1 DEF Taken, rest
  <2>4. /\ b \in [status : {"none", "ready", "running", "settled"}, inbox : Seq(M),
           pending : SUBSET DOMAIN ToolOf, results : SUBSET DOMAIN ToolOf,
           granted : BOOLEAN, refused : SUBSET DOMAIN ToolOf,
           invalid : SUBSET DOMAIN ToolOf, refusing : SUBSET DOMAIN ToolOf]
        /\ b.status = "running" /\ b.inbox = rest
        /\ b.pending = a.pending /\ b.results = a.results
        /\ b.granted = a.granted /\ b.refused = a.refused
        /\ b.invalid = a.invalid /\ b.refusing = a.refused
    BY <1>1, <2>2, <2>3
  <2> HIDE DEF b
  <2>5. b \in BatchActors
    BY <2>4 DEF BatchActors, M
  <2> QED BY <2>1, <2>4, <2>5
<1>4. ASSUME BatchCounts(s)
      PROVE  \E b \in BatchActors :
                /\ batches' = [batches EXCEPT ![s] = b]
                /\ b.status = "running" /\ b.inbox = rest
                /\ b.pending = a.pending \ {c} /\ b.results = a.results \cup {c}
                /\ b.granted = a.granted /\ b.refused = a.refused
                /\ b.invalid = a.invalid /\ b.refusing = a.refusing
                /\ c \in a.pending /\ a.status = "running"
                /\ a.inbox # << >> /\ Head(a.inbox).type = "tool_settled"
  <2> DEFINE p == a.pending \ {c}
             r == a.results \cup {c}
             b == [Taken(a) EXCEPT !.pending = p, !.results = r]
  <2>1. /\ a.inbox # << >> /\ c \in a.pending /\ a.status = "running"
        /\ Head(a.inbox).type = "tool_settled"
    BY <1>4 DEF BatchCounts, Counting, Pending
  <2>2. batches' = [batches EXCEPT ![s] = b]
    <3> DEFINE h == Taken(a)
    <3>1. h.pending = a.pending /\ h.results = a.results
      BY <1>1 DEF Taken
    <3>2. batches' = [batches EXCEPT ![s] = [h EXCEPT !.pending = @ \ {c}, !.results = @ \cup {c}]]
      BY <1>4 DEF BatchCounts
    <3> HIDE DEF h
    <3>3. [h EXCEPT !.pending = @ \ {c}, !.results = @ \cup {c}] = [h EXCEPT !.pending = p, !.results = r]
      BY <3>1
    <3> QED BY <3>2, <3>3 DEF h
  <2>3. rest \in Seq(M) /\ p \in SUBSET DOMAIN ToolOf /\ r \in SUBSET DOMAIN ToolOf
    BY <1>1, <1>2, <2>1
  <2> HIDE DEF M, rest, p, r
  <2>4. b = [a EXCEPT !.inbox = rest, !.pending = p, !.results = r]
    BY <1>1 DEF Taken, rest
  <2>5. /\ b \in [status : {"none", "ready", "running", "settled"}, inbox : Seq(M),
           pending : SUBSET DOMAIN ToolOf, results : SUBSET DOMAIN ToolOf,
           granted : BOOLEAN, refused : SUBSET DOMAIN ToolOf,
           invalid : SUBSET DOMAIN ToolOf, refusing : SUBSET DOMAIN ToolOf]
        /\ b.status = a.status /\ b.inbox = rest
        /\ b.pending = p /\ b.results = r
        /\ b.granted = a.granted /\ b.refused = a.refused
        /\ b.invalid = a.invalid /\ b.refusing = a.refusing
    BY <1>1, <2>3, <2>4
  <2> HIDE DEF b
  <2>6. b \in BatchActors
    BY <2>5 DEF BatchActors, M
  <2> QED BY <2>1, <2>2, <2>5, <2>6 DEF p, r
<1> QED BY <1>3, <1>4

\* The refusals of a batch that starts wait to count.
Refusals(s) == {[step |-> s, call |-> c, result |-> "refused"] : c \in batches[s].refused}

\* Batches keep types.
LEMMA BatchTypes ==
  ASSUME HostType, NEW s \in Steps, BatchStep(s)
  PROVE  HostType'
<1> DEFINE a == batches[s]
<1>1. /\ a.pending \subseteq DOMAIN ToolOf /\ a.results \subseteq DOMAIN ToolOf
      /\ a.refused \subseteq DOMAIN ToolOf /\ a.refusing \subseteq DOMAIN ToolOf
      /\ a \in BatchActors
  BY DEF HostType, BatchActors
<1>2. CASE BatchStarts(s)
  <2>1. batches' \in [Steps -> BatchActors]
    <3>1. PICK b \in BatchActors : batches' = [batches EXCEPT ![s] = b]
      BY <1>2, BatchGoesOn
    <3> QED BY <3>1 DEF HostType
  <2>2. ops' \in [Ops -> OpActors]
    <3>1. \A o : Spawned(o) \in OpActors
      BY SpawnedOp
    <3> QED BY <1>2, <3>1 DEF BatchStarts, HostType
  <2>3. unreleased' \subseteq [step : Steps, call : DOMAIN ToolOf, result : Outcomes]
    <3>1. unreleased' = unreleased \cup Refusals(s)
      BY <1>2 DEF BatchStarts, Refusals
    <3>2. Refusals(s) \subseteq [step : Steps, call : DOMAIN ToolOf, result : Outcomes]
      BY <1>1 DEF Refusals, Outcomes
    <3> QED BY <3>1, <3>2 DEF HostType
  <2> QED BY <1>2, <2>1, <2>2, <2>3 DEF BatchStarts, HostType, Idle
<1>3. CASE BatchCancelled(s)
  BY <1>1, <1>3, BatchEndTypes DEF BatchCancelled, Final
<1>4. CASE BatchCounts(s)
  <2>1. PICK b \in BatchActors : batches' = [batches EXCEPT ![s] = b]
    BY <1>4, BatchGoesOn
  <2>2. batches' \in [Steps -> BatchActors]
    BY <2>1 DEF HostType
  <2> QED BY <1>4, <2>2 DEF BatchCounts, HostType, hostVars, Idle
<1>5. CASE BatchSettles(s)
  <2> DEFINE e == Head(a.inbox)
  <2>1. a.inbox # << >> /\ e.call \in a.pending /\ e.type = "tool_settled"
    BY <1>5 DEF BatchSettles, Counting, Pending
  <2>2. e \in Counteds
    BY <2>1, BatchChanges
  <2>3. e.call \in DOMAIN ToolOf /\ e.result \in Final
    BY <2>2 DEF Counteds
  <2>4. \/ BatchEnds(s, "succeeded", a.results \cup {e.call})
        \/ BatchEnds(s, e.result, a.results)
    BY <1>5 DEF BatchSettles
  <2> QED BY <1>1, <2>3, <2>4, BatchEndTypes DEF Final
<1>6. ASSUME NEW c \in DOMAIN ToolOf, RefusalReported(s, c) PROVE HostType'
  <2> DEFINE told == [batches EXCEPT ![s].refusing = @ \ {c}]
  <2>1. told \in [Steps -> BatchActors]
    <3>1. [a EXCEPT !.refusing = @ \ {c}] \in BatchActors
      BY <1>1 DEF BatchActors
    <3>2. told = [batches EXCEPT ![s] = [a EXCEPT !.refusing = @ \ {c}]]
      OBVIOUS
    <3> QED BY <3>1, <3>2 DEF HostType
  <2>2. /\ batches' = told \/ batches' = Released(s, c, told)
        /\ inbox' = inbox \/ inbox' = Posted(ToolResult(s, c, "refused"))
        /\ unreleased' = unreleased \/ unreleased' = Forgotten(s, c)
    BY <1>6 DEF RefusalReported
  <2> HIDE DEF told
  <2>3. batches' \in [Steps -> BatchActors]
    <3>1. \/ Released(s, c, told) = told
          \/ \E p \in unreleased, result \in Final :
              /\ Counted(c, result) \in Counteds
              /\ Released(s, c, told) = [told EXCEPT ![s] = Sent(@, Counted(c, result))]
      BY <2>1, ReleasedBatches
    <3>2. \A result \in Final : Counted(c, result) \in Counteds =>
            Sent(told[s], Counted(c, result)) \in BatchActors
      BY <2>1, SentBatch
    <3> QED BY <2>1, <2>2, <3>1, <3>2
  <2>4. inbox' \in Seq(Submissions)
    <3>1. ToolResult(s, c, "refused") \in Submissions
      BY DEF ToolResult, Submissions, Results, Outcomes
    <3>2. inbox \in Seq(Submissions)
      BY DEF HostType
    <3> HIDE DEF Submissions
    <3> QED BY <2>2, <3>1, <3>2, Appended DEF Posted
  <2>5. unreleased' \subseteq unreleased
    BY <2>2 DEF Forgotten
  <2> QED BY <1>6, <2>3, <2>4, <2>5 DEF RefusalReported, HostType, Idle
<1> QED BY <1>2, <1>3, <1>4, <1>5, <1>6 DEF BatchStep

\* Every step keeps types.
LEMMA TypeStep ==
  ASSUME HostType, Appending, OperationInv, Approving, [Next]_vars
  PROVE  HostType'
<1>1. CASE UNCHANGED vars
  BY <1>1 DEF vars, HostType, Idle
<1>2. CASE Next
  <2>1. CASE Session \/ SessionEnds \/ ResetPermissions \/ Prompts \/ BargesIn \/ Aborts
    BY <2>1, SessionTypes
  <2>2. ASSUME NEW o \in Ops, OpStep(o) \/ DeadlineFires(o) \/ WorkSucceeds(o) \/ WorkFails(o)
        PROVE  HostType'
    BY <2>2, OpTypes
  <2>3. ASSUME NEW s \in Steps,
               Requesting(s) \/ UserDecides(s) \/ RequestRejectsInput(s) \/ RequestBreaks(s)
        PROVE  HostType'
    BY <2>3, RequestTypes
  <2>4. ASSUME NEW s \in Steps, BatchStep(s) PROVE HostType'
    BY <2>4, BatchTypes
  <2> QED BY <1>2, <2>1, <2>2, <2>3, <2>4 DEF Next
<1> QED BY <1>1, <1>2

-----------------------------------------------------------------------------
\* Operations

\* An operation that is sent a reason to stop stays in order.
LEMMA StopIsOrdered ==
  ASSUME NEW a \in OpActors, NEW t \in Failing,
         IF a.status \notin Final \cup {"none"} THEN Ordered(a) ELSE Quiet(a)
  PROVE  LET b == Sent(a, Event(t)) IN
         IF b.status \notin Final \cup {"none"} THEN Ordered(b) ELSE Quiet(b)
<1> DEFINE M == [type : Own \cup Failing]
           b == Sent(a, Event(t))
<1>1. /\ b \in OpActors /\ b.status = a.status /\ b.work = a.work /\ b.timer = a.timer
      /\ a.status \in Final \cup {"none"} => b = a
      /\ a.status \notin Final \cup {"none"} => b.inbox = Append(a.inbox, Event(t))
  BY SentOp
<1>2. CASE a.status \in Final \cup {"none"}
  BY <1>1, <1>2
<1>3. CASE a.status \notin Final \cup {"none"}
  <2>1. a.inbox \in Seq(M) /\ Event(t) \in M
    BY DEF OpActors, Event
  <2>2. b.inbox = Append(a.inbox, Event(t)) /\ Event(t).type \notin Own
    BY <1>1, <1>3 DEF Event, Own, Failing
  <2> HIDE DEF M, b
  <2>3. /\ \A i \in DOMAIN a.inbox : b.inbox[i] = a.inbox[i]
        /\ \A i \in DOMAIN b.inbox : i \in DOMAIN a.inbox \/ b.inbox[i] = Event(t)
    BY <2>1, <2>2, Appended
  <2>4. Ordered(b)
    BY <1>1, <1>3, <2>2, <2>3 DEF Ordered
  <2> QED BY <1>1, <1>3, <2>4 DEF b
<1> QED BY <1>2, <1>3

\* One that is spawned is in order.
LEMMA SpawnIsOrdered ==
  ASSUME HostType
  PROVE  \A o : Ordered(Spawned(o)) /\ Spawned(o).status \notin Final \cup {"none"}
<1> TAKE o
<1>1. Spawned(o).status = "ready" /\ Spawned(o).work = "none"
      /\ Spawned(o).inbox = <<Event("start")>>
  BY SpawnedOp
<1> QED BY <1>1 DEF Ordered, Event, Advances, Own, Final

\* An actor of an operation in order.
InOrder(a) == IF a.status \notin Final \cup {"none"} THEN Ordered(a) ELSE Quiet(a)

\* An operation whose work is reported is in order.
LEMMA ReportIsOrdered ==
  ASSUME HostType, OperationInv, NEW o \in Ops, NEW type \in Own \cup Failing,
         ops[o].work # "none",
         type \in Failing \/ type = Advances[ops[o].work]
  PROVE  InOrder(Reported(o, type)) /\ Live(o)
<1> DEFINE a == ops[o]
           b == Reported(o, type)
           M == [type : Own \cup Failing]
<1>1. Live(o) /\ Ordered(a) /\ a.work = a.status /\ a \in OpActors
  BY DEF OperationInv, Quiet, Ordered, HostType
<1>2. a.status \notin Final \cup {"none"}
  BY <1>1 DEF Live
<1>3. b.status = a.status /\ b.work = "none" /\ b.inbox = Append(a.inbox, Event(type))
  BY <1>1, <1>2, ReportedOp, SentOp
<1>4. a.inbox \in Seq(M) /\ Event(type) \in M
  BY <1>1 DEF OpActors, Event
<1>5. \A i \in DOMAIN a.inbox : a.inbox[i].type \notin Own
  BY <1>1 DEF Ordered
<1> HIDE DEF M, a, b
<1>6. /\ \A i \in DOMAIN a.inbox : b.inbox[i] = a.inbox[i]
      /\ \A i \in DOMAIN b.inbox : i \in DOMAIN a.inbox \/ (i = Len(a.inbox) + 1 /\ b.inbox[i] = Event(type))
  BY <1>3, <1>4, Appended
<1>7. type \in Own => type = Advances[a.status]
  BY <1>1 DEF a, Own, Failing
<1>8. Ordered(b)
  BY <1>3, <1>5, <1>6, <1>7 DEF Ordered, Event
<1> QED BY <1>1, <1>2, <1>3, <1>8 DEF InOrder, b

\* What a decision of the turn does to an operation.
LEMMA TurnOps ==
  ASSUME HostType, NEW in, TurnMoves(in), NEW o \in Ops
  PROVE  ops'[o] \in {ops[o], Sent(ops[o], Event("cancel")), Spawned(o)}
<1>1. ops \in [Ops -> OpActors]
  BY DEF HostType
<1>2. \A kind \in {"completion", "permission"} :
        Stopped(kind) \in [Ops -> {Stopped(kind)[p] : p \in Ops}]
        /\ \A p \in Ops : Stopped(kind)[p] \in {ops[p], Sent(ops[p], Event("cancel"))}
  BY <1>1 DEF Stopped
<1>3. CASE UNCHANGED <<turn, ops, batches, grants, remembered>>
  BY <1>3
<1>4. CASE Rests(in) \/ RunsBatch(in) \/ StopsBatch \/ Refuses(in)
  BY <1>4 DEF Rests, RunsBatch, StopsBatch, Refuses
<1>5. CASE GivesUp("completion") \/ GivesUp("permission")
  BY <1>2, <1>5 DEF GivesUp
<1>6. CASE MovesOn(in)
  BY <1>1, <1>2, <1>6 DEF MovesOn
<1>7. CASE AsksUser(in)
  BY <1>1, <1>7 DEF AsksUser
<1> QED BY <1>3, <1>4, <1>5, <1>6, <1>7 DEF TurnMoves

\* What any step does to an operation.
LEMMA OpChanges ==
  ASSUME HostType, Appending, OperationInv, [Next]_vars, NEW o \in Ops
  PROVE  \/ ops'[o] \in {ops[o], Sent(ops[o], Event("cancel")), Spawned(o)}
         \/ Live(o) /\ \E next \in Final : ops'[o] = Over(o, next)
         \/ ops'[o] = [Sent(ops[o], Event("timeout")) EXCEPT !.timer = FALSE]
         \/ OpAdvances(o)
         \/ \E type \in Own \cup Failing :
              /\ ops'[o] = Reported(o, type) /\ ops[o].work # "none"
              /\ type \in Failing \/ type = Advances[ops[o].work]
<1>1. ops \in [Ops -> OpActors]
  BY DEF HostType
<1>2. ASSUME NEW in \in Submissions, Accepts(in), Acts(in)
      PROVE  ops'[o] \in {ops[o], Sent(ops[o], Event("cancel")), Spawned(o)}
  <2>1. ops' = ops \/ TurnMoves(in)
    BY <1>2, ActsCases
  <2> QED BY <2>1, TurnOps
<1>3. Closes => ops'[o] \in {ops[o], Sent(ops[o], Event("cancel")), Spawned(o)}
  BY DEF Closes
<1>4. CASE UNCHANGED ops
  BY <1>4
<1>5. CASE Session \/ SessionEnds
  <2>1. CASE SessionIgnores
    BY <2>1, <1>4 DEF SessionIgnores
  <2>2. CASE RuntimeActs
    <3>1. Head(inbox) \in Submissions
      <4>1. inbox \in Seq(Submissions) /\ inbox # << >>
        BY <2>2 DEF RuntimeActs, HostType
      <4> HIDE DEF Submissions
      <4> QED BY <4>1, Beheaded
    <3> QED BY <2>2, <3>1, <1>2 DEF RuntimeActs
  <2>3. CASE SessionAppends
    BY <2>3, <1>3, <1>4 DEF SessionAppends
  <2>4. CASE SessionCommits
    <3>1. PICK in \in writing : Acts(in)
      BY <2>4 DEF SessionCommits
    <3> QED BY <3>1, <1>2 DEF Appending, HostType
  <2>5. CASE SessionEnds
    BY <2>5, <1>3 DEF SessionEnds
  <2> QED BY <1>5, <2>1, <2>2, <2>3, <2>4, <2>5 DEF Session
<1>6. CASE ResetPermissions \/ Prompts \/ BargesIn \/ Aborts
  BY <1>6, <1>4 DEF ResetPermissions, Prompts, BargesIn, Aborts
<1>7. ASSUME NEW p \in Ops, OpAdvances(p)
      PROVE  ops'[o] = ops[o] \/ OpAdvances(o)
  BY <1>1, <1>7 DEF OpAdvances
<1>8. ASSUME NEW p \in Ops, OpSettles(p)
      PROVE  ops'[o] = ops[o] \/ (Live(o) /\ \E next \in Final : ops'[o] = Over(o, next))
  BY <1>1, <1>8 DEF OpSettles
<1>9. ASSUME NEW p \in Ops, DeadlineFires(p)
      PROVE  ops'[o] = ops[o] \/ ops'[o] = [Sent(ops[o], Event("timeout")) EXCEPT !.timer = FALSE]
  BY <1>1, <1>9 DEF DeadlineFires
<1>10. ASSUME NEW p \in Ops, NEW type \in Own \cup Failing, WorkReports(p, type),
              ops[p].work # "none", type \in Failing \/ type = Advances[ops[p].work]
       PROVE  \/ ops'[o] = ops[o]
              \/ \E t \in Own \cup Failing :
                   /\ ops'[o] = Reported(o, t) /\ ops[o].work # "none"
                   /\ t \in Failing \/ t = Advances[ops[o].work]
  <2>1. ops' = [ops EXCEPT ![p] = Reported(p, type)]
    BY <1>10, ReportedOp
  <2> QED BY <1>1, <1>10, <2>1
<1>11. ASSUME NEW p \in Ops, WorkSucceeds(p) \/ WorkFails(p)
       PROVE  \E type \in Own \cup Failing : /\ WorkReports(p, type) /\ ops[p].work # "none"
                                             /\ type \in Failing \/ type = Advances[ops[p].work]
  <2>1. CASE WorkFails(p)
    BY <2>1 DEF WorkFails, Failing
  <2>2. CASE WorkSucceeds(p)
    <3>1. ops[p].work \in Working
      BY <2>2 DEF WorkSucceeds, HostType, OpActors
    <3>2. Reports[ops[p].work] \in Own /\ Reports[ops[p].work] = Advances[ops[p].work]
      BY <3>1 DEF Reports, Working, Own, Advances
    <3> QED BY <2>2, <3>2 DEF WorkSucceeds
  <2> QED BY <1>11, <2>1, <2>2
<1>12. ASSUME NEW s \in Steps,
              Requesting(s) \/ UserDecides(s) \/ RequestRejectsInput(s) \/ RequestBreaks(s)
       PROVE  \/ ops' = ops
              \/ Asking(s) \in Ops /\
                 \E type \in Own \cup Failing :
                   /\ WorkReports(Asking(s), type) /\ ops[Asking(s)].work # "none"
                   /\ type \in Failing \/ type = Advances[ops[Asking(s)].work]
  <2>1. Asking(s) \in Ops
    BY OpNames DEF Asking
  <2>2. Request(s) => ops[Asking(s)].work # "none" /\ Advances[ops[Asking(s)].work] = "returned"
    BY DEF Request, Advances
  <2>3. "returned" \in Own /\ "failed" \in Failing
    BY DEF Own, Failing
  <2>4. CASE RequestValidates(s) \/ UserAllows(s, TRUE) \/ UserAllows(s, FALSE) \/ UserRejects(s)
    BY <2>4 DEF RequestValidates, UserAllows, UserRejects
  <2>5. CASE RequestReturns(s) \/ UserDismisses(s)
    BY <2>1, <2>2, <2>3, <2>5 DEF RequestReturns, UserDismisses, Unasked
  <2>6. CASE RequestStops(s) \/ RequestBreaks(s) \/ RequestRejectsInput(s)
    BY <2>1, <2>2, <2>3, <2>6 DEF RequestStops, RequestBreaks, RequestRejectsInput, Unasked
  <2> QED BY <1>12, <2>4, <2>5, <2>6 DEF Requesting, UserDecides
<1>13. ASSUME NEW s \in Steps, BatchStep(s)
       PROVE  ops'[o] \in {ops[o], Sent(ops[o], Event("cancel")), Spawned(o)}
  <2>1. CASE BatchStarts(s)
    BY <2>1 DEF BatchStarts
  <2>2. CASE BatchCancelled(s) \/ BatchSettles(s)
    <3>1. \A outcome, results : BatchEnds(s, outcome, results) =>
            ops'[o] \in {ops[o], Sent(ops[o], Event("cancel"))}
      BY DEF BatchEnds
    <3> QED BY <2>2, <3>1 DEF BatchCancelled, BatchSettles
  <2>3. CASE BatchCounts(s) \/ \E c \in DOMAIN ToolOf : RefusalReported(s, c)
    BY <2>3 DEF BatchCounts, RefusalReported
  <2> QED BY <1>13, <2>1, <2>2, <2>3 DEF BatchStep
<1> QED BY <1>4, <1>5, <1>6, <1>7, <1>8, <1>9, <1>10, <1>11, <1>12, <1>13 DEF Next, OpStep, vars

\* Operations stay in order.
LEMMA OperationsInOrder ==
  ASSUME HostType, Appending, OperationInv, [Next]_vars
  PROVE  OperationInv'
<1>1. SUFFICES ASSUME NEW o \in Ops PROVE InOrder(ops'[o])
  BY DEF OperationInv, Live, InOrder
<1>2. ops[o] \in OpActors /\ InOrder(ops[o])
  BY DEF HostType, OperationInv, InOrder, Live
<1>3. \A t \in Failing : InOrder(Sent(ops[o], Event(t)))
  BY <1>2, StopIsOrdered DEF InOrder
<1>4. CASE ops'[o] \in {ops[o], Sent(ops[o], Event("cancel")), Spawned(o)}
  <2>1. InOrder(Spawned(o))
    BY SpawnIsOrdered DEF InOrder
  <2> QED BY <1>2, <1>3, <1>4, <2>1 DEF Failing
<1>5. CASE Live(o) /\ \E next \in Final : ops'[o] = Over(o, next)
  BY <1>5, FreshActors DEF InOrder
<1>6. CASE ops'[o] = [Sent(ops[o], Event("timeout")) EXCEPT !.timer = FALSE]
  <2> DEFINE a == Sent(ops[o], Event("timeout"))
  <2>1. a \in OpActors /\ InOrder(a)
    BY <1>2, <1>3, SentOp DEF Failing
  <2> HIDE DEF a
  <2>2. LET b == [a EXCEPT !.timer = FALSE] IN
          b.status = a.status /\ b.inbox = a.inbox /\ b.work = a.work /\ b.timer = FALSE
    BY <2>1 DEF OpActors
  <2> QED BY <1>6, <2>1, <2>2 DEF InOrder, Ordered, Quiet, a
<1>7. CASE OpAdvances(o)
  <2>1. PICK b \in OpActors, next \in Working :
           /\ ops' = [ops EXCEPT ![o] = b]
           /\ b.status = next /\ b.work = next
           /\ \A i \in DOMAIN b.inbox : b.inbox[i].type \notin Own
    BY <1>7, AdvancedOp
  <2>2. Ordered(b) /\ b.status \notin Final \cup {"none"}
    BY <2>1 DEF Ordered, Working, Final
  <2> QED BY <2>1, <2>2 DEF InOrder, HostType
<1>8. CASE \E type \in Own \cup Failing :
              /\ ops'[o] = Reported(o, type) /\ ops[o].work # "none"
              /\ type \in Failing \/ type = Advances[ops[o].work]
  BY <1>8, ReportIsOrdered
<1> QED BY <1>4, <1>5, <1>6, <1>7, <1>8, OpChanges

-----------------------------------------------------------------------------
\* Inboxes

\* An inbox that a further event is sent to.
LEMMA Prolonged ==
  ASSUME NEW a \in OpActors, NEW b \in OpActors, NEW t \in Own \cup Failing,
         b.inbox = Append(a.inbox, Event(t))
  PROVE  /\ ToldToStop(a) => ToldToStop(b)
         /\ Blocked(a) => Blocked(b)
         /\ \A x : Holds(b, x) => Holds(a, x) \/ x = t
         /\ t \in Failing => /\ ToldToStop(b)
                             /\ ~Holds(a, "input_valid") => Blocked(b)
<1> DEFINE M == [type : Own \cup Failing]
<1>1. a.inbox \in Seq(M) /\ Event(t) \in M /\ Event(t).type = t
  BY DEF OpActors, Event
<1> HIDE DEF M
<1>2. /\ DOMAIN a.inbox = 1..Len(a.inbox) /\ Len(a.inbox) \in Nat
      /\ DOMAIN b.inbox = 1..(Len(a.inbox) + 1)
      /\ \A i \in DOMAIN a.inbox : b.inbox[i] = a.inbox[i]
      /\ b.inbox[Len(a.inbox) + 1] = Event(t)
  BY <1>1, Appended
<1>3. ToldToStop(a) => ToldToStop(b)
  BY <1>2 DEF ToldToStop
<1>4. Blocked(a) => Blocked(b)
  <2> SUFFICES ASSUME Blocked(a) PROVE Blocked(b)
    OBVIOUS
  <2>1. PICK i \in DOMAIN a.inbox : /\ a.inbox[i].type \in Failing
                                    /\ \A j \in 1..(i - 1) : a.inbox[j].type # "input_valid"
    BY DEF Blocked
  <2>2. i \in DOMAIN b.inbox /\ b.inbox[i].type \in Failing
    BY <1>2, <2>1
  <2>3. \A j \in 1..(i - 1) : j \in DOMAIN a.inbox
    BY <1>2, <2>1
  <2>4. \A j \in 1..(i - 1) : b.inbox[j].type # "input_valid"
    BY <1>2, <2>1, <2>3
  <2> QED BY <2>2, <2>4 DEF Blocked
<1>5. \A x : Holds(b, x) => Holds(a, x) \/ x = t
  BY <1>1, <1>2 DEF Holds
<1>6. ASSUME t \in Failing
      PROVE  ToldToStop(b) /\ (~Holds(a, "input_valid") => Blocked(b))
  <2> DEFINE n == Len(a.inbox) + 1
  <2>1. n \in DOMAIN b.inbox /\ b.inbox[n].type = t
    BY <1>1, <1>2
  <2>2. \A j \in 1..(n - 1) : j \in DOMAIN a.inbox
    BY <1>2
  <2> HIDE DEF n
  <2>3. ToldToStop(b)
    BY <1>6, <2>1 DEF ToldToStop, Failing
  <2>4. ~Holds(a, "input_valid") => \A j \in 1..(n - 1) : b.inbox[j].type # "input_valid"
    BY <1>2, <2>2 DEF Holds
  <2> QED BY <1>6, <2>1, <2>3, <2>4 DEF Blocked
<1> QED BY <1>3, <1>4, <1>5, <1>6

\* An inbox that an event of the operation's own was taken from.
LEMMA Shortened ==
  ASSUME NEW a \in OpActors, NEW b, a.inbox # << >>, Head(a.inbox).type \in Own,
         b.inbox = Tail(a.inbox)
  PROVE  /\ ToldToStop(a) => ToldToStop(b)
         /\ Blocked(a) => Blocked(b) /\ Head(a.inbox).type # "input_valid"
<1> DEFINE M == [type : Own \cup Failing]
<1>1. a.inbox \in Seq(M)
  BY DEF OpActors
<1> HIDE DEF M
<1>2. /\ Head(a.inbox) = a.inbox[1] /\ 1 \in DOMAIN a.inbox
      /\ \A i \in DOMAIN b.inbox :
           i \in Nat /\ i + 1 \in DOMAIN a.inbox /\ i + 1 # 1 /\ b.inbox[i] = a.inbox[i + 1]
      /\ \A i \in DOMAIN a.inbox : i # 1 => i - 1 \in DOMAIN b.inbox /\ b.inbox[i - 1] = a.inbox[i]
  BY <1>1, Beheaded
<1>3. \A i \in DOMAIN a.inbox : i \in Nat \ {0} /\ \A j \in 1..i : j \in DOMAIN a.inbox
  BY <1>1
<1>4. a.inbox[1].type \notin {"cancel", "timeout", "failed"}
  BY <1>2 DEF Own
<1>5. ToldToStop(a) => ToldToStop(b)
  BY <1>2, <1>4 DEF ToldToStop
<1>6. ASSUME Blocked(a) PROVE Blocked(b) /\ Head(a.inbox).type # "input_valid"
  <2>1. PICK i \in DOMAIN a.inbox : /\ a.inbox[i].type \in Failing
                                    /\ \A j \in 1..(i - 1) : a.inbox[j].type # "input_valid"
    BY <1>6 DEF Blocked
  <2>2. i # 1
    BY <1>4, <2>1 DEF Failing
  <2>3. i \in Nat /\ i > 1
    BY <1>3, <2>2
  <2>4. a.inbox[1].type # "input_valid"
    BY <2>1, <2>3
  <2>5. i - 1 \in DOMAIN b.inbox /\ b.inbox[i - 1].type \in Failing
    BY <1>2, <2>1, <2>2
  <2>6. ASSUME NEW j \in 1..((i - 1) - 1)
        PROVE  b.inbox[j].type # "input_valid"
    <3>1. j + 1 \in 1..(i - 1) /\ j + 1 \in DOMAIN a.inbox /\ j + 1 # 1 /\ j \in Nat /\ (j + 1) - 1 = j
      BY <1>3, <2>3
    <3>2. b.inbox[j] = a.inbox[j + 1]
      BY <1>2, <3>1
    <3> QED BY <2>1, <3>1, <3>2
  <2> QED BY <1>2, <2>4, <2>5, <2>6 DEF Blocked
<1> QED BY <1>5, <1>6

\* An actor goes on, and keeps what it was told.
Goes(a, b) ==
  /\ b.status = a.status
  /\ ToldToStop(a) => ToldToStop(b)
  /\ Blocked(a) => Blocked(b)
  /\ \A type \in Own : Holds(b, type) => Holds(a, type)

\* What a reason to stop does to an operation.
LEMMA SentStops ==
  ASSUME NEW a \in OpActors, NEW t \in Failing
  PROVE  LET b == Sent(a, Event(t)) IN
         /\ Goes(a, b)
         /\ a.status \notin Final \cup {"none"} =>
              /\ ToldToStop(b)
              /\ Blocked(a) \/ ~Holds(a, "input_valid") => Blocked(b)
<1> DEFINE b == Sent(a, Event(t))
<1>1. /\ b \in OpActors /\ b.status = a.status
      /\ a.status \in Final \cup {"none"} => b = a
      /\ a.status \notin Final \cup {"none"} => b.inbox = Append(a.inbox, Event(t))
  BY SentOp
<1> HIDE DEF b
<1>2. CASE a.status \in Final \cup {"none"}
  BY <1>1, <1>2 DEF Goes, b
<1>3. CASE a.status \notin Final \cup {"none"}
  <2>1. /\ ToldToStop(a) => ToldToStop(b)
        /\ Blocked(a) => Blocked(b)
        /\ \A x : Holds(b, x) => Holds(a, x) \/ x = t
        /\ ToldToStop(b) /\ (~Holds(a, "input_valid") => Blocked(b))
    BY <1>1, <1>3, Prolonged
  <2>2. t \notin Own
    BY DEF Own, Failing
  <2> QED BY <1>1, <1>3, <2>1, <2>2 DEF Goes, b
<1> QED BY <1>2, <1>3

\* What an event does to a batch.
LEMMA SentToBatch ==
  ASSUME NEW a \in BatchActors, NEW e \in [type : {"start", "cancel"}] \cup Counteds
  PROVE  LET b == Sent(a, e) IN
         /\ Holds(a, "cancel") => Holds(b, "cancel")
         /\ e.type = "cancel" /\ a.status \in {"ready", "running"} => Holds(b, "cancel")
         /\ \A i \in DOMAIN b.inbox :
              \/ \E j \in DOMAIN a.inbox : a.inbox[j] = b.inbox[i]
              \/ a.status \in {"ready", "running"} /\ b.inbox[i] = e
<1> DEFINE M == [type : {"start", "cancel"}] \cup Counteds
           b == Sent(a, e)
<1>1. /\ a.status \in {"none", "settled"} => b = a
      /\ a.status \in {"ready", "running"} => b.inbox = Append(a.inbox, e)
  BY SentBatch
<1>2. a.inbox \in Seq(M) /\ e \in M /\ a.status \in {"none", "ready", "running", "settled"}
  BY DEF BatchActors
<1> HIDE DEF M, b
<1>3. CASE a.status \in {"none", "settled"}
  BY <1>1, <1>3 DEF b
<1>4. CASE a.status \in {"ready", "running"}
  <2>1. /\ DOMAIN a.inbox \subseteq DOMAIN b.inbox /\ Len(a.inbox) + 1 \in DOMAIN b.inbox
        /\ \A i \in DOMAIN a.inbox : b.inbox[i] = a.inbox[i]
        /\ b.inbox[Len(a.inbox) + 1] = e
        /\ \A i \in DOMAIN b.inbox : i \in DOMAIN a.inbox \/ i = Len(a.inbox) + 1
    BY <1>1, <1>2, <1>4, Appended
  <2> QED BY <1>4, <2>1 DEF Holds, b
<1> QED BY <1>2, <1>3, <1>4

-----------------------------------------------------------------------------
\* Steps that leave the turn where it is

\* The children of a turn that stays where it is.
LEMMA SpawningKept ==
  ASSUME Spawning, turn' = turn,
         \A o \in Ops : ops'[o].status # "none" =>
           \/ ops[o].status # "none"
           \/ o[1] = "tool" /\ batches'[o[2]].status \in {"running", "settled"} /\ o[2] <= turn.step,
         \A s \in Steps :
           /\ batches[s].status \in {"running", "settled"} => batches'[s].status \in {"running", "settled"}
           /\ batches'[s].status # "none" => batches[s].status # "none"
  PROVE  Spawning'
<1>1. ASSUME NEW o \in Ops, ops'[o].status # "none"
      PROVE  /\ o[2] <= turn.step
             /\ o[1] = "permission" /\ o[2] = turn.step => turn.phase # "awaiting_model"
             /\ o[1] = "tool" => batches'[o[2]].status \in {"running", "settled"}
  <2>1. o[2] \in Steps
    BY OpNames
  <2> QED BY <1>1, <2>1 DEF Spawning
<1>2. \A s \in Steps : batches'[s].status # "none" =>
        s <= turn.step /\ (s = turn.step => turn.phase \notin {"awaiting_model", "awaiting_permission"})
  BY DEF Spawning
<1> QED BY <1>1, <1>2 DEF Spawning

\* A settlement that tells the truth.
True_(in) ==
  /\ in.kind \in {"completion", "permission"} => ops[<<in.kind, in.step>>].status \in Final
  /\ in.kind = "permission" /\ grants[in.step].held =>
       in.result = "succeeded" /\ grants[in.step].approved
  /\ in.kind = "batch" => batches[in.step].status = "settled"

\* Settlements on their way.
LEMMA SettlingKept ==
  ASSUME HostType, Settling,
         \A in \in Waiting' : in \in Waiting \/ True_(in)' \/ in.kind \in {"user", "abort", "tool", "failed"},
         \A o \in Ops : ops[o].status \in Final => ops'[o].status \in Final,
         \A s \in Steps : batches[s].status = "settled" => batches'[s].status = "settled",
         \A s \in Steps : \/ grants'[s] = grants[s] \/ ~grants'[s].held
                          \/ ops[<<"permission", s>>].status \notin Final
  PROVE  Settling'
<1>1. \A in \in Waiting : in \in Submissions
  <2>1. inbox \in Seq(Submissions) /\ (writing = {} \/ \E in \in Submissions : writing = {in})
    BY DEF HostType
  <2> HIDE DEF Submissions
  <2> QED BY <2>1 DEF Waiting
<1>2. ASSUME NEW in \in Waiting PROVE True_(in)'
  <2>1. True_(in) /\ in \in Submissions
    BY <1>1 DEF Settling, True_
  <2>2. in.kind \in {"completion", "permission", "batch"} => in.step \in Steps
    BY <2>1 DEF Submissions, Settlements, Results
  <2>3. in.kind \in {"completion", "permission"} => <<in.kind, in.step>> \in Ops
    BY <2>2, OpNames
  <2> QED BY <2>1, <2>2, <2>3 DEF True_
<1>3. \A in : in.kind \in {"user", "abort", "tool", "failed"} => True_(in)'
  BY DEF True_
<1> QED BY <1>2, <1>3 DEF Settling, True_

\* Outcomes that wait to count.
LEMMA ReportingKept ==
  ASSUME HostType, Reporting,
         \A p \in unreleased' : \/ p \in unreleased
                                \/ batches'[p.step].status \in {"running", "settled"} /\ Done(p.step, p.call)',
         \A s \in Steps, c \in DOMAIN ToolOf :
           Done(s, c) => Done(s, c)' \/ batches[s].status = "ready",
         \A s \in Steps :
           /\ batches[s].status \in {"running", "settled"} => batches'[s].status \in {"running", "settled"}
           /\ \A i \in DOMAIN batches'[s].inbox : batches'[s].inbox[i].type = "tool_settled" =>
                \/ batches'[s].status = "running" /\ Done(s, batches[s].inbox[i].call)'
                \/ /\ \E j \in DOMAIN batches[s].inbox : batches[s].inbox[j] = batches'[s].inbox[i]
                   /\ batches[s].status = "running" => batches'[s].status = "running"
  PROVE  Reporting'
<1>1. ASSUME NEW p \in unreleased
      PROVE  batches'[p.step].status \in {"running", "settled"} /\ Done(p.step, p.call)'
  BY DEF HostType, Reporting
<1>2. ASSUME NEW s \in Steps, NEW i \in DOMAIN batches'[s].inbox,
             batches'[s].inbox[i].type = "tool_settled"
      PROVE  batches'[s].status = "running" /\ Done(s, batches[s].inbox[i].call)'
  <2>1. ASSUME NEW j \in DOMAIN batches[s].inbox, batches[s].inbox[j] = batches'[s].inbox[i],
               batches[s].status = "running" => batches'[s].status = "running"
        PROVE  batches'[s].status = "running" /\ Done(s, batches[s].inbox[i].call)'
    <3>1. batches[s].inbox[j] \in Counteds
      <4>1. batches[s].inbox[j] \in [type : {"start", "cancel"}] \cup Counteds
        BY BatchChanges
      <4> QED BY <1>2, <2>1, <4>1
    <3>2. batches[s].status = "running" /\ Done(s, batches[s].inbox[j].call)
      BY <1>2, <2>1 DEF Reporting
    <3> QED BY <2>1, <3>1, <3>2 DEF Counteds
  <2> QED BY <1>2, <2>1
<1> QED BY <1>1, <1>2 DEF Reporting

\* A batch wants the outcome of a tool.
Wanted(o) == batches[o[2]].status = "running" /\ o[3] \in batches[o[2]].pending

\* What lives when the turn goes on.
LEMMA ServingKept ==
  ASSUME Serving, turn' = turn, closed' = closed,
         \A s \in Steps :
           /\ batches'[s].status \in {"ready", "running"} =>
                /\ batches[s].status \in {"ready", "running"}
                /\ Holds(batches[s], "cancel") => Holds(batches'[s], "cancel")
           /\ batches'[s].results \cap batches'[s].pending = {},
         \A o \in Ops : Live(o)' =>
           \/ ToldToStop(ops'[o])
           \/ o[1] = "tool" /\ Wanted(o)'
           \/ Live(o) /\ (ToldToStop(ops[o]) => ToldToStop(ops'[o]))
              /\ (o[1] = "tool" => (Wanted(o) => Wanted(o)'))
  PROVE  Serving'
<1>1. SUFFICES ASSUME NEW s \in Steps
      PROVE /\ batches'[s].status \in {"ready", "running"} =>
                 \/ ~closed' /\ s = turn'.step /\ KindOf(turn.phase)' = "batch" /\ ~Idle'
                 \/ Holds(batches'[s], "cancel")
            /\ Live(<<"completion", s>>)' =>
                 \/ ~closed' /\ s = turn'.step /\ turn'.phase = "awaiting_model"
                 \/ ToldToStop(ops'[<<"completion", s>>])
            /\ Live(<<"permission", s>>)' =>
                 \/ ~closed' /\ s = turn'.step /\ turn'.phase = "awaiting_permission"
                 \/ ToldToStop(ops'[<<"permission", s>>])
            /\ \A c \in DOMAIN ToolOf : Live(<<"tool", s, c>>)' =>
                 \/ batches'[s].status = "running" /\ c \in batches'[s].pending
                 \/ ToldToStop(ops'[<<"tool", s, c>>])
  BY DEF Serving
<1>2. Idle' = Idle /\ KindOf(turn.phase)' = KindOf(turn.phase)
  BY DEF Idle, KindOf
<1>3. batches'[s].status \in {"ready", "running"} =>
                 \/ ~closed' /\ s = turn'.step /\ KindOf(turn.phase)' = "batch" /\ ~Idle'
                 \/ Holds(batches'[s], "cancel")
  BY <1>2 DEF Serving
<1>4. Live(<<"completion", s>>)' =>
                 \/ ~closed' /\ s = turn'.step /\ turn'.phase = "awaiting_model"
                 \/ ToldToStop(ops'[<<"completion", s>>])
  <2>1. <<"completion", s>> \in Ops /\ <<"completion", s>>[1] # "tool"
    BY OpNames
  <2> QED BY <2>1 DEF Serving
<1>5. Live(<<"permission", s>>)' =>
                 \/ ~closed' /\ s = turn'.step /\ turn'.phase = "awaiting_permission"
                 \/ ToldToStop(ops'[<<"permission", s>>])
  <2>1. <<"permission", s>> \in Ops /\ <<"permission", s>>[1] # "tool"
    BY OpNames
  <2> QED BY <2>1 DEF Serving
<1>6. ASSUME NEW c \in DOMAIN ToolOf, Live(<<"tool", s, c>>)'
      PROVE  \/ batches'[s].status = "running" /\ c \in batches'[s].pending
             \/ ToldToStop(ops'[<<"tool", s, c>>])
  <2> DEFINE o == <<"tool", s, c>>
  <2>1. o \in Ops /\ o[1] = "tool" /\ o[2] = s /\ o[3] = c
    BY OpNames
  <2>2. Wanted(o) \/ ToldToStop(ops[o]) \/ ~Live(o)
    BY <2>1 DEF Serving, Wanted
  <2>3. Wanted(o)' \/ ToldToStop(ops'[o])
    BY <1>6, <2>1, <2>2
  <2> QED BY <2>1, <2>3 DEF Wanted
<1> QED BY <1>3, <1>4, <1>5, <1>6

\* No tool of a step has been started.
Unstarted(s, c) == batches[s].status = "none" /\ ~Live(<<"tool", s, c>>)

\* What was allowed, when the turn goes on.
LEMMA ApprovingKept ==
  ASSUME HostType, Approving, turn' = turn, mode' = mode,
         standing \subseteq standing', remembered' \subseteq standing',
         \A s \in Steps, c \in DOMAIN ToolOf :
           Ok(s, c) => Ok(s, c)' \/ (Unstarted(s, c) /\ GrantInv(s)' /\ Asked(s)'),
         \A s \in Steps :
           /\ \/ grants'[s] = grants[s] /\ closed' = closed
              \/ grants'[s] = NoGrant \/ (GrantInv(s)' /\ Asked(s)')
           /\ \/ GrantInv(s)' /\ Asked(s)'
              \/ \/ ops'[<<"permission", s>>].status = "validating_output"
                 \/ Holds(ops'[<<"permission", s>>], "returned")
                 => \/ ops[<<"permission", s>>].status = "validating_output"
                    \/ Holds(ops[<<"permission", s>>], "returned")
           /\ \/ batches'[s].status \notin {"ready", "running"}
              \/ /\ batches[s].status \in {"ready", "running"}
                 /\ batches'[s].pending \subseteq batches[s].pending
                 /\ batches'[s].status = "ready" =>
                      batches[s].status = "ready" /\ batches'[s].pending = batches[s].pending
                 /\ batches'[s].granted = batches[s].granted
                 /\ batches'[s].refused = batches[s].refused
                 /\ batches'[s].invalid = batches[s].invalid
           /\ batches[s].status # "none" => batches'[s].status # "none",
         \A s \in Steps, c \in DOMAIN ToolOf : Live(<<"tool", s, c>>)' =>
           \/ mode.asks => Ok(s, c)'
           \/ Unrun(s, c)'
           \/ Live(<<"tool", s, c>>) /\ (Unrun(s, c) => Unrun(s, c)'),
         \A r \in ran' : \/ r \in ran
                         \/ r \in Steps \X DOMAIN ToolOf /\ batches'[r[1]].status # "none"
                            /\ (mode.asks => Ok(r[1], r[2])')
  PROVE  Approving'
<1>1. CallSet' = CallSet
  BY DEF CallSet
<1>2. \A i \in 1..mode.calls : Calls[i] \in DOMAIN ToolOf
  BY ModeType
<1>3. ASSUME NEW s \in Steps PROVE GrantInv(s)'
  <2>1. CASE grants'[s] = NoGrant
    <3>1. ~NoGrant.held
      BY DEF NoGrant
    <3> QED BY <2>1, <3>1 DEF GrantInv
  <2>2. CASE grants'[s] = grants[s] /\ closed' = closed
    <3>1. GrantInv(s)
      BY DEF Approving
    <3>2. CASE ~grants[s].held
      BY <2>2, <3>1, <3>2 DEF GrantInv
    <3>3. CASE grants[s].held
      <4>1. \A i \in 1..(grants[s].next - 1) : i \in 1..mode.calls
        BY <3>1, <3>3, ModeType DEF GrantInv
      <4>2. CASE \A i \in 1..(grants[s].next - 1) : Ok(s, Calls[i]) => Ok(s, Calls[i])'
        BY <2>2, <3>1, <3>3, <1>1, <4>2 DEF GrantInv
      <4> QED BY <1>2, <4>1, <4>2
    <3> QED BY <3>2, <3>3
  <2> QED BY <2>1, <2>2
<1>4. ASSUME NEW s \in Steps PROVE Asked(s)'
  <2>1. CASE grants'[s] = NoGrant
    BY <2>1 DEF Asked, NoGrant
  <2>2. CASE grants'[s] = grants[s]
    <3>1. Asked(s)
      BY DEF Approving
    <3> QED BY <2>2, <3>1 DEF Asked
  <2> QED BY <2>1, <2>2
<1>5. ASSUME NEW s \in Steps PROVE BatchInv(s)'
  <2>1. BatchInv(s)
    BY DEF Approving
  <2>2. CASE batches'[s].status \notin {"ready", "running"}
    BY <2>2 DEF BatchInv
  <2>3. CASE /\ batches[s].status \in {"ready", "running"}
             /\ batches'[s].pending \subseteq batches[s].pending
             /\ batches'[s].status = "ready" =>
                  batches[s].status = "ready" /\ batches'[s].pending = batches[s].pending
             /\ batches'[s].granted = batches[s].granted
             /\ batches'[s].refused = batches[s].refused
             /\ batches'[s].invalid = batches[s].invalid
    <3>1. \A c \in CallSet : Ok(s, c) => Ok(s, c)'
      BY <2>3, ModeType DEF Unstarted
    <3> QED BY <2>1, <2>3, <3>1, <1>1 DEF BatchInv
  <2> QED BY <2>2, <2>3
<1>6. ASSUME NEW s \in Steps, NEW c \in DOMAIN ToolOf, mode.asks, Live(<<"tool", s, c>>)'
      PROVE  Ok(s, c)' \/ Unrun(s, c)'
  <2>1. Live(<<"tool", s, c>>) => Ok(s, c) \/ Unrun(s, c)
    BY <1>6 DEF Approving
  <2> QED BY <1>6, <2>1 DEF Unstarted
<1>7. ASSUME NEW r \in ran'
      PROVE  batches'[r[1]].status # "none" /\ (mode.asks => Ok(r[1], r[2])')
  <2>1. CASE r \in ran
    <3>1. r[1] \in Steps /\ r[2] \in DOMAIN ToolOf
      BY <2>1 DEF HostType
    <3> QED BY <2>1, <3>1 DEF Approving, Unstarted
  <2> QED BY <2>1
<1> QED BY <1>3, <1>4, <1>5, <1>6, <1>7 DEF Approving

\* What is on its way after a submission is posted, taken, or reported to have failed.
LEMMA WaitingChanges ==
  ASSUME HostType
  PROVE  /\ \A e \in Submissions :
              inbox' = Append(inbox, e) /\ writing' = writing => Waiting' \subseteq Waiting \cup {e}
         /\ inbox # << >> =>
              /\ Head(inbox) \in Waiting /\ Head(inbox) \in Submissions
              /\ Tail(inbox) \in Seq(Submissions)
              /\ \A t \in Seq(Submissions) :
                   inbox' = Tail(inbox) \o t /\ writing' \subseteq writing \cup {Head(inbox)} =>
                     \A x \in Waiting' : x \in Waiting \/ \E i \in DOMAIN t : x = t[i]
              /\ inbox' = Tail(inbox) /\ writing' \subseteq writing \cup {Head(inbox)} =>
                     Waiting' \subseteq Waiting
         /\ \A t \in Seq(Submissions) : inbox' = inbox \o t /\ writing' \subseteq writing =>
              \A x \in Waiting' : x \in Waiting \/ \E i \in DOMAIN t : x = t[i]
         /\ \A x \in Waiting : x \in Submissions
<1>1. inbox \in Seq(Submissions) /\ (writing = {} \/ \E in \in Submissions : writing = {in})
  BY DEF HostType
<1> HIDE DEF Submissions
<1>2. \A s, t \in Seq(Submissions) : \A i \in DOMAIN (s \o t) :
        \/ i \in DOMAIN s /\ (s \o t)[i] = s[i]
        \/ \E j \in DOMAIN t : (s \o t)[i] = t[j]
  <2> SUFFICES ASSUME NEW s \in Seq(Submissions), NEW t \in Seq(Submissions), NEW i \in DOMAIN (s \o t)
               PROVE \/ i \in DOMAIN s /\ (s \o t)[i] = s[i]
                     \/ \E j \in DOMAIN t : (s \o t)[i] = t[j]
    OBVIOUS
  <2>1. i \in 1..(Len(s) + Len(t)) /\ DOMAIN s = 1..Len(s) /\ DOMAIN t = 1..Len(t)
        /\ Len(s) \in Nat /\ Len(t) \in Nat
    BY ConcatProperties
  <2>2. CASE i <= Len(s)
    BY <2>1, <2>2, ConcatProperties
  <2>3. CASE i > Len(s)
    <3>1. (s \o t)[i] = t[i - Len(s)] /\ i - Len(s) \in DOMAIN t
      BY <2>1, <2>3, ConcatProperties
    <3> QED BY <3>1
  <2> QED BY <2>1, <2>2, <2>3
<1>3. ASSUME NEW e \in Submissions, inbox' = Append(inbox, e), writing' = writing
      PROVE  Waiting' \subseteq Waiting \cup {e}
  <2>1. \A i \in DOMAIN inbox' : (i \in DOMAIN inbox /\ inbox'[i] = inbox[i]) \/ inbox'[i] = e
    BY <1>1, <1>3, Appended
  <2> QED BY <1>3, <2>1 DEF Waiting
<1>4. inbox # << >> =>
        /\ Head(inbox) \in Waiting /\ Head(inbox) \in Submissions /\ Tail(inbox) \in Seq(Submissions)
        /\ \A i \in DOMAIN Tail(inbox) : i + 1 \in DOMAIN inbox /\ Tail(inbox)[i] = inbox[i + 1]
  BY <1>1, Beheaded DEF Waiting
<1>5. ASSUME inbox # << >>, NEW t \in Seq(Submissions), inbox' = Tail(inbox) \o t,
             writing' \subseteq writing \cup {Head(inbox)}, NEW x \in Waiting'
      PROVE  x \in Waiting \/ \E i \in DOMAIN t : x = t[i]
  <2>1. CASE x \in writing'
    BY <1>4, <1>5, <2>1 DEF Waiting
  <2>2. ASSUME NEW i \in DOMAIN inbox', x = inbox'[i]
        PROVE  x \in Waiting \/ \E j \in DOMAIN t : x = t[j]
    BY <1>2, <1>4, <1>5, <2>2 DEF Waiting
  <2> QED BY <2>1, <2>2 DEF Waiting
<1>6. ASSUME NEW t \in Seq(Submissions), inbox' = inbox \o t, writing' \subseteq writing, NEW x \in Waiting'
      PROVE  x \in Waiting \/ \E i \in DOMAIN t : x = t[i]
  <2>1. CASE x \in writing'
    BY <1>6, <2>1 DEF Waiting
  <2>2. ASSUME NEW i \in DOMAIN inbox', x = inbox'[i]
        PROVE  x \in Waiting \/ \E j \in DOMAIN t : x = t[j]
    BY <1>1, <1>2, <1>6, <2>2 DEF Waiting
  <2> QED BY <2>1, <2>2 DEF Waiting
<1>7. inbox # << >> /\ inbox' = Tail(inbox) /\ writing' \subseteq writing \cup {Head(inbox)} =>
        Waiting' \subseteq Waiting
  BY <1>4 DEF Waiting
<1>8. \A x \in Waiting : x \in Submissions
  BY <1>1 DEF Waiting
<1> QED BY <1>3, <1>4, <1>5, <1>6, <1>7, <1>8

\* What an append holds is still accepted: nothing else decides meanwhile.
LEMMA AppendingStep ==
  ASSUME Appending, [Next]_vars
  PROVE  Appending'
<1>1. CASE UNCHANGED <<mode, turn, partial, writing>>
  BY <1>1 DEF Appending, Accepts, Idle, Successes, Counts, CallSet, KindOf
<1>2. CASE SessionAppends
  <2>1. CASE Stageable(Head(inbox))
    <3>1. writing' = {Head(inbox)} /\ Accepts(Head(inbox)) /\ mode.journaled
          /\ UNCHANGED <<mode, turn, partial>>
      BY <1>2, <2>1 DEF SessionAppends
    <3>2. \A in : Accepts(in) => Accepts(in)'
      BY <3>1 DEF Accepts, Idle, Successes, Counts, CallSet, KindOf
    <3> QED BY <3>1, <3>2 DEF Appending
  <2>2. CASE ~Stageable(Head(inbox))
    BY <1>2, <2>2 DEF SessionAppends, Closes, Appending
  <2> QED BY <2>1, <2>2
<1>3. CASE SessionCommits \/ SessionEnds
  BY <1>3 DEF SessionCommits, SessionEnds, Closes, Appending
<1>4. CASE RuntimeActs
  BY <1>4 DEF RuntimeActs, Appending
<1>5. CASE SessionIgnores \/ ResetPermissions \/ Prompts \/ BargesIn \/ Aborts
  BY <1>5, <1>1 DEF SessionIgnores, ResetPermissions, Prompts, BargesIn, Aborts
<1>6. ASSUME NEW o \in Ops, OpStep(o) \/ DeadlineFires(o) \/ WorkSucceeds(o) \/ WorkFails(o)
      PROVE  Appending'
  BY <1>6, <1>1 DEF OpStep, OpAdvances, OpSettles, DeadlineFires, WorkSucceeds, WorkFails
<1>7. ASSUME NEW s \in Steps,
             Requesting(s) \/ UserDecides(s) \/ RequestRejectsInput(s) \/ RequestBreaks(s)
      PROVE  Appending'
  BY <1>7, <1>1 DEF Requesting, UserDecides, RequestValidates, RequestReturns, RequestStops,
                    UserAllows, UserRejects, UserDismisses, RequestRejectsInput, RequestBreaks
<1>8. ASSUME NEW s \in Steps, BatchStep(s) PROVE Appending'
  BY <1>8, <1>1 DEF BatchStep, BatchStarts, BatchCancelled, BatchCounts, BatchSettles, BatchEnds,
                    RefusalReported
<1>9. CASE UNCHANGED vars
  BY <1>9, <1>1 DEF vars
<1> QED BY <1>2, <1>3, <1>4, <1>5, <1>6, <1>7, <1>8, <1>9 DEF Next, Session

\* All but the types, and the order within operations and the session's appends.
Rest == Spawning /\ Settling /\ Reporting /\ Serving /\ Approving

\* What the user says, and what the session drops or appends, moves nothing else.
LEMMA BystanderStep ==
  ASSUME HostInv,
         \/ SessionIgnores \/ ResetPermissions \/ Prompts \/ BargesIn \/ Aborts
         \/ (SessionAppends /\ Stageable(Head(inbox))) \/ UNCHANGED vars
  PROVE  Rest'
<1>1. HostType /\ Rest
  BY DEF HostInv, Rest
<1>2. UNCHANGED <<mode, turn, ops, batches, grants, unreleased, closed, ran, answer>>
  BY DEF SessionIgnores, ResetPermissions, Prompts, BargesIn, Aborts, SessionAppends, vars, hostVars
<1>3. \A x \in Waiting' : x \in Waiting \/ x.kind \in {"user", "abort"}
  <2>1. CASE SessionIgnores \/ (SessionAppends /\ Stageable(Head(inbox)))
    <3>1. inbox # << >> /\ inbox' = Tail(inbox) /\ writing' \subseteq writing \cup {Head(inbox)}
      BY <2>1 DEF SessionIgnores, SessionAppends
    <3> QED BY <1>1, <3>1, WaitingChanges
  <2>2. CASE Prompts \/ BargesIn \/ Aborts
    <3>1. PICK kind \in {"user", "abort"} : inbox' = Append(inbox, [kind |-> kind]) /\ writing' = writing
      BY <2>2 DEF Prompts, BargesIn, Aborts, Says
    <3>2. [kind |-> kind] \in Submissions
      BY DEF Submissions
    <3> QED BY <1>1, <3>1, <3>2, WaitingChanges
  <2>3. CASE ResetPermissions \/ UNCHANGED vars
    BY <2>3 DEF ResetPermissions, vars, Waiting
  <2> QED BY <2>1, <2>2, <2>3
<1>4. Spawning'
  BY <1>1, <1>2 DEF Rest, Spawning
<1>5. Settling'
  BY <1>1, <1>2, <1>3, SettlingKept DEF Rest
<1>6. Reporting'
  BY <1>1, <1>2 DEF Rest, Reporting, Done, Live
<1>7. Serving'
  BY <1>1, <1>2 DEF Rest, Serving, Live, Idle, KindOf
<1>8. Approving'
  <2>1. CASE standing' = standing /\ remembered' = remembered
    BY <1>1, <1>2, <2>1 DEF Rest, Approving, GrantInv, Asked, BatchInv, Unrun, Ok, Live, CallSet
  <2>2. CASE ResetPermissions
    <3>1. \A s \in Steps : ~grants[s].held
      BY <1>1, <2>2 DEF Rest, Approving, GrantInv, ResetPermissions, Idle
    <3>2. \A s \in Steps : GrantInv(s)'
      BY <1>1, <1>2, <3>1 DEF Rest, Approving, GrantInv
    <3> QED BY <1>1, <1>2, <2>2, <3>2 DEF Rest, Approving, Asked, BatchInv, Unrun, Ok, Live, CallSet, ResetPermissions
  <2>3. ResetPermissions \/ (standing' = standing /\ remembered' = remembered)
    BY DEF SessionIgnores, Prompts, BargesIn, Aborts, SessionAppends, vars, hostVars
  <2> QED BY <2>1, <2>2, <2>3
<1> QED BY <1>4, <1>5, <1>6, <1>7, <1>8 DEF Rest

\* The types of what an actor holds.
LEMMA ActorTypes ==
  ASSUME HostType
  PROVE  /\ \A o \in Ops : ops[o] \in OpActors
         /\ \A s \in Steps : batches[s] \in BatchActors /\ grants[s] \in Requested
BY DEF HostType

\* When the host closes, all that runs is told to stop, and nothing is granted.
LEMMA ClosesStep ==
  ASSUME HostInv, Closes
  PROVE  Rest'
<1>1. HostType /\ Rest
  BY DEF HostInv, Rest
<1>2. closed' = TRUE /\ UNCHANGED <<mode, turn, partial, ran, answer, standing>> /\ Waiting' = {}
      /\ unreleased' = {} /\ remembered' = {} /\ \A s \in Steps : grants'[s] = NoGrant
  BY DEF Closes, Waiting
<1>3. ASSUME NEW o \in Ops
      PROVE  /\ Goes(ops[o], ops'[o]) /\ Live(o)' = Live(o)
             /\ Live(o) => /\ ToldToStop(ops'[o])
                           /\ Blocked(ops[o]) \/ ~Holds(ops[o], "input_valid") => Blocked(ops'[o])
  <2>1. ops'[o] = Sent(ops[o], Event("cancel")) /\ ops[o] \in OpActors
    BY <1>1, ActorTypes DEF Closes
  <2>2. "cancel" \in Failing
    BY DEF Failing
  <2> QED BY <2>1, <2>2, SentStops DEF Live, Goes
<1>4. ASSUME NEW s \in Steps
      PROVE  /\ batches'[s].status = batches[s].status /\ batches'[s].pending = batches[s].pending
             /\ batches'[s].granted = batches[s].granted /\ batches'[s].refused = batches[s].refused
             /\ batches'[s].invalid = batches[s].invalid /\ batches'[s].results = batches[s].results
             /\ batches[s].status \in {"ready", "running"} => Holds(batches'[s], "cancel")
             /\ \A i \in DOMAIN batches'[s].inbox : batches'[s].inbox[i].type = "tool_settled" =>
                  \E j \in DOMAIN batches[s].inbox : batches[s].inbox[j] = batches'[s].inbox[i]
  <2> DEFINE e == Event("cancel")
  <2>1. batches'[s] = Sent(batches[s], e) /\ batches[s] \in BatchActors
    BY <1>1, ActorTypes DEF Closes
  <2>2. e \in [type : {"start", "cancel"}] \cup Counteds /\ e.type = "cancel"
    BY DEF Event
  <2> HIDE DEF e
  <2>3. /\ batches[s].status \in {"ready", "running"} => Holds(batches'[s], "cancel")
        /\ \A i \in DOMAIN batches'[s].inbox :
              \/ \E j \in DOMAIN batches[s].inbox : batches[s].inbox[j] = batches'[s].inbox[i]
              \/ batches'[s].inbox[i] = e
    BY <2>1, <2>2, SentToBatch
  <2> QED BY <2>1, <2>2, <2>3, SentBatch
<1>5. Spawning'
  BY <1>1, <1>2, <1>3, <1>4, SpawningKept DEF Rest, Goes
<1>6. Settling'
  BY <1>2 DEF Settling
<1>7. Reporting'
  <2>1. \A s \in Steps, c \in DOMAIN ToolOf : Done(s, c) => Done(s, c)'
    BY <1>3, OpNames DEF Done
  <2> QED BY <1>1, <1>2, <1>4, <2>1, ReportingKept DEF Rest
<1>8. Serving'
  <2>1. \A s \in Steps : /\ <<"completion", s>> \in Ops /\ <<"permission", s>> \in Ops
                         /\ \A c \in DOMAIN ToolOf : <<"tool", s, c>> \in Ops
    BY OpNames
  <2>2. \A s \in Steps : batches'[s].results \cap batches'[s].pending = {}
    BY <1>1, <1>4 DEF Rest, Serving
  <2> QED BY <1>3, <1>4, <2>1, <2>2 DEF Serving
<1>9. Approving'
  <2>1. \A s \in Steps, c \in DOMAIN ToolOf : Ok(s, c)' = Ok(s, c)
    BY <1>2 DEF Ok
  <2>2. ASSUME NEW s \in Steps
        PROVE  \/ ops'[<<"permission", s>>].status = "validating_output"
               \/ Holds(ops'[<<"permission", s>>], "returned")
               => \/ ops[<<"permission", s>>].status = "validating_output"
                  \/ Holds(ops[<<"permission", s>>], "returned")
    BY <1>3, OpNames DEF Goes, Own
  <2>3. ASSUME NEW s \in Steps, NEW c \in DOMAIN ToolOf, Live(<<"tool", s, c>>)'
        PROVE  Live(<<"tool", s, c>>) /\ (Unrun(s, c) => Unrun(s, c)')
    <3> DEFINE o == <<"tool", s, c>>
    <3>1. o \in Ops
      BY OpNames
    <3>2. Live(o) /\ Goes(ops[o], ops'[o])
      BY <1>3, <2>3, <3>1
    <3> HIDE DEF o
    <3>3. Holds(ops'[o], "input_valid") => Holds(ops[o], "input_valid")
      BY <3>2 DEF Goes, Own
    <3> QED BY <1>4, <3>2, <3>3 DEF Unrun, Goes, o
  <2> QED BY <1>1, <1>2, <1>4, <2>1, <2>2, <2>3, ApprovingKept DEF Rest
<1> QED BY <1>5, <1>6, <1>7, <1>8, <1>9 DEF Rest

-----------------------------------------------------------------------------
\* Work and requests

\* An operation at work keeps what it was told.
Carries(o) ==
  /\ ops'[o].status = ops[o].status
  /\ ToldToStop(ops[o]) => ToldToStop(ops'[o])
  /\ o[1] = "tool" => (Unrun(o[2], o[3]) => Unrun(o[2], o[3])')

\* A request has returned, or will.
Returning(s) ==
  \/ ops[<<"permission", s>>].status = "validating_output"
  \/ Holds(ops[<<"permission", s>>], "returned")

\* Where work is reported and calls are answered, the rest stays as it is.
LEMMA WorkKept ==
  ASSUME HostInv, UNCHANGED <<mode, turn, inbox, writing, batches, remembered, unreleased, closed, ran>>,
         standing \subseteq standing',
         \A s \in Steps, c \in DOMAIN ToolOf :
           Ok(s, c) => Ok(s, c)' \/ (Unstarted(s, c) /\ GrantInv(s)' /\ Asked(s)'),
         \A o \in Ops : Carries(o),
         \A s \in Steps :
           \/ grants'[s] = grants[s] /\ (Returning(s)' => Returning(s))
           \/ GrantInv(s)' /\ Asked(s)' /\ (grants'[s] = grants[s] \/ ops[<<"permission", s>>].status \notin Final)
  PROVE  Rest'
<1>1. HostType /\ Rest
  BY DEF HostInv, Rest
<1>2. \A o \in Ops : /\ ops'[o].status = ops[o].status /\ Live(o)' = Live(o)
                     /\ ToldToStop(ops[o]) => ToldToStop(ops'[o])
  BY DEF Carries, Live
<1>3. Spawning'
  BY <1>1, <1>2, SpawningKept DEF Rest
<1>4. Settling'
  BY <1>1, <1>2, SettlingKept DEF Rest, Waiting
<1>5. Reporting'
  <2>1. \A s \in Steps, c \in DOMAIN ToolOf : Done(s, c) => Done(s, c)'
    BY <1>2, OpNames DEF Done
  <2>2. \A s \in Steps : \A i \in DOMAIN batches'[s].inbox :
          \E j \in DOMAIN batches[s].inbox : batches[s].inbox[j] = batches'[s].inbox[i]
    OBVIOUS
  <2> QED BY <1>1, <2>1, <2>2, ReportingKept DEF Rest, Reporting
<1>6. Serving'
  <2>1. \A s \in Steps : batches'[s].results \cap batches'[s].pending = {}
    BY <1>1 DEF Rest, Serving
  <2>2. \A o \in Ops : Wanted(o)' = Wanted(o)
    BY DEF Wanted
  <2> QED BY <1>1, <1>2, <2>1, <2>2, ServingKept DEF Rest
<1>7. Approving'
  <2>1. \A s \in Steps : Returning(s)' <=>
           \/ ops'[<<"permission", s>>].status = "validating_output"
           \/ Holds(ops'[<<"permission", s>>], "returned")
    BY DEF Returning
  <2>2. remembered' \subseteq standing'
    BY <1>1 DEF Rest, Approving
  <2>3. ASSUME NEW s \in Steps, NEW c \in DOMAIN ToolOf
        PROVE  Live(<<"tool", s, c>>)' => Live(<<"tool", s, c>>) /\ (Unrun(s, c) => Unrun(s, c)')
    <3>1. <<"tool", s, c>> \in Ops
      BY OpNames
    <3> QED BY <1>2, <3>1 DEF Carries
  <2>4. \A s \in Steps :
           /\ \/ grants'[s] = grants[s] /\ closed' = closed
              \/ grants'[s] = NoGrant \/ (GrantInv(s)' /\ Asked(s)')
           /\ \/ GrantInv(s)' /\ Asked(s)'
              \/ \/ ops'[<<"permission", s>>].status = "validating_output"
                 \/ Holds(ops'[<<"permission", s>>], "returned")
                 => \/ ops[<<"permission", s>>].status = "validating_output"
                    \/ Holds(ops[<<"permission", s>>], "returned")
    BY DEF Returning
  <2>5. \A s \in Steps :
           /\ \/ batches'[s].status \notin {"ready", "running"}
              \/ /\ batches[s].status \in {"ready", "running"}
                 /\ batches'[s].pending \subseteq batches[s].pending
                 /\ batches'[s].status = "ready" =>
                      batches[s].status = "ready" /\ batches'[s].pending = batches[s].pending
                 /\ batches'[s].granted = batches[s].granted
                 /\ batches'[s].refused = batches[s].refused
                 /\ batches'[s].invalid = batches[s].invalid
           /\ batches[s].status # "none" => batches'[s].status # "none"
    OBVIOUS
  <2> QED BY <1>1, <2>2, <2>3, <2>4, <2>5, ApprovingKept DEF Rest
<1> QED BY <1>3, <1>4, <1>5, <1>6, <1>7 DEF Rest

\* A report, or a deadline, adds an event to an operation that lives.
LEMMA ReportCarries ==
  ASSUME HostInv, NEW o \in Ops, NEW t \in Own \cup Failing, Live(o), batches' = batches,
         NEW b \in OpActors, ops' = [ops EXCEPT ![o] = b],
         b.status = ops[o].status, b.inbox = Sent(ops[o], Event(t)).inbox,
         o[1] = "tool" /\ t = "input_valid" =>
           ~(batches[o[2]].status = "running" /\ batches[o[2]].granted /\ o[3] \in batches[o[2]].invalid)
  PROVE  /\ \A p \in Ops : Carries(p)
         /\ \A s \in Steps : Returning(s)' => Returning(s) \/ (o = <<"permission", s>> /\ t = "returned")
<1>1. ops[o] \in OpActors /\ ops \in [Ops -> OpActors]
  BY DEF HostInv, HostType
<1>2. b.inbox = Append(ops[o].inbox, Event(t))
  BY <1>1, SentOp DEF Live
<1>3. /\ ToldToStop(ops[o]) => ToldToStop(b)
      /\ Blocked(ops[o]) => Blocked(b)
      /\ \A x : Holds(b, x) => Holds(ops[o], x) \/ x = t
  BY <1>1, <1>2, Prolonged
<1>4. ASSUME NEW p \in Ops PROVE Carries(p)
  <2>1. CASE p # o
    <3>1. ops'[p] = ops[p]
      BY <1>1, <2>1
    <3>2. ASSUME p[1] = "tool" PROVE Unrun(p[2], p[3])' <=> Unrun(p[2], p[3])
      <4>1. p = <<"tool", p[2], p[3]>>
        BY <3>2, OpNames
      <4> QED BY <3>1, <4>1 DEF Unrun
    <3> QED BY <3>1, <3>2 DEF Carries
  <2>2. CASE p = o
    <3>1. ops'[p] = b
      BY <1>1, <2>2
    <3>2. ASSUME p[1] = "tool", Unrun(p[2], p[3]) PROVE Unrun(p[2], p[3])'
      <4>1. p = <<"tool", p[2], p[3]>>
        BY <3>2, OpNames
      <4> QED BY <1>3, <2>2, <3>1, <3>2, <4>1 DEF Unrun
    <3> QED BY <1>3, <2>2, <3>1, <3>2 DEF Carries
  <2> QED BY <2>1, <2>2
<1>5. ASSUME NEW s \in Steps
      PROVE  Returning(s)' => Returning(s) \/ (o = <<"permission", s>> /\ t = "returned")
  <2>1. CASE o # <<"permission", s>>
    <3>1. ops'[<<"permission", s>>] = ops[<<"permission", s>>]
      BY <1>1, <2>1, OpNames
    <3> QED BY <3>1 DEF Returning
  <2>2. CASE o = <<"permission", s>>
    <3>1. ops'[<<"permission", s>>] = b
      BY <1>1, <2>2
    <3> QED BY <1>3, <2>2, <3>1 DEF Returning
  <2> QED BY <2>1, <2>2
<1> QED BY <1>4, <1>5

\* Work that ends, and deadlines.
LEMMA ReportStep ==
  ASSUME HostInv, NEW o \in Ops, DeadlineFires(o) \/ WorkSucceeds(o) \/ WorkFails(o)
  PROVE  Rest'
<1>1. HostType /\ OperationInv /\ ops[o] \in OpActors
  BY DEF HostInv, HostType
<1>2. Live(o) /\ (ops[o].work # "none" => ops[o].work = ops[o].status /\ ops[o].work \in Working)
  BY <1>1 DEF OperationInv, Quiet, Ordered, DeadlineFires, WorkSucceeds, WorkFails, OpActors
<1>3. \E t \in Own \cup Failing, b \in OpActors :
        /\ ops' = [ops EXCEPT ![o] = b] /\ b.status = ops[o].status
        /\ b.inbox = Sent(ops[o], Event(t)).inbox
        /\ o[1] = "tool" /\ t = "input_valid" =>
             ~(batches[o[2]].status = "running" /\ batches[o[2]].granted /\ o[3] \in batches[o[2]].invalid)
        /\ ~(o[1] = "permission" /\ t = "returned")
  <2>1. CASE DeadlineFires(o)
    <3> DEFINE a == Sent(ops[o], Event("timeout"))
    <3>1. a \in OpActors /\ a.status = ops[o].status
      BY <1>1, SentOp DEF Failing
    <3> HIDE DEF a
    <3>2. LET b == [a EXCEPT !.timer = FALSE] IN
            b \in OpActors /\ b.status = a.status /\ b.inbox = a.inbox
      BY <3>1 DEF OpActors
    <3>3. ops' = [ops EXCEPT ![o] = [a EXCEPT !.timer = FALSE]]
      BY <2>1 DEF DeadlineFires, a
    <3>4. "timeout" \in Failing
      BY DEF Failing
    <3> DEFINE b == [a EXCEPT !.timer = FALSE]
    <3>5. b \in OpActors /\ ops' = [ops EXCEPT ![o] = b] /\ b.status = ops[o].status
          /\ b.inbox = Sent(ops[o], Event("timeout")).inbox
      BY <3>1, <3>2, <3>3 DEF a
    <3>6. PICK t \in Own \cup Failing : t = "timeout"
      BY <3>4
    <3>7. t # "input_valid" /\ t # "returned" /\ b.inbox = Sent(ops[o], Event(t)).inbox
      BY <3>5, <3>6
    <3> HIDE DEF b
    <3> QED BY <3>5, <3>7
  <2>2. CASE WorkFails(o)
    <3>1. WorkReports(o, "failed") /\ "failed" \in Failing
      BY <2>2 DEF WorkFails, Failing
    <3> QED BY <1>1, <3>1, ReportedOp
  <2>3. CASE WorkSucceeds(o)
    <3> DEFINE t == Reports[ops[o].work]
    <3>1. ops[o].work \in Working /\ WorkReports(o, t)
          /\ ~(o[1] = "permission" /\ ops[o].work = "running")
          /\ (InputKnown(o) => o[3] \notin batches[o[2]].invalid)
      BY <1>2, <2>3 DEF WorkSucceeds
    <3>2. /\ t \in Own /\ (t = "returned" => ops[o].work = "running")
          /\ t = "input_valid" => ops[o].work = "validating_input"
      BY <3>1 DEF Reports, Own, Working
    <3> HIDE DEF t
    <3>3. o[1] = "tool" /\ t = "input_valid" =>
             ~(batches[o[2]].status = "running" /\ batches[o[2]].granted /\ o[3] \in batches[o[2]].invalid)
      BY <3>1, <3>2 DEF InputKnown
    <3> QED BY <1>1, <3>1, <3>2, <3>3, ReportedOp
  <2> QED BY <2>1, <2>2, <2>3
<1>4. /\ UNCHANGED <<mode, turn, inbox, writing, batches, remembered, unreleased, closed, ran>>
      /\ UNCHANGED <<standing, answer, grants>>
  BY DEF DeadlineFires, WorkSucceeds, WorkFails, hostVars
<1>5. (\A p \in Ops : Carries(p)) /\ \A s \in Steps : Returning(s)' => Returning(s)
  <2>1. PICK t \in Own \cup Failing, b \in OpActors :
        /\ ops' = [ops EXCEPT ![o] = b] /\ b.status = ops[o].status
        /\ b.inbox = Sent(ops[o], Event(t)).inbox
        /\ o[1] = "tool" /\ t = "input_valid" =>
             ~(batches[o[2]].status = "running" /\ batches[o[2]].granted /\ o[3] \in batches[o[2]].invalid)
        /\ ~(o[1] = "permission" /\ t = "returned")
    BY <1>3
  <2>2. (\A p \in Ops : Carries(p))
        /\ \A s \in Steps : Returning(s)' => Returning(s) \/ (o = <<"permission", s>> /\ t = "returned")
    BY <1>2, <1>4, <2>1, ReportCarries
  <2> QED BY <2>1, <2>2
<1>6. \A s \in Steps, c \in DOMAIN ToolOf : Ok(s, c) => Ok(s, c)'
  BY <1>4 DEF Ok
<1> QED BY <1>4, <1>5, <1>6, WorkKept

\* While a grant is held, no tool of its step has been started.
LEMMA HeldUnstarted ==
  ASSUME HostInv, NEW s \in Steps, grants[s].held
  PROVE  \A c \in DOMAIN ToolOf : Unstarted(s, c)
<1>1. s = turn.step /\ turn.phase = "awaiting_permission"
  BY DEF HostInv, Approving, GrantInv
<1>2. batches[s].status = "none"
  BY <1>1 DEF HostInv, Spawning
<1>3. ASSUME NEW c \in DOMAIN ToolOf PROVE ~Live(<<"tool", s, c>>)
  <2> DEFINE o == <<"tool", s, c>>
  <2>1. o \in Ops /\ o[1] = "tool" /\ o[2] = s
    BY OpNames
  <2>2. ops[o].status = "none"
    BY <1>2, <2>1 DEF HostInv, Spawning
  <2> QED BY <2>2 DEF Live
<1> QED BY <1>2, <1>3 DEF Unstarted

\* What follows when a request has asked for one call, or stops asking.
LEMMA RequestGoesOn ==
  ASSUME HostInv, NEW s \in Steps, Request(s), GrantInv(s)', Asked(s)',
         UNCHANGED <<mode, turn, inbox, writing, batches, remembered, unreleased, closed, ran>>,
         standing \subseteq standing',
         \A t \in Steps : t # s => grants'[t] = grants[t],
         \A t \in Steps, c \in DOMAIN ToolOf : t # s \/ ~grants[s].held => answer'[<<t, c>>] = answer[<<t, c>>],
         ops' = ops \/ \E type \in Own \cup Failing :
                         type # "input_valid" /\ WorkReports(Asking(s), type)
  PROVE  Rest'
<1>1. HostType /\ OperationInv
  BY DEF HostInv
<1>2. Asking(s) \in Ops /\ Asking(s)[1] = "permission" /\ Asking(s) = <<"permission", s>>
  BY OpNames DEF Asking
<1>3. Live(Asking(s)) /\ ops[Asking(s)].status \notin Final
  BY <1>1, <1>2 DEF OperationInv, Quiet, Request, Live
<1>4. (\A p \in Ops : Carries(p)) /\ \A t \in Steps : t # s => (Returning(t)' => Returning(t))
  <2>1. CASE ops' = ops
    <3>1. ASSUME NEW p \in Ops, p[1] = "tool" PROVE Unrun(p[2], p[3])' <=> Unrun(p[2], p[3])
      BY <2>1 DEF Unrun
    <3> QED BY <2>1, <3>1 DEF Carries, Returning
  <2>2. ASSUME NEW type \in Own \cup Failing, WorkReports(Asking(s), type)
        PROVE  (\A p \in Ops : Carries(p)) /\ \A t \in Steps : t # s => (Returning(t)' => Returning(t))
    <3>1. PICK b \in OpActors :
            /\ ops' = [ops EXCEPT ![Asking(s)] = b] /\ b.status = ops[Asking(s)].status
            /\ b.inbox = Sent(ops[Asking(s)], Event(type)).inbox
      BY <1>1, <1>2, <2>2, ReportedOp
    <3>2. /\ \A p \in Ops : Carries(p)
          /\ \A t \in Steps : Returning(t)' => Returning(t) \/ (Asking(s) = <<"permission", t>> /\ type = "returned")
      BY <1>2, <1>3, <3>1, ReportCarries
    <3> QED BY <1>2, <3>2
  <2> QED BY <2>1, <2>2
<1>5. ASSUME NEW t \in Steps, NEW c \in DOMAIN ToolOf, Ok(t, c)
      PROVE  Ok(t, c)' \/ (Unstarted(t, c) /\ GrantInv(t)' /\ Asked(t)')
  <2>1. CASE t # s \/ ~grants[s].held
    BY <1>5, <2>1 DEF Ok
  <2>2. CASE t = s /\ grants[s].held
    BY <2>2, HeldUnstarted
  <2> QED BY <2>1, <2>2
<1>6. \A t \in Steps :
           \/ grants'[t] = grants[t] /\ (Returning(t)' => Returning(t))
           \/ GrantInv(t)' /\ Asked(t)' /\ (grants'[t] = grants[t] \/ ops[<<"permission", t>>].status \notin Final)
  BY <1>2, <1>3, <1>4
<1> QED BY <1>4, <1>5, <1>6, WorkKept

\* A grant goes on to the next call when one has been answered, and not before.
LEMMA NextCall ==
  ASSUME HostInv, NEW s \in Steps, Unasked(s), NEW c, c = Current(s), NEW h \in Requested,
         grants' = [grants EXCEPT ![s] = h], UNCHANGED <<mode, turn, closed, ops>>,
         h.held, h.approved = grants[s].approved, h.stopped = grants[s].stopped,
         grants[s].inputs \subseteq h.inputs /\ h.inputs \subseteq grants[s].inputs \cup {c},
         grants[s].invalid \subseteq h.invalid /\ h.invalid \subseteq grants[s].invalid \cup {c},
         grants[s].refused \subseteq h.refused /\ h.refused \subseteq grants[s].refused \cup {c},
         h.remembered \subseteq standing',
         \A d \in DOMAIN ToolOf : d # c => answer'[<<s, d>>] = answer[<<s, d>>],
         Ok(s, c) => Ok(s, c)' \/ c \in h.refused,
         \/ /\ h.next = grants[s].next + 1 /\ ~h.asking
            /\ c \in h.inputs \cup h.invalid \cup h.refused
            /\ Ok(s, c)' \/ c \in h.invalid \cup h.refused
         \/ h.next = grants[s].next /\ (h.asking => c \in h.inputs)
  PROVE  GrantInv(s)' /\ Asked(s)'
<1> DEFINE g == grants[s]
<1>1. HostType /\ Approving
  BY DEF HostInv
<1>2. /\ g \in Requested /\ g.held /\ g.next \in 1..mode.calls
      /\ c \in CallSet /\ c \in DOMAIN ToolOf
  BY <1>1, UnaskedGrant
<1>3. GrantInv(s) /\ mode.calls \in Nat /\ \A i \in 1..mode.calls : Calls[i] \in DOMAIN ToolOf
  BY <1>1, ModeType DEF Approving
<1>4. grants'[s] = h
  BY <1>1 DEF HostType
<1>5. CallSet' = CallSet /\ mode'.calls = mode.calls
  BY DEF CallSet
<1>6. ~g.approved
  BY <1>2, <1>3 DEF GrantInv
<1>7. h.next \in 1..(mode.calls + 1) /\ (h.next = g.next + 1 \/ h.next = g.next)
  BY <1>2, <1>3
<1>8. ASSUME NEW i \in 1..(h.next - 1)
      PROVE  /\ Calls[i] \in h.inputs \cup h.invalid \cup h.refused
             /\ Ok(s, Calls[i])' \/ Calls[i] \in h.invalid \cup h.refused
  <2>1. CASE i <= g.next - 1
    <3>1. /\ Calls[i] \in g.inputs \cup g.invalid \cup g.refused
          /\ Ok(s, Calls[i]) \/ Calls[i] \in g.invalid \cup g.refused
      BY <1>2, <1>3, <1>7, <2>1 DEF GrantInv
    <3>2. Calls[i] \in DOMAIN ToolOf
      BY <1>2, <1>3, <1>7, <2>1
    <3>3. Ok(s, Calls[i]) => Ok(s, Calls[i])' \/ Calls[i] \in h.refused
      BY <3>2 DEF Ok
    <3> QED BY <3>1, <3>3
  <2>2. CASE i > g.next - 1
    <3>1. i = g.next /\ h.next = g.next + 1
      BY <1>2, <1>7, <2>2
    <3>2. Calls[i] = c
      BY <3>1 DEF Current
    <3> QED BY <3>1, <3>2, <1>2
  <2> QED BY <1>2, <2>1, <2>2
<1>9. h.inputs \cup h.invalid \cup h.refused \subseteq CallSet
  BY <1>2, <1>3 DEF GrantInv
<1>10. h.asking => Calls[h.next] \in h.inputs
  BY <1>2 DEF Current
<1>11. mode.asks /\ ~closed /\ s = turn.step /\ turn.phase = "awaiting_permission"
  BY <1>2, <1>3 DEF GrantInv
<1>12. GrantInv(s)'
  <2>1. h.approved => h.next > mode.calls
    BY <1>6
  <2> HIDE DEF g
  <2> QED BY <1>4, <1>5, <1>7, <1>8, <1>9, <1>10, <1>11, <2>1 DEF GrantInv
<1>13. Asked(s)'
  <2>1. Asked(s)
    BY <1>1 DEF Approving
  <2>2. ops' = ops
    OBVIOUS
  <2>3. Returning(s) => g.stopped
    BY <1>2, <1>3, <2>1 DEF Asked, Returning
  <2> QED BY <1>4, <2>2, <2>3 DEF Asked, Returning
<1> QED BY <1>12, <1>13

\* A request asks, is answered, or stops asking.
LEMMA RequestStep ==
  ASSUME HostInv, NEW s \in Steps,
         Requesting(s) \/ UserDecides(s) \/ RequestRejectsInput(s) \/ RequestBreaks(s)
  PROVE  Rest'
<1> DEFINE g == grants[s]
           c == Current(s)
<1>1. HostType /\ Approving /\ g \in Requested /\ GrantInv(s) /\ Asked(s)
  BY DEF HostInv, HostType, Approving
<1>2. Unasked(s) =>
        /\ Request(s) /\ g.held /\ g.next \in 1..mode.calls
        /\ c \in CallSet /\ c \in DOMAIN ToolOf /\ ToolOf[c] \in Tools
  BY <1>1, UnaskedGrant
<1>3. UNCHANGED <<mode, turn, inbox, writing, batches, remembered, unreleased, closed, ran>>
      /\ standing \subseteq standing'
  BY DEF Requesting, UserDecides, RequestValidates, RequestReturns, RequestStops, UserAllows,
         UserRejects, UserDismisses, RequestRejectsInput, RequestBreaks, hostVars
<1>4. (g.remembered \subseteq standing /\ remembered \subseteq standing) \/ ~g.held
  BY <1>1 DEF Approving, GrantInv
<1>5. Answered(g) \in Requested /\ Answered(g).next = g.next + 1
         /\ Answered(g).held = g.held /\ Answered(g).approved = g.approved
         /\ Answered(g).stopped = g.stopped /\ Answered(g).inputs = g.inputs
         /\ Answered(g).invalid = g.invalid /\ Answered(g).refused = g.refused
         /\ Answered(g).remembered = g.remembered /\ Answered(g).asking = FALSE
  BY <1>1, AnsweredGrant
<1>6. ASSUME NEW h \in Requested, Unasked(s), grants' = [grants EXCEPT ![s] = h], ops' = ops,
             h.held, h.approved = g.approved, h.stopped = g.stopped,
             g.inputs \subseteq h.inputs /\ h.inputs \subseteq g.inputs \cup {c},
             g.invalid \subseteq h.invalid /\ h.invalid \subseteq g.invalid \cup {c},
             g.refused \subseteq h.refused /\ h.refused \subseteq g.refused \cup {c},
             h.remembered \subseteq standing',
             \A t \in Steps, d \in DOMAIN ToolOf : <<t, d>> # <<s, c>> => answer'[<<t, d>>] = answer[<<t, d>>],
             NEW w, w = answer'[<<s, c>>],
             answer[<<s, c>>] \in {"allowed", "remembered"} => w \in {"allowed", "remembered"} \/ c \in h.refused,
             \/ /\ h.next = g.next + 1 /\ ~h.asking
                /\ c \in h.inputs \cup h.invalid \cup h.refused
                /\ w \in {"allowed", "remembered"} \/ c \in h.invalid \cup h.refused
             \/ h.next = g.next /\ (h.asking => c \in h.inputs)
      PROVE  Rest'
  <2> DEFINE d == c
  <2>1. d = Current(s) /\ d \in DOMAIN ToolOf
    BY <1>2, <1>6
  <2> HIDE DEF d
  <2>2. GrantInv(s)' /\ Asked(s)'
    BY <1>3, <1>6, <2>1, NextCall DEF Ok
  <2>3. \A t \in Steps : t # s => grants'[t] = grants[t]
    BY <1>1, <1>6 DEF HostType
  <2>4. \A t \in Steps, e \in DOMAIN ToolOf : t # s \/ ~grants[s].held => answer'[<<t, e>>] = answer[<<t, e>>]
    BY <1>2, <1>6
  <2> QED BY <1>2, <1>3, <1>6, <2>2, <2>3, <2>4, RequestGoesOn
<1>7. answer \in [Steps \X DOMAIN ToolOf -> {"none", "allowed", "remembered", "rejected"}]
  BY <1>1 DEF HostType
<1>8. ASSUME NEW what \in {"allowed", "remembered", "rejected"}, Answers(s, what), Unasked(s)
      PROVE  /\ \A t \in Steps, d \in DOMAIN ToolOf : <<t, d>> # <<s, c>> => answer'[<<t, d>>] = answer[<<t, d>>]
             /\ answer'[<<s, c>>] = what
  <2>1. <<s, c>> \in Steps \X DOMAIN ToolOf
    BY <1>2, <1>8
  <2> HIDE DEF c
  <2>2. answer' = [answer EXCEPT ![<<s, c>>] = what]
    BY <1>8 DEF Answers, c
  <2> QED BY <1>7, <2>1, <2>2
<1>9. CASE RequestValidates(s)
  <2> DEFINE k == [g EXCEPT !.inputs = @ \cup {c}]
  <2>1. Unasked(s) /\ ~g.asking /\ ops' = ops /\ standing' = standing
    BY <1>9 DEF RequestValidates
  <2>2. /\ k \in Requested /\ k.held = g.held /\ k.next = g.next /\ k.asking = g.asking
        /\ k.approved = g.approved /\ k.stopped = g.stopped /\ k.inputs = g.inputs \cup {c}
        /\ k.invalid = g.invalid /\ k.refused = g.refused /\ k.remembered = g.remembered
    <3>1. c \in DOMAIN ToolOf
      BY <1>2, <2>1
    <3> HIDE DEF c, g
    <3> QED BY <1>1, <3>1 DEF Requested
  <2>3. CASE ToolOf[c] \in remembered \cup k.remembered
    <3> DEFINE h == Answered(k)
    <3>1. grants' = [grants EXCEPT ![s] = h] /\ Answers(s, "remembered")
      BY <1>9, <2>3 DEF RequestValidates, Grants
    <3>2. /\ h \in Requested /\ h.next = k.next + 1
         /\ h.held = k.held /\ h.approved = k.approved
         /\ h.stopped = k.stopped /\ h.inputs = k.inputs
         /\ h.invalid = k.invalid /\ h.refused = k.refused
         /\ h.remembered = k.remembered /\ h.asking = FALSE
      BY <2>2, AnsweredGrant
    <3> HIDE DEF h, k, c
    <3> QED BY <1>2, <1>4, <1>6, <1>8, <2>1, <2>2, <3>1, <3>2
  <2>4. CASE ToolOf[c] \notin remembered \cup k.remembered
    <3> DEFINE h == [k EXCEPT !.asking = TRUE]
    <3>1. grants' = [grants EXCEPT ![s] = h] /\ answer' = answer
      BY <1>9, <2>4 DEF RequestValidates, Grants
    <3> HIDE DEF k, c
    <3>2. /\ h \in Requested /\ h.next = k.next
         /\ h.held = k.held /\ h.approved = k.approved
         /\ h.stopped = k.stopped /\ h.inputs = k.inputs
         /\ h.invalid = k.invalid /\ h.refused = k.refused
         /\ h.remembered = k.remembered
      BY <2>2 DEF Requested
    <3> HIDE DEF h
    <3> QED BY <1>2, <1>4, <1>6, <2>1, <2>2, <3>1, <3>2
  <2> QED BY <2>3, <2>4
<1>10. CASE RequestRejectsInput(s) /\ mode.tolerant
  <2> DEFINE a == Answered(g)
             h == [a EXCEPT !.invalid = @ \cup {c}]
  <2>1. Unasked(s) /\ grants' = [grants EXCEPT ![s] = h] /\ UNCHANGED <<ops, answer, standing>>
    BY <1>10 DEF RequestRejectsInput, Grants, hostVars
  <2>2. c \in DOMAIN ToolOf
    BY <1>2, <2>1
  <2> HIDE DEF a, c
  <2>3. /\ h \in Requested /\ h.next = a.next /\ h.asking = a.asking
        /\ h.held = a.held /\ h.approved = a.approved
        /\ h.stopped = a.stopped /\ h.inputs = a.inputs
        /\ h.invalid = a.invalid \cup {c} /\ h.refused = a.refused
        /\ h.remembered = a.remembered
    BY <1>5, <2>2 DEF Requested, a
  <2> HIDE DEF h
  <2> QED BY <1>2, <1>4, <1>5, <1>6, <2>1, <2>3 DEF a
<1>11. ASSUME NEW forGood \in BOOLEAN, UserAllows(s, forGood)
       PROVE  Rest'
  <2> DEFINE a == Answered(g)
             tool == IF forGood THEN {ToolOf[c]} ELSE {}
             h == [a EXCEPT !.remembered = @ \cup tool]
  <2>1. Unasked(s) /\ g.asking /\ grants' = [grants EXCEPT ![s] = h] /\ ops' = ops
        /\ standing' = standing \cup tool /\ Answers(s, "allowed")
    BY <1>11 DEF UserAllows, Grants
  <2>2. tool \subseteq Tools /\ c \in g.inputs
    BY <1>1, <1>2, <2>1 DEF GrantInv, Current
  <2> HIDE DEF a, tool, c
  <2>3. /\ h \in Requested /\ h.next = a.next /\ h.asking = a.asking
        /\ h.held = a.held /\ h.approved = a.approved
        /\ h.stopped = a.stopped /\ h.inputs = a.inputs
        /\ h.invalid = a.invalid /\ h.refused = a.refused
        /\ h.remembered = a.remembered \cup tool
    BY <1>5, <2>2 DEF Requested, a
  <2> HIDE DEF h
  <2> QED BY <1>2, <1>4, <1>5, <1>6, <1>8, <2>1, <2>2, <2>3 DEF a
<1>12. CASE UserRejects(s)
  <2> DEFINE a == Answered(g)
             h == [a EXCEPT !.refused = @ \cup {c}]
  <2>1. Unasked(s) /\ grants' = [grants EXCEPT ![s] = h] /\ UNCHANGED <<ops, standing>>
        /\ Answers(s, "rejected")
    BY <1>12 DEF UserRejects, Grants
  <2>2. c \in DOMAIN ToolOf
    BY <1>2, <2>1
  <2> HIDE DEF a, c
  <2>3. /\ h \in Requested /\ h.next = a.next /\ h.asking = a.asking
        /\ h.held = a.held /\ h.approved = a.approved
        /\ h.stopped = a.stopped /\ h.inputs = a.inputs
        /\ h.invalid = a.invalid /\ h.refused = a.refused \cup {c}
        /\ h.remembered = a.remembered
    BY <1>5, <2>2 DEF Requested, a
  <2> HIDE DEF h
  <2> QED BY <1>2, <1>4, <1>5, <1>6, <1>8, <2>1, <2>3 DEF a
<1>13. CASE UserDismisses(s)
  <2> DEFINE h == [g EXCEPT !.stopped = TRUE, !.asking = FALSE]
  <2>1. Unasked(s) /\ grants' = [grants EXCEPT ![s] = h] /\ UNCHANGED <<answer, standing>>
        /\ WorkReports(Asking(s), "returned")
    BY <1>13 DEF UserDismisses, Grants, hostVars
  <2> HIDE DEF g
  <2>2. /\ h \in Requested /\ h.next = g.next /\ h.asking = FALSE
        /\ h.held = g.held /\ h.approved = g.approved
        /\ h.stopped = TRUE /\ h.inputs = g.inputs
        /\ h.invalid = g.invalid /\ h.refused = g.refused
        /\ h.remembered = g.remembered
    BY <1>1 DEF Requested
  <2> HIDE DEF h
  <2>3. grants'[s] = h /\ \A t \in Steps : t # s => grants'[t] = grants[t]
    BY <1>1, <2>1 DEF HostType
  <2>4. GrantInv(s)' /\ Asked(s)'
    <3>1. Asked(s)'
      BY <2>2, <2>3 DEF Asked
    <3>2. CallSet' = CallSet /\ h.held
      BY <1>2, <1>3, <2>1, <2>2 DEF CallSet
    <3>3. \A x : Ok(s, x)' = Ok(s, x)
      BY <2>1 DEF Ok
    <3>4. GrantInv(s)'
      BY <1>1, <1>2, <1>3, <2>1, <2>2, <2>3, <3>2, <3>3 DEF GrantInv, g
    <3> QED BY <3>1, <3>4
  <2>5. "returned" \in Own \cup Failing
    BY DEF Own
  <2> QED BY <1>2, <1>3, <2>1, <2>3, <2>4, <2>5, RequestGoesOn
<1>14. CASE RequestReturns(s) \/ RequestStops(s) \/ RequestBreaks(s)
            \/ (RequestRejectsInput(s) /\ ~mode.tolerant)
  <2>1. UNCHANGED <<grants, answer, standing>> /\ Request(s)
    BY <1>14 DEF RequestReturns, RequestStops, RequestBreaks, RequestRejectsInput, Unasked, hostVars
  <2>2. GrantInv(s)'
    BY <1>1, <1>3, <2>1 DEF GrantInv, Ok, CallSet
  <2>3. CASE RequestReturns(s)
    <3>1. g.next > mode.calls /\ WorkReports(Asking(s), "returned") /\ "returned" \in Own
      BY <2>3 DEF RequestReturns, Own
    <3>2. Asked(s)'
      BY <1>3, <2>1, <3>1 DEF Asked
    <3> QED BY <1>3, <2>1, <2>2, <3>1, <3>2, RequestGoesOn
  <2>4. CASE ~RequestReturns(s)
    <3>1. WorkReports(Asking(s), "failed") /\ "failed" \in Failing
      BY <1>14, <2>4 DEF RequestStops, RequestBreaks, RequestRejectsInput, Failing
    <3>2. Asked(s)'
      <4> DEFINE o == Asking(s)
      <4>1. o \in Ops /\ o = <<"permission", s>>
        BY OpNames DEF Asking
      <4>2. /\ Reported(o, "failed").status = ops[o].status
            /\ Reported(o, "failed").inbox = Sent(ops[o], Event("failed")).inbox
            /\ ops' = [ops EXCEPT ![o] = Reported(o, "failed")] /\ Reported(o, "failed") \in OpActors
        BY <1>1, <3>1, <4>1, ReportedOp
      <4>3. Goes(ops[o], Sent(ops[o], Event("failed")))
        BY <1>1, <3>1, <4>1, SentStops DEF HostType
      <4>4. ops'[o].status = ops[o].status /\ (Holds(ops'[o], "returned") => Holds(ops[o], "returned"))
        <5>1. ops'[o] = Reported(o, "failed")
          BY <1>1, <4>1, <4>2 DEF HostType
        <5> HIDE DEF o
        <5> QED BY <4>2, <4>3, <5>1 DEF Goes, Holds, Own
      <4> QED BY <1>1, <1>3, <2>1, <4>1, <4>4 DEF Asked
    <3> QED BY <1>3, <2>1, <2>2, <3>1, <3>2, RequestGoesOn
  <2> QED BY <2>3, <2>4
<1> QED BY <1>9, <1>10, <1>11, <1>12, <1>13, <1>14 DEF Requesting, UserDecides

-----------------------------------------------------------------------------
\* Operations that go on and that settle

\* An operation that goes on was allowed to.
LEMMA AdvanceStep ==
  ASSUME HostInv, NEW o \in Ops, OpAdvances(o)
  PROVE  Rest'
<1>1. HostType /\ OperationInv /\ Rest /\ ops[o] \in OpActors /\ ops \in [Ops -> OpActors]
  BY DEF HostInv, HostType, Rest
<1>2. PICK b \in OpActors, next \in Working :
           /\ ops' = [ops EXCEPT ![o] = b]
           /\ b.status = next /\ b.work = next /\ b.timer = ops[o].timer
           /\ b.inbox = Tail(ops[o].inbox) /\ ops[o].inbox # << >>
           /\ Head(ops[o].inbox).type \in Own /\ Head(ops[o].inbox).type = Advances[ops[o].status]
           /\ \A i \in DOMAIN b.inbox : b.inbox[i].type \notin Own
           /\ ops[o].status \in {"ready", "validating_input", "running"}
           /\ next = After[ops[o].status] /\ ops[o].work = "none"
           /\ ran' = IF o[1] = "tool" /\ next = "running" THEN ran \cup {<<o[2], o[3]>>} ELSE ran
  BY <1>1, AdvancedOp
<1>3. UNCHANGED <<mode, turn, inbox, writing, batches, grants, remembered, unreleased, closed, answer, standing>>
  BY DEF OpAdvances
<1>4. /\ ops'[o] = b /\ \A p \in Ops : p # o => ops'[p] = ops[p]
      /\ ops[o].status \notin Final \cup {"none"} /\ b.status \notin Final \cup {"none"}
  BY <1>1, <1>2 DEF Final, Working
<1>5. /\ ToldToStop(ops[o]) => ToldToStop(b)
      /\ Blocked(ops[o]) => Blocked(b) /\ Head(ops[o].inbox).type # "input_valid"
      /\ Holds(ops[o], Head(ops[o].inbox).type)
  <2>1. Head(ops[o].inbox) = ops[o].inbox[1] /\ 1 \in DOMAIN ops[o].inbox
    <3> DEFINE M == [type : Own \cup Failing]
    <3>1. ops[o].inbox \in Seq(M)
      BY <1>1 DEF OpActors
    <3> HIDE DEF M
    <3> QED BY <1>2, <3>1, Beheaded
  <2>2. Holds(ops[o], Head(ops[o].inbox).type)
    BY <2>1 DEF Holds
  <2> QED BY <1>1, <1>2, <2>2, Shortened
<1>6. \A type \in Own : ~Holds(b, type)
  BY <1>2 DEF Holds
<1>7. /\ next = "running" => ops[o].status = "validating_input" /\ Head(ops[o].inbox).type = "input_valid"
      /\ next = "validating_output" => ops[o].status = "running" /\ Head(ops[o].inbox).type = "returned"
  BY <1>2 DEF Advances, After
<1>8. \A p \in Ops : Live(p)' = Live(p) /\ (ToldToStop(ops[p]) => ToldToStop(ops'[p]))
  BY <1>4, <1>5 DEF Live
<1>9. Spawning'
  <2>1. \A p \in Ops : ops'[p].status # "none" => ops[p].status # "none"
    BY <1>4
  <2> QED BY <1>1, <1>3, <2>1, SpawningKept DEF Rest
<1>10. Settling'
  <2>1. \A p \in Ops : ops[p].status \in Final => ops'[p].status \in Final
    BY <1>4
  <2> QED BY <1>1, <1>3, <2>1, SettlingKept DEF Rest, Waiting
<1>11. Reporting'
  <2>1. \A s \in Steps, c \in DOMAIN ToolOf : Done(s, c) => Done(s, c)'
    BY <1>8, OpNames DEF Done
  <2>2. \A s \in Steps : \A i \in DOMAIN batches'[s].inbox :
          \E j \in DOMAIN batches[s].inbox : batches[s].inbox[j] = batches'[s].inbox[i]
    BY <1>3
  <2> QED BY <1>1, <1>3, <2>1, <2>2, ReportingKept DEF Rest, Reporting
<1>12. Serving'
  <2>1. \A s \in Steps : batches'[s].results \cap batches'[s].pending = {}
    BY <1>1, <1>3 DEF Rest, Serving
  <2>2. \A p \in Ops : Wanted(p)' = Wanted(p)
    BY <1>3 DEF Wanted
  <2> QED BY <1>1, <1>3, <1>8, <2>1, <2>2, ServingKept DEF Rest
<1>13. Approving'
  <2>1. \A s \in Steps : Returning(s)' => Returning(s)
    <3> SUFFICES ASSUME NEW s \in Steps, Returning(s)' PROVE Returning(s)
      OBVIOUS
    <3>1. <<"permission", s>> \in Ops
      BY OpNames
    <3>2. CASE o # <<"permission", s>>
      BY <1>4, <3>1, <3>2 DEF Returning
    <3>3. CASE o = <<"permission", s>>
      <4>1. b.status = "validating_output" \/ Holds(b, "returned")
        BY <1>4, <3>3 DEF Returning
      <4>2. b.status = "validating_output"
        BY <1>6, <4>1 DEF Own
      <4>3. Holds(ops[o], "returned")
        BY <1>2, <1>5, <1>7, <4>2
      <4> QED BY <3>3, <4>3 DEF Returning
    <3> QED BY <3>2, <3>3
  <2>2. ASSUME o[1] = "tool", Unrun(o[2], o[3])
        PROVE  Unrun(o[2], o[3])' /\ next # "running"
    <3>1. o = <<"tool", o[2], o[3]>>
      BY <2>2, OpNames
    <3> DEFINE s == o[2]
               c == o[3]
    <3>2. /\ ops[o].status \in {"ready", "validating_input"}
          /\ \/ batches[s].status = "running" /\ batches[s].granted /\ c \in batches[s].invalid
                /\ ~Holds(ops[o], "input_valid")
             \/ Blocked(ops[o])
      BY <2>2, <3>1 DEF Unrun
    <3>3. next # "running"
      BY <1>5, <1>7, <3>2
    <3>4. next = "validating_input"
      BY <1>2, <3>2, <3>3 DEF After
    <3>5. ~Holds(b, "input_valid")
      BY <1>6 DEF Own
    <3>6. b.status = "validating_input" /\ (Blocked(ops[o]) => Blocked(b))
      BY <1>2, <1>5, <3>4
    <3>7. Unrun(s, c)'
      BY <1>3, <1>4, <3>1, <3>2, <3>5, <3>6 DEF Unrun
    <3> QED BY <3>3, <3>7
  <2>3. ASSUME NEW s \in Steps, NEW c \in DOMAIN ToolOf, Live(<<"tool", s, c>>)'
        PROVE  Live(<<"tool", s, c>>) /\ (Unrun(s, c) => Unrun(s, c)')
    <3>1. <<"tool", s, c>> \in Ops
      BY OpNames
    <3>2. CASE o # <<"tool", s, c>>
      BY <1>3, <1>4, <2>3, <3>1, <3>2 DEF Unrun, Live
    <3>3. CASE o = <<"tool", s, c>>
      BY <1>8, <2>2, <2>3, <3>1, <3>3
    <3> QED BY <3>2, <3>3
  <2>4. ASSUME NEW r \in ran', r \notin ran
        PROVE  r \in Steps \X DOMAIN ToolOf /\ batches'[r[1]].status # "none"
               /\ (mode.asks => Ok(r[1], r[2])')
    <3>1. o[1] = "tool" /\ next = "running" /\ r = <<o[2], o[3]>>
      BY <1>2, <2>4
    <3>2. o[2] \in Steps /\ o[3] \in DOMAIN ToolOf /\ o = <<"tool", o[2], o[3]>>
      BY <3>1, OpNames
    <3>3. batches[o[2]].status # "none"
      BY <1>1, <1>4, <3>1 DEF Rest, Spawning
    <3>4. Live(o)
      BY <1>4 DEF Live
    <3>5. mode.asks => Ok(o[2], o[3])
      BY <1>1, <2>2, <3>1, <3>2, <3>4 DEF Rest, Approving
    <3> QED BY <1>3, <3>1, <3>2, <3>3, <3>5 DEF Ok
  <2>5. \A s \in Steps, c \in DOMAIN ToolOf : Ok(s, c) => Ok(s, c)'
    BY <1>3 DEF Ok
  <2>6. remembered' \subseteq standing' /\ standing \subseteq standing'
    BY <1>1, <1>3 DEF Rest, Approving
  <2>7. \A s \in Steps :
          /\ grants'[s] = grants[s] /\ closed' = closed
          /\ \/ ops'[<<"permission", s>>].status = "validating_output"
             \/ Holds(ops'[<<"permission", s>>], "returned")
             => \/ ops[<<"permission", s>>].status = "validating_output"
                \/ Holds(ops[<<"permission", s>>], "returned")
          /\ \/ batches'[s].status \notin {"ready", "running"}
             \/ /\ batches[s].status \in {"ready", "running"}
                /\ batches'[s].pending \subseteq batches[s].pending
                /\ batches'[s].status = "ready" =>
                     batches[s].status = "ready" /\ batches'[s].pending = batches[s].pending
                /\ batches'[s].granted = batches[s].granted
                /\ batches'[s].refused = batches[s].refused
                /\ batches'[s].invalid = batches[s].invalid
          /\ batches[s].status # "none" => batches'[s].status # "none"
    BY <1>3, <2>1 DEF Returning
  <2> QED BY <1>1, <1>3, <2>3, <2>4, <2>5, <2>6, <2>7, ApprovingKept DEF Rest
<1> QED BY <1>9, <1>10, <1>11, <1>12, <1>13 DEF Rest

\* A batch goes on, and hears no more than is true.
Hears(s) ==
  /\ batches'[s].status = batches[s].status /\ batches'[s].pending = batches[s].pending
  /\ batches'[s].granted = batches[s].granted /\ batches'[s].refused = batches[s].refused
  /\ batches'[s].invalid = batches[s].invalid /\ batches'[s].results = batches[s].results
  /\ Holds(batches[s], "cancel") => Holds(batches'[s], "cancel")
  /\ \A i \in DOMAIN batches'[s].inbox : batches'[s].inbox[i].type = "tool_settled" =>
       \/ batches'[s].status = "running" /\ Done(s, batches[s].inbox[i].call)'
       \/ \E j \in DOMAIN batches[s].inbox : batches[s].inbox[j] = batches'[s].inbox[i]

\* A batch that is told of a tool that is over hears what is true.
LEMMA CountedHears ==
  ASSUME HostType, NEW s \in Steps, NEW e \in Counteds, batches'[s] = Sent(batches[s], e),
         batches[s].status \in {"running", "settled"}, Done(s, e.call)'
  PROVE  Hears(s)
<1>1. batches[s] \in BatchActors /\ e \in [type : {"start", "cancel"}] \cup Counteds
  BY ActorTypes
<1>2. /\ batches'[s].status = batches[s].status /\ batches'[s].pending = batches[s].pending
      /\ batches'[s].granted = batches[s].granted /\ batches'[s].refused = batches[s].refused
      /\ batches'[s].invalid = batches[s].invalid /\ batches'[s].results = batches[s].results
  BY <1>1, SentBatch
<1>3. /\ Holds(batches[s], "cancel") => Holds(batches'[s], "cancel")
      /\ \A i \in DOMAIN batches'[s].inbox :
           \/ \E j \in DOMAIN batches[s].inbox : batches[s].inbox[j] = batches'[s].inbox[i]
           \/ batches[s].status \in {"ready", "running"} /\ batches'[s].inbox[i] = e
  BY <1>1, SentToBatch
<1>4. \A i \in DOMAIN batches'[s].inbox : batches'[s].inbox[i] = e /\ batches[s].status \in {"ready", "running"} =>
        batches'[s].status = "running" /\ Done(s, batches[s].inbox[i].call)'
  BY <1>2 DEF Done
<1> QED BY <1>2, <1>3, <1>4 DEF Hears

\* A batch that nothing happens to hears nothing.
LEMMA SilentHears ==
  ASSUME NEW s, batches'[s] = batches[s]
  PROVE  Hears(s)
BY DEF Hears

\* An operation that settles tells its turn or its batch, and leaves the rest.
LEMMA SettleStep ==
  ASSUME HostInv, NEW o \in Ops, OpSettles(o)
  PROVE  Rest'
<1> DEFINE s == o[2]
<1> PICK next : next = Verdict(o, Head(ops[o].inbox))
  OBVIOUS
<1>1. HostType /\ OperationInv /\ Rest /\ ops \in [Ops -> OpActors] /\ s \in Steps
  BY OpNames DEF HostInv, HostType, Rest
<1>2. Live(o) /\ Pending(ops[o]) /\ next \in Final /\ ops' = [ops EXCEPT ![o] = Over(o, next)]
      /\ Settlement(o, next)
  BY DEF OpSettles
<1>3. UNCHANGED <<mode, turn, partial, writing, remembered, closed, ran, answer, standing>>
  BY DEF OpSettles
<1>4. /\ next = "succeeded" => ops[o].status = "validating_output"
      /\ ops[o].status \notin Final \cup {"none"}
  <2>1. LET e == Head(ops[o].inbox) IN
          /\ e.type \in Own \cup Failing
          /\ e.type \in Failing => Verdict(o, e) \in {"failed", "cancelled"}
          /\ e.type \in Own => ops[o].status \in {"ready"} \cup Working /\ Verdict(o, e) = After[ops[o].status]
    BY <1>1, <1>2, VerdictCases
  <2> QED BY <1>2, <2>1 DEF Working, After, Live
<1>5. /\ ops'[o] = Over(o, next) /\ ops'[o].status = next /\ Quiet(ops'[o])
      /\ \A p \in Ops : p # o => ops'[p] = ops[p]
  BY <1>1, <1>2, FreshActors
<1>6. ~Live(o)' /\ \A p \in Ops : p # o => Live(p)' = Live(p)
  BY <1>2, <1>5 DEF Live
<1>7. ASSUME NEW e \in Submissions, inbox' \in {inbox, Posted(e)} PROVE Waiting' \subseteq Waiting \cup {e}
  <2>1. CASE inbox' = inbox
    BY <1>3, <2>1 DEF Waiting
  <2>2. CASE inbox' = Append(inbox, e)
    <3>1. HostType /\ writing' = writing
      BY <1>1, <1>3
    <3> QED BY <2>2, <3>1, WaitingChanges
  <2> QED BY <1>7, <2>1, <2>2 DEF Posted
<1> DEFINE Told == \A x \in Waiting' :
                     x \in Waiting \/ True_(x)' \/ x.kind \in {"user", "abort", "tool", "failed"}
           Heard == \A t \in Steps : Hears(t)
           Held == \A p \in unreleased' : \/ p \in unreleased
                                          \/ batches'[p.step].status \in {"running", "settled"} /\ Done(p.step, p.call)'
           Granting == \A t \in Steps :
                         /\ \/ grants'[t] = grants[t]
                            \/ grants'[t] = NoGrant
                            \/ GrantInv(t)' /\ Asked(t)'
                         /\ \/ grants'[t] = grants[t] \/ ~grants'[t].held
                            \/ ops[<<"permission", t>>].status \notin Final
<1>8. Told /\ Heard /\ Held /\ Granting
  <2>1. CASE closed
    <3>1. UNCHANGED <<inbox, batches, grants, unreleased>>
      BY <1>2, <2>1 DEF Settlement
    <3> QED BY <1>3, <3>1, SilentHears DEF Waiting
  <2>2. CASE ~closed /\ o[1] = "completion"
    <3>1. UNCHANGED <<batches, grants, unreleased>>
          /\ \E v \in {"answer", "tools", "failed", "cancelled"} : inbox' = Posted(Settled("completion", s, v))
      BY <1>2, <2>2 DEF Settlement, Final
    <3>2. PICK v \in {"answer", "tools", "failed", "cancelled"} : inbox' = Posted(Settled("completion", s, v))
      BY <3>1
    <3> PICK e : e = Settled("completion", s, v)
      OBVIOUS
    <3>3. e \in Submissions /\ e.kind = "completion" /\ e.step = s
      BY <1>1 DEF Settled, Submissions, Settlements
    <3>4. o = <<"completion", s>>
      BY <2>2, OpNames
    <3>5. True_(e)'
      BY <1>2, <1>5, <3>3, <3>4 DEF True_
    <3>6. Told
      BY <1>7, <3>2, <3>3, <3>5
    <3> QED BY <3>1, <3>6, SilentHears
  <2>3. CASE ~closed /\ o[1] = "permission"
    <3> DEFINE g == grants[s]
               r == IF next = "succeeded" /\ g.stopped THEN "cancelled" ELSE next
               h == IF next # "succeeded" \/ g.stopped THEN NoGrant ELSE [g EXCEPT !.approved = g.held]
    <3> PICK e : e = Settled("permission", s, r)
      OBVIOUS
    <3>1. inbox' = Posted(e) /\ grants' = [grants EXCEPT ![s] = h] /\ UNCHANGED <<batches, unreleased>>
      BY <1>2, <2>3 DEF Settlement
    <3>2. r \in Final
      BY <1>2 DEF Final
    <3>3. e \in Submissions /\ e.kind = "permission" /\ e.step = s /\ e.result = r
      BY <1>1, <3>2 DEF Settled, Submissions, Settlements
    <3>4. o = <<"permission", s>> /\ g \in Requested /\ GrantInv(s) /\ Asked(s)
      BY <1>1, <2>3, OpNames DEF HostType, Rest, Approving
    <3>5. grants'[s] = h /\ \A t \in Steps : t # s => grants'[t] = grants[t]
      BY <1>1, <3>1 DEF HostType
    <3>6. h.held => h.approved /\ next = "succeeded" /\ ~g.stopped /\ g.held
      BY <3>4 DEF NoGrant, Requested
    <3>7. True_(e)'
      <4>1. h.held => e.result = "succeeded" /\ h.approved
        BY <3>3, <3>6
      <4> HIDE DEF h, r, g
      <4>2. ops'[<<"permission", s>>].status \in Final
        BY <1>2, <1>5, <3>4
      <4> QED BY <3>3, <3>5, <4>1, <4>2 DEF True_
    <3>8. Told
      BY <1>7, <3>1, <3>3, <3>7
    <3>9. Asked(s)'
      <4>1. ops'[o].status \in Final /\ ops'[o].inbox = << >>
        BY <1>2, <1>5 DEF Quiet
      <4> QED BY <3>4, <4>1 DEF Asked, Holds, Final
    <3>10. h = NoGrant \/ GrantInv(s)'
      <4>1. CASE next # "succeeded" \/ g.stopped
        BY <4>1
      <4>2. CASE next = "succeeded" /\ ~g.stopped /\ ~g.held
        <5>1. g = NoGrant /\ h = [g EXCEPT !.approved = g.held]
          BY <3>4, <4>2 DEF GrantInv
        <5>2. g.held = g.approved
          BY <5>1 DEF NoGrant
        <5> HIDE DEF g, h
        <5>3. [g EXCEPT !.approved = g.approved] = g
          BY <3>4 DEF Requested
        <5> QED BY <5>1, <5>2, <5>3
      <4>3. CASE next = "succeeded" /\ ~g.stopped /\ g.held
        <5>1. h = [g EXCEPT !.approved = TRUE]
          BY <4>3
        <5>2. g.next > mode.calls
          BY <1>4, <3>4, <4>3 DEF Asked
        <5> HIDE DEF g, h
        <5>3. /\ h.held = g.held /\ h.next = g.next /\ h.inputs = g.inputs /\ h.invalid = g.invalid
              /\ h.refused = g.refused /\ h.remembered = g.remembered /\ h.asking = g.asking
          BY <3>4, <5>1 DEF Requested
        <5>4. CallSet' = CallSet /\ \A x : Ok(s, x)' = Ok(s, x)
          BY <1>3 DEF CallSet, Ok
        <5> QED BY <1>3, <3>4, <3>5, <4>3, <5>2, <5>3, <5>4 DEF GrantInv, g
      <4> QED BY <4>1, <4>2, <4>3
    <3>11. Granting
      BY <1>4, <3>4, <3>5, <3>9, <3>10
    <3>12. Heard /\ Held
      BY <3>1, SilentHears
    <3> QED BY <3>8, <3>11, <3>12
  <2>4. CASE ~closed /\ o[1] = "tool"
    <3> DEFINE c == o[3]
               e == ToolResult(s, c, next)
    <3>1. /\ inbox' \in {inbox, Posted(e)} /\ UNCHANGED grants
          /\ \/ unreleased' = unreleased \cup {[step |-> s, call |-> c, result |-> next]}
                /\ UNCHANGED batches
             \/ batches' = [batches EXCEPT ![s] = Sent(@, Counted(c, Counts(next)))]
                /\ UNCHANGED unreleased
      BY <1>2, <2>4 DEF Settlement
    <3>2. c \in DOMAIN ToolOf /\ o = <<"tool", s, c>> /\ next \in Outcomes
      BY <1>2, <2>4, OpNames DEF Final, Outcomes
    <3>3. e \in Submissions /\ e.kind = "tool"
      BY <1>1, <3>2 DEF ToolResult, Submissions, Results
    <3>4. Told
      BY <1>7, <3>1, <3>3
    <3>5. batches[s].status \in {"running", "settled"}
      BY <1>1, <1>4, <2>4 DEF Rest, Spawning
    <3>6. Done(s, c)'
      BY <1>6, <3>2 DEF Done
    <3>7. CASE unreleased' = unreleased \cup {[step |-> s, call |-> c, result |-> next]} /\ UNCHANGED batches
      BY <3>1, <3>4, <3>5, <3>6, <3>7, SilentHears
    <3>8. CASE batches' = [batches EXCEPT ![s] = Sent(@, Counted(c, Counts(next)))] /\ UNCHANGED unreleased
      <4> PICK f : f = Counted(c, Counts(next))
        OBVIOUS
      <4>1. f \in Counteds /\ f.call = c
        BY <3>2, CountsFinal DEF Counted, Counteds
      <4>2. batches'[s] = Sent(batches[s], f) /\ \A t \in Steps : t # s => batches'[t] = batches[t]
        BY <1>1, <3>8 DEF HostType
      <4>3. Hears(s)
        <5>1. Done(s, f.call)'
          BY <3>6, <4>1
        <5> QED BY <1>1, <3>5, <4>1, <4>2, <5>1, CountedHears
      <4> QED BY <3>1, <3>4, <3>8, <4>2, <4>3, SilentHears
    <3> QED BY <3>1, <3>7, <3>8
  <2> QED BY <2>1, <2>2, <2>3, <2>4, OpNames
<1>9. Spawning'
  <2>1. \A p \in Ops : ops'[p].status # "none" => ops[p].status # "none"
    BY <1>4, <1>5
  <2> QED BY <1>1, <1>3, <1>8, <2>1, SpawningKept DEF Rest, Hears
<1>10. Settling'
  <2>1. \A p \in Ops : ops[p].status \in Final => ops'[p].status \in Final
    BY <1>4, <1>5
  <2> QED BY <1>1, <1>8, <2>1, SettlingKept DEF Rest, Hears
<1>11. Reporting'
  <2>1. \A t \in Steps, c \in DOMAIN ToolOf : Done(t, c) => Done(t, c)'
    BY <1>6, OpNames DEF Done
  <2> QED BY <1>1, <1>8, <2>1, ReportingKept DEF Rest, Hears
<1>12. Serving'
  <2>1. \A t \in Steps : batches'[t].results \cap batches'[t].pending = {}
    BY <1>1, <1>8 DEF Rest, Serving, Hears
  <2>2. \A p \in Ops : p[1] = "tool" => (Wanted(p) => Wanted(p)')
    BY <1>8, OpNames DEF Wanted, Hears
  <2>3. \A p \in Ops : Live(p)' => Live(p) /\ (ToldToStop(ops[p]) => ToldToStop(ops'[p]))
    BY <1>5, <1>6
  <2> QED BY <1>1, <1>3, <1>8, <2>1, <2>2, <2>3, ServingKept DEF Rest, Hears
<1>13. Approving'
  <2>1. ASSUME NEW t \in Steps, Returning(t)' PROVE Returning(t)
    <3>1. <<"permission", t>> \in Ops
      BY OpNames
    <3>2. CASE o = <<"permission", t>>
      BY <1>2, <1>5, <2>1, <3>2 DEF Returning, Quiet, Holds, Final
    <3> QED BY <1>5, <2>1, <3>1, <3>2 DEF Returning
  <2>2. ASSUME NEW t \in Steps, NEW c \in DOMAIN ToolOf, Live(<<"tool", t, c>>)'
        PROVE  Live(<<"tool", t, c>>) /\ (Unrun(t, c) => Unrun(t, c)')
    <3>1. <<"tool", t, c>> \in Ops /\ <<"tool", t, c>> # o
      BY <1>6, <2>2, OpNames
    <3> QED BY <1>5, <1>6, <1>8, <2>2, <3>1 DEF Unrun, Hears
  <2>3. \A t \in Steps, c \in DOMAIN ToolOf : Ok(t, c) => Ok(t, c)'
    BY <1>3 DEF Ok
  <2>4. remembered' \subseteq standing' /\ standing \subseteq standing'
    BY <1>1, <1>3 DEF Rest, Approving
  <2>5. \A t \in Steps :
          /\ \/ grants'[t] = grants[t] /\ closed' = closed
             \/ grants'[t] = NoGrant \/ (GrantInv(t)' /\ Asked(t)')
          /\ \/ ops'[<<"permission", t>>].status = "validating_output"
             \/ Holds(ops'[<<"permission", t>>], "returned")
             => \/ ops[<<"permission", t>>].status = "validating_output"
                \/ Holds(ops[<<"permission", t>>], "returned")
          /\ \/ batches'[t].status \notin {"ready", "running"}
             \/ /\ batches[t].status \in {"ready", "running"}
                /\ batches'[t].pending \subseteq batches[t].pending
                /\ batches'[t].status = "ready" =>
                     batches[t].status = "ready" /\ batches'[t].pending = batches[t].pending
                /\ batches'[t].granted = batches[t].granted
                /\ batches'[t].refused = batches[t].refused
                /\ batches'[t].invalid = batches[t].invalid
          /\ batches[t].status # "none" => batches'[t].status # "none"
    BY <1>3, <1>8, <2>1 DEF Returning, Hears
  <2> QED BY <1>1, <1>3, <2>2, <2>3, <2>4, <2>5, ApprovingKept DEF Rest
<1> QED BY <1>9, <1>10, <1>11, <1>12, <1>13 DEF Rest

-----------------------------------------------------------------------------
\* Batches

\* Where batches are told of outcomes, the rest stays as it is.
LEMMA HearKept ==
  ASSUME HostInv, UNCHANGED <<mode, turn, ops, grants, remembered, closed, ran, answer, standing>>,
         unreleased' \subseteq unreleased, \A s \in Steps : Hears(s),
         \A x \in Waiting' : x \in Waiting \/ x.kind \in {"user", "abort", "tool", "failed"}
  PROVE  Rest'
<1>1. HostType /\ Rest
  BY DEF HostInv, Rest
<1>2. Spawning'
  BY <1>1, SpawningKept DEF Rest, Hears
<1>3. Settling'
  BY <1>1, SettlingKept DEF Rest, Hears
<1>4. Reporting'
  <2>1. \A s \in Steps, c \in DOMAIN ToolOf : Done(s, c) => Done(s, c)'
    BY DEF Done, Live
  <2> QED BY <1>1, <2>1, ReportingKept DEF Rest, Hears
<1>5. Serving'
  <2>1. \A s \in Steps : batches'[s].results \cap batches'[s].pending = {}
    BY <1>1 DEF Rest, Serving, Hears
  <2>2. \A o \in Ops : /\ o[1] = "tool" => (Wanted(o) => Wanted(o)')
                       /\ Live(o)' = Live(o) /\ (ToldToStop(ops[o]) => ToldToStop(ops'[o]))
    BY OpNames DEF Wanted, Hears, Live
  <2> QED BY <1>1, <2>1, <2>2, ServingKept DEF Rest, Hears
<1>6. Approving'
  <2>1. \A s \in Steps, c \in DOMAIN ToolOf : Unrun(s, c) => Unrun(s, c)'
    BY DEF Unrun, Hears
  <2>2. \A s \in Steps, c \in DOMAIN ToolOf : /\ Live(<<"tool", s, c>>)' = Live(<<"tool", s, c>>)
                                              /\ Ok(s, c) => Ok(s, c)'
    BY DEF Live, Ok
  <2>3. remembered' \subseteq standing' /\ standing \subseteq standing'
    BY <1>1 DEF Rest, Approving
  <2>4. \A s \in Steps :
          /\ grants'[s] = grants[s] /\ closed' = closed
          /\ \/ ops'[<<"permission", s>>].status = "validating_output"
             \/ Holds(ops'[<<"permission", s>>], "returned")
             => \/ ops[<<"permission", s>>].status = "validating_output"
                \/ Holds(ops[<<"permission", s>>], "returned")
          /\ \/ batches'[s].status \notin {"ready", "running"}
             \/ /\ batches[s].status \in {"ready", "running"}
                /\ batches'[s].pending \subseteq batches[s].pending
                /\ batches'[s].status = "ready" =>
                     batches[s].status = "ready" /\ batches'[s].pending = batches[s].pending
                /\ batches'[s].granted = batches[s].granted
                /\ batches'[s].refused = batches[s].refused
                /\ batches'[s].invalid = batches[s].invalid
          /\ batches[s].status # "none" => batches'[s].status # "none"
    BY DEF Hears
  <2> QED BY <1>1, <2>1, <2>2, <2>3, <2>4, ApprovingKept DEF Rest
<1> QED BY <1>2, <1>3, <1>4, <1>5, <1>6 DEF Rest

\* Two states of a batch that differ in no more than the refusals to be reported.
Alike(a, b) ==
  /\ a.status = b.status /\ a.pending = b.pending /\ a.granted = b.granted
  /\ a.refused = b.refused /\ a.invalid = b.invalid /\ a.results = b.results
  /\ a.inbox = b.inbox

\* An outcome that was released is of a tool that is over.
LEMMA ReleaseHears ==
  ASSUME HostInv, NEW s \in Steps, NEW c \in DOMAIN ToolOf, ops' = ops,
         NEW told \in [Steps -> BatchActors], \A t \in Steps : t # s => told[t] = batches[t],
         Alike(told[s], batches[s]),
         \/ batches' = told
         \/ \E p \in unreleased, result \in Final :
              /\ p.step = s /\ p.call = c
              /\ Counted(c, result) \in Counteds
              /\ batches' = [told EXCEPT ![s] = Sent(@, Counted(c, result))]
  PROVE  \A t \in Steps : Hears(t)
<1>1. HostType /\ batches[s] \in BatchActors
  BY DEF HostInv, HostType
<1>2. /\ told[s].status = batches[s].status /\ told[s].pending = batches[s].pending
      /\ told[s].granted = batches[s].granted /\ told[s].refused = batches[s].refused
      /\ told[s].invalid = batches[s].invalid /\ told[s].results = batches[s].results
      /\ told[s].inbox = batches[s].inbox
  BY DEF Alike
<1>3. CASE batches' = told
  BY <1>2, <1>3 DEF Hears, Holds
<1>4. ASSUME NEW p \in unreleased, NEW result \in Final, p.step = s, p.call = c,
             Counted(c, result) \in Counteds,
             batches' = [told EXCEPT ![s] = Sent(@, Counted(c, result))]
      PROVE  \A t \in Steps : Hears(t)
  <2> PICK e \in Counteds : e = Counted(c, result)
    BY <1>4
  <2>1. e.call = c
    BY DEF Counted
  <2>2. batches'[s] = Sent(told[s], e) /\ \A t \in Steps : t # s => batches'[t] = batches[t]
    BY <1>4
  <2>3. batches[s].status \in {"running", "settled"} /\ Done(s, c)
    BY <1>4 DEF HostInv, Reporting
  <2>4. Done(s, e.call)'
    BY <2>1, <2>3 DEF Done, Live
  <2>5. told[s] \in BatchActors /\ e \in [type : {"start", "cancel"}] \cup Counteds
    OBVIOUS
  <2>6. /\ batches'[s].status = told[s].status /\ batches'[s].pending = told[s].pending
        /\ batches'[s].granted = told[s].granted /\ batches'[s].refused = told[s].refused
        /\ batches'[s].invalid = told[s].invalid /\ batches'[s].results = told[s].results
    BY <2>2, <2>5, SentBatch
  <2>7. /\ Holds(told[s], "cancel") => Holds(batches'[s], "cancel")
        /\ \A i \in DOMAIN batches'[s].inbox :
             \/ \E j \in DOMAIN told[s].inbox : told[s].inbox[j] = batches'[s].inbox[i]
             \/ told[s].status \in {"ready", "running"} /\ batches'[s].inbox[i] = e
    BY <2>2, <2>5, SentToBatch
  <2>8. Holds(batches[s], "cancel") => Holds(batches'[s], "cancel")
    BY <1>2, <2>7 DEF Holds
  <2>9. \A i \in DOMAIN batches'[s].inbox :
          \/ \E j \in DOMAIN batches[s].inbox : batches[s].inbox[j] = batches'[s].inbox[i]
          \/ batches'[s].status = "running" /\ Done(s, batches[s].inbox[i].call)'
    <3>1. \A x : x = e => Done(s, x.call)'
      BY <2>4 DEF Done, Live
    <3> QED BY <1>2, <2>3, <2>6, <2>7, <3>1 DEF Done
  <2>10. Hears(s)
    BY <1>2, <2>6, <2>8, <2>9 DEF Hears
  <2> QED BY <2>2, <2>10, SilentHears
<1> QED BY <1>3, <1>4

\* A refusal that is reported.
LEMMA RefusalStep ==
  ASSUME HostInv, NEW s \in Steps, NEW c \in DOMAIN ToolOf, RefusalReported(s, c)
  PROVE  Rest'
<1>1. HostType /\ batches \in [Steps -> BatchActors]
  BY DEF HostInv, HostType
<1>0. PICK told : told = [batches EXCEPT ![s].refusing = @ \ {c}]
  OBVIOUS
<1>2. /\ batches' = told \/ batches' = Released(s, c, told)
      /\ inbox' = inbox \/ inbox' = Posted(ToolResult(s, c, "refused"))
      /\ unreleased' = unreleased \/ unreleased' = Forgotten(s, c)
      /\ UNCHANGED <<mode, turn, writing, ops, grants, remembered, closed, ran, answer, standing>>
  BY <1>0 DEF RefusalReported
<1>3. Alike(told[s], batches[s]) /\ \A t \in Steps : t # s => told[t] = batches[t]
  <2>1. told[s] = [batches[s] EXCEPT !.refusing = @ \ {c}] /\ batches[s] \in BatchActors
    BY <1>0, <1>1
  <2> QED BY <1>0, <1>1, <2>1 DEF Alike, BatchActors
<1>4. told \in [Steps -> BatchActors]
  <2> DEFINE M == [type : {"start", "cancel"}] \cup Counteds
             kept(b) == [b EXCEPT !.refusing = @ \ {c}]
  <2> HIDE DEF M
  <2>0. ASSUME NEW b \in [status : {"none", "ready", "running", "settled"}, inbox : Seq(M),
                          pending : SUBSET DOMAIN ToolOf, results : SUBSET DOMAIN ToolOf,
                          granted : BOOLEAN, refused : SUBSET DOMAIN ToolOf,
                          invalid : SUBSET DOMAIN ToolOf, refusing : SUBSET DOMAIN ToolOf]
        PROVE  kept(b) \in [status : {"none", "ready", "running", "settled"}, inbox : Seq(M),
                          pending : SUBSET DOMAIN ToolOf, results : SUBSET DOMAIN ToolOf,
                          granted : BOOLEAN, refused : SUBSET DOMAIN ToolOf,
                          invalid : SUBSET DOMAIN ToolOf, refusing : SUBSET DOMAIN ToolOf]
    OBVIOUS
  <2>1. [batches[s] EXCEPT !.refusing = @ \ {c}] \in BatchActors
    <3>1. batches[s] \in BatchActors
      BY <1>1
    <3> HIDE DEF kept
    <3>2. kept(batches[s]) \in BatchActors
      BY <2>0, <3>1 DEF BatchActors, M
    <3> QED BY <3>2 DEF kept
  <2>2. told = [batches EXCEPT ![s] = [batches[s] EXCEPT !.refusing = @ \ {c}]]
    BY <1>0
  <2> QED BY <1>1, <2>1, <2>2
<1>5. \A t \in Steps : Hears(t)
  <2>1. ops' = ops
    BY <1>2
  <2>2. \/ Released(s, c, told) = told
        \/ \E p \in unreleased, result \in Final :
             /\ p.step = s /\ p.call = c
             /\ Counted(c, result) \in Counteds
             /\ Released(s, c, told) = [told EXCEPT ![s] = Sent(@, Counted(c, result))]
    BY <1>1, <1>4, ReleasedBatches
  <2>3. \/ batches' = told
        \/ \E p \in unreleased, result \in Final :
             /\ p.step = s /\ p.call = c
             /\ Counted(c, result) \in Counteds
             /\ batches' = [told EXCEPT ![s] = Sent(@, Counted(c, result))]
    <3>1. CASE batches' = told
      BY <3>1
    <3>2. CASE batches' = Released(s, c, told)
      BY <2>2, <3>2
    <3> QED BY <1>2, <3>1, <3>2
  <2> QED BY <1>3, <1>4, <2>1, <2>3, ReleaseHears
<1>6. \A x \in Waiting' : x \in Waiting \/ x.kind = "tool"
  <2>1. ToolResult(s, c, "refused") \in Submissions /\ ToolResult(s, c, "refused").kind = "tool"
    BY DEF ToolResult, Submissions, Results, Outcomes
  <2>2. inbox' = inbox \/ inbox' = Append(inbox, ToolResult(s, c, "refused"))
    BY <1>2 DEF Posted
  <2>3. CASE inbox' = inbox
    BY <1>2, <2>3 DEF Waiting
  <2>4. CASE inbox' = Append(inbox, ToolResult(s, c, "refused"))
    <3> PICK e \in Submissions : e = ToolResult(s, c, "refused")
      BY <2>1
    <3>1. Waiting' \subseteq Waiting \cup {e}
      BY <1>1, <1>2, <2>4, WaitingChanges
    <3> QED BY <2>1, <3>1
  <2> QED BY <2>2, <2>3, <2>4
<1>7. unreleased' \subseteq unreleased
  BY <1>2 DEF Forgotten
<1> QED BY <1>2, <1>5, <1>6, <1>7, HearKept

\* What is left of a batch's inbox when it takes its head.
LEMMA TakenFromBatch ==
  ASSUME HostType, NEW s \in Steps, NEW b, batches[s].inbox # << >>, b.inbox = Tail(batches[s].inbox)
  PROVE  /\ \A i \in DOMAIN b.inbox :
              \E j \in DOMAIN batches[s].inbox : batches[s].inbox[j] = b.inbox[i]
         /\ Holds(batches[s], "cancel") /\ Head(batches[s].inbox).type # "cancel" => Holds(b, "cancel")
<1> PICK a : a = batches[s].inbox
  OBVIOUS
<1>1. /\ Head(a) = a[1] /\ 1 \in DOMAIN a
      /\ \A i \in DOMAIN Tail(a) : i + 1 \in DOMAIN a /\ Tail(a)[i] = a[i + 1]
      /\ \A i \in DOMAIN a : i # 1 => i - 1 \in DOMAIN Tail(a) /\ Tail(a)[i - 1] = a[i]
  BY BatchChanges
<1>2. \A i \in DOMAIN b.inbox : \E j \in DOMAIN a : a[j] = b.inbox[i]
  BY <1>1
<1>3. ASSUME Holds(batches[s], "cancel"), Head(a).type # "cancel"
      PROVE  Holds(b, "cancel")
  <2>1. PICK i \in DOMAIN a : a[i].type = "cancel"
    BY <1>3 DEF Holds
  <2>2. i # 1
    BY <1>1, <1>3, <2>1
  <2>3. i - 1 \in DOMAIN b.inbox /\ b.inbox[i - 1].type = "cancel"
    BY <1>1, <2>1, <2>2
  <2> QED BY <2>3 DEF Holds
<1> QED BY <1>2, <1>3

\* A batch that starts spawns the tools that its grant allowed, and no others.
LEMMA StartStep ==
  ASSUME HostInv, NEW s \in Steps, BatchStarts(s)
  PROVE  Rest'
<1>1. HostType /\ Rest /\ batches \in [Steps -> BatchActors] /\ ops \in [Ops -> OpActors]
  BY DEF HostInv, HostType, Rest
<1>2. PICK b \in BatchActors :
        /\ batches' = [batches EXCEPT ![s] = b]
        /\ b.status = "running" /\ b.inbox = Tail(batches[s].inbox)
        /\ b.pending = batches[s].pending /\ b.results = batches[s].results
        /\ b.granted = batches[s].granted /\ b.refused = batches[s].refused
        /\ b.invalid = batches[s].invalid /\ b.refusing = batches[s].refused
  BY <1>1, BatchGoesOn
<1>3. /\ batches[s].status = "ready" /\ batches[s].inbox # << >>
      /\ Head(batches[s].inbox).type = "start"
      /\ unreleased' = unreleased \cup Refusals(s)
      /\ UNCHANGED <<mode, turn, partial, inbox, writing, grants, remembered, closed, ran, answer, standing>>
  BY DEF BatchStarts, Pending, Refusals
<1>4. batches'[s] = b /\ \A t \in Steps : t # s => batches'[t] = batches[t]
  BY <1>1, <1>2
<1>5. /\ s <= turn.step /\ batches[s].pending = CallSet
      /\ \A c \in DOMAIN ToolOf : ops[<<"tool", s, c>>].status = "none"
  <2>1. \A c \in DOMAIN ToolOf : ops[<<"tool", s, c>>].status # "none" => batches[s].status \in {"running", "settled"}
    BY <1>1, OpNames DEF Rest, Spawning
  <2> QED BY <1>1, <1>3, <2>1 DEF Rest, Spawning, Approving, BatchInv
<1>6. ASSUME NEW o \in Ops
      PROVE  \/ ops'[o] = ops[o] /\ (o[1] = "tool" /\ o[2] = s => ~Live(o)')
             \/ /\ o[1] = "tool" /\ o[2] = s /\ o[3] \in CallSet \ batches[s].refused
                /\ ops'[o] = Spawned(o)
  <2>1. ops'[o] = IF o[1] = "tool" /\ o[2] = s /\ o[3] \in Spawns(s) THEN Spawned(o) ELSE ops[o]
    BY DEF BatchStarts
  <2>2. Spawns(s) \subseteq CallSet \ batches[s].refused
    BY DEF Spawns
  <2>3. o[1] = "tool" /\ o[2] = s => ops[o].status = "none"
    BY <1>5, OpNames
  <2> QED BY <2>1, <2>2, <2>3 DEF Live
<1>7. \A o : /\ Spawned(o).status = "ready" /\ Spawned(o).work = "none"
             /\ Spawned(o).inbox = <<Event("start")>>
  BY <1>1, SpawnedOp
<1>8. /\ \A i \in DOMAIN b.inbox : \E j \in DOMAIN batches[s].inbox : batches[s].inbox[j] = b.inbox[i]
      /\ Holds(batches[s], "cancel") => Holds(b, "cancel")
  BY <1>1, <1>2, <1>3, TakenFromBatch
<1>9. Spawning'
  <2>1. \A o \in Ops : ops'[o].status # "none" =>
           \/ ops[o].status # "none"
           \/ o[1] = "tool" /\ batches'[o[2]].status \in {"running", "settled"} /\ o[2] <= turn.step
    BY <1>2, <1>4, <1>5, <1>6
  <2>2. \A t \in Steps :
           /\ batches[t].status \in {"running", "settled"} => batches'[t].status \in {"running", "settled"}
           /\ batches'[t].status # "none" => batches[t].status # "none"
    BY <1>2, <1>3, <1>4
  <2> QED BY <1>1, <1>3, <2>1, <2>2, SpawningKept DEF Rest
<1>10. Settling'
  <2>1. Waiting' = Waiting
    BY <1>3 DEF Waiting
  <2>2. \A o \in Ops : ops[o].status \in Final => ops'[o].status \in Final
    BY <1>5, <1>6, OpNames DEF Final
  <2>3. \A t \in Steps : batches[t].status = "settled" => batches'[t].status = "settled"
    BY <1>3, <1>4
  <2> QED BY <1>1, <1>3, <2>1, <2>2, <2>3, SettlingKept DEF Rest
<1>11. Reporting'
  <2>1. ASSUME NEW p \in unreleased', p \notin unreleased
        PROVE  batches'[p.step].status \in {"running", "settled"} /\ Done(p.step, p.call)'
    <3>1. PICK c \in batches[s].refused : p = [step |-> s, call |-> c, result |-> "refused"]
      BY <1>3, <2>1 DEF Refusals
    <3>2. p.step = s /\ p.call = c /\ c \in DOMAIN ToolOf
      BY <1>1, <3>1 DEF BatchActors
    <3>3. <<"tool", s, c>> \in Ops /\ ~Live(<<"tool", s, c>>)'
      BY <1>6, <3>1, <3>2, OpNames
    <3>4. Done(s, c)'
      BY <3>3 DEF Done
    <3> QED BY <1>2, <1>4, <3>2, <3>4
  <2>2. \A t \in Steps, c \in DOMAIN ToolOf :
           Done(t, c) => Done(t, c)' \/ batches[t].status = "ready"
    <3> SUFFICES ASSUME NEW t \in Steps, NEW c \in DOMAIN ToolOf, t # s, Done(t, c)
                 PROVE  Done(t, c)'
      BY <1>3
    <3>1. <<"tool", t, c>> \in Ops
      BY OpNames
    <3>2. ops'[<<"tool", t, c>>] = ops[<<"tool", t, c>>]
      BY <1>6, <3>1
    <3> QED BY <3>2 DEF Done, Live
  <2>3. \A t \in Steps :
           /\ batches[t].status \in {"running", "settled"} => batches'[t].status \in {"running", "settled"}
           /\ \A i \in DOMAIN batches'[t].inbox :
                /\ \E j \in DOMAIN batches[t].inbox : batches[t].inbox[j] = batches'[t].inbox[i]
                /\ batches[t].status = "running" => batches'[t].status = "running"
    <3>1. b.status = "running"
      BY <1>2
    <3>2. ASSUME NEW t \in Steps, NEW i \in DOMAIN batches'[t].inbox
          PROVE  \E j \in DOMAIN batches[t].inbox : batches[t].inbox[j] = batches'[t].inbox[i]
      <4>1. CASE t = s
        BY <1>4, <1>8, <3>2, <4>1
      <4>2. CASE t # s
        BY <1>4, <3>2, <4>2
      <4> QED BY <4>1, <4>2
    <3> QED BY <1>3, <1>4, <3>1, <3>2
  <2> QED BY <1>1, <2>1, <2>2, <2>3, ReportingKept DEF Rest
<1>12. Serving'
  <2>1. \A t \in Steps :
           /\ batches'[t].status \in {"ready", "running"} =>
                /\ batches[t].status \in {"ready", "running"}
                /\ Holds(batches[t], "cancel") => Holds(batches'[t], "cancel")
           /\ batches'[t].results \cap batches'[t].pending = {}
    BY <1>1, <1>2, <1>3, <1>4, <1>8 DEF Rest, Serving
  <2>2. ASSUME NEW o \in Ops, Live(o)'
        PROVE  \/ o[1] = "tool" /\ Wanted(o)'
               \/ Live(o) /\ (ToldToStop(ops[o]) => ToldToStop(ops'[o]))
                  /\ (o[1] = "tool" => (Wanted(o) => Wanted(o)'))
    <3>1. CASE ops'[o] = ops[o] /\ ~(o[1] = "tool" /\ o[2] = s)
      BY <1>4, <2>2, <3>1, OpNames DEF Live, Wanted
    <3>2. CASE o[1] = "tool" /\ o[2] = s /\ o[3] \in CallSet
      BY <1>2, <1>4, <1>5, <3>2 DEF Wanted
    <3> QED BY <1>6, <2>2, <3>1, <3>2
  <2> QED BY <1>1, <1>3, <2>1, <2>2, ServingKept DEF Rest
<1>13. Approving'
  <2>1. \A t \in Steps, c \in DOMAIN ToolOf : Ok(t, c) => Ok(t, c)'
    BY <1>3 DEF Ok
  <2>2. remembered' \subseteq standing' /\ standing \subseteq standing'
    BY <1>1, <1>3 DEF Rest, Approving
  <2>3. \A t \in Steps :
           /\ grants'[t] = grants[t] /\ closed' = closed
           /\ Returning(t)' => Returning(t)
           /\ \/ batches'[t].status \notin {"ready", "running"}
              \/ /\ batches[t].status \in {"ready", "running"}
                 /\ batches'[t].pending \subseteq batches[t].pending
                 /\ batches'[t].status = "ready" =>
                      batches[t].status = "ready" /\ batches'[t].pending = batches[t].pending
                 /\ batches'[t].granted = batches[t].granted
                 /\ batches'[t].refused = batches[t].refused
                 /\ batches'[t].invalid = batches[t].invalid
           /\ batches[t].status # "none" => batches'[t].status # "none"
    <3>1. \A t \in Steps : ops'[<<"permission", t>>] = ops[<<"permission", t>>]
      BY <1>6, OpNames
    <3> QED BY <1>2, <1>3, <1>4, <3>1 DEF Returning
  <2>4. ASSUME NEW t \in Steps, NEW c \in DOMAIN ToolOf, Live(<<"tool", t, c>>)'
        PROVE  \/ mode.asks => Ok(t, c)'
               \/ Unrun(t, c)'
               \/ Live(<<"tool", t, c>>) /\ (Unrun(t, c) => Unrun(t, c)')
    <3>1. <<"tool", t, c>> \in Ops /\ <<"tool", t, c>>[1] = "tool" /\ <<"tool", t, c>>[2] = t
          /\ <<"tool", t, c>>[3] = c
      BY OpNames
    <3>2. CASE t # s
      <4>1. ops'[<<"tool", t, c>>] = ops[<<"tool", t, c>>] /\ batches'[t] = batches[t]
        BY <1>4, <1>6, <3>1, <3>2
      <4> QED BY <2>4, <4>1 DEF Live, Unrun
    <3>3. CASE t = s
      <4>1. c \in CallSet \ batches[s].refused /\ ops'[<<"tool", s, c>>] = Spawned(<<"tool", s, c>>)
        BY <1>6, <2>4, <3>1, <3>3
      <4>2. mode.asks => batches[s].granted /\ (Ok(s, c) \/ c \in batches[s].invalid)
        BY <1>1, <1>3, <4>1 DEF Rest, Approving, BatchInv
      <4>3. CASE mode.asks => Ok(s, c)
        BY <2>1, <3>3, <4>3
      <4>4. CASE batches[s].granted /\ c \in batches[s].invalid
        <5>1. ~Holds(ops'[<<"tool", s, c>>], "input_valid") /\ ops'[<<"tool", s, c>>].status = "ready"
          BY <1>7, <4>1 DEF Holds, Event
        <5>2. batches'[s].status = "running" /\ batches'[s].granted /\ c \in batches'[s].invalid
          BY <1>2, <1>4, <4>4
        <5> QED BY <3>3, <5>1, <5>2 DEF Unrun
      <4> QED BY <4>2, <4>3, <4>4
    <3> QED BY <3>2, <3>3
  <2> QED BY <1>1, <1>3, <2>1, <2>2, <2>3, <2>4, ApprovingKept DEF Rest, Returning
<1> QED BY <1>9, <1>10, <1>11, <1>12, <1>13 DEF Rest

\* A batch that counts an outcome no longer waits for its tool, which is over.
LEMMA CountStep ==
  ASSUME HostInv, NEW s \in Steps, BatchCounts(s)
  PROVE  Rest'
<1>1. HostType /\ Rest /\ batches \in [Steps -> BatchActors]
  BY DEF HostInv, HostType, Rest
<1> PICK c : c = Head(batches[s].inbox).call
  OBVIOUS
<1>2. PICK b \in BatchActors :
        /\ batches' = [batches EXCEPT ![s] = b]
        /\ b.status = "running" /\ b.inbox = Tail(batches[s].inbox)
        /\ b.pending = batches[s].pending \ {c} /\ b.results = batches[s].results \cup {c}
        /\ b.granted = batches[s].granted /\ b.refused = batches[s].refused
        /\ b.invalid = batches[s].invalid
        /\ c \in batches[s].pending /\ batches[s].status = "running"
        /\ batches[s].inbox # << >> /\ Head(batches[s].inbox).type = "tool_settled"
  BY <1>1, BatchGoesOn
<1>3. UNCHANGED <<mode, turn, partial, inbox, writing, ops, grants, remembered, unreleased,
                  closed, ran, answer, standing>>
  BY DEF BatchCounts, hostVars
<1>4. batches'[s] = b /\ \A t \in Steps : t # s => batches'[t] = batches[t]
  BY <1>1, <1>2
<1>5. Done(s, c)
  <2>1. batches[s].inbox[1] = Head(batches[s].inbox) /\ 1 \in DOMAIN batches[s].inbox
    BY <1>1, <1>2, BatchChanges
  <2> QED BY <1>1, <1>2, <2>1 DEF Rest, Reporting
<1>6. /\ \A i \in DOMAIN b.inbox : \E j \in DOMAIN batches[s].inbox : batches[s].inbox[j] = b.inbox[i]
      /\ Holds(batches[s], "cancel") => Holds(b, "cancel")
  <2>1. /\ batches[s].inbox # << >> /\ b.inbox = Tail(batches[s].inbox)
        /\ Head(batches[s].inbox).type # "cancel"
    BY <1>2
  <2>2. HostType
    BY <1>1
  <2>3. /\ \A i \in DOMAIN b.inbox : \E j \in DOMAIN batches[s].inbox : batches[s].inbox[j] = b.inbox[i]
        /\ Holds(batches[s], "cancel") /\ Head(batches[s].inbox).type # "cancel" => Holds(b, "cancel")
    BY ONLY <2>1, <2>2, s \in Steps, TakenFromBatch
  <2> QED BY <2>1, <2>3
<1>7. Spawning'
  BY <1>1, <1>2, <1>3, <1>4, SpawningKept DEF Rest
<1>8. Settling'
  <2>1. Waiting' = Waiting
    BY <1>3 DEF Waiting
  <2> QED BY <1>1, <1>2, <1>3, <1>4, <2>1, SettlingKept DEF Rest
<1>9. Reporting'
  <2>1. \A t \in Steps, d \in DOMAIN ToolOf : Done(t, d) => Done(t, d)'
    BY <1>3 DEF Done, Live
  <2>2. ASSUME NEW t \in Steps, NEW i \in DOMAIN batches'[t].inbox
        PROVE  \E j \in DOMAIN batches[t].inbox : batches[t].inbox[j] = batches'[t].inbox[i]
    <3>1. CASE t = s
      BY <1>4, <1>6, <2>2, <3>1
    <3>2. CASE t # s
      BY <1>4, <2>2, <3>2
    <3> QED BY <3>1, <3>2
  <2>3. \A t \in Steps : batches'[t].status = batches[t].status
    BY <1>2, <1>4
  <2> QED BY <1>1, <1>3, <2>1, <2>2, <2>3, ReportingKept DEF Rest
<1>10. Serving'
  <2>1. \A t \in Steps :
           /\ batches'[t].status \in {"ready", "running"} =>
                /\ batches[t].status \in {"ready", "running"}
                /\ Holds(batches[t], "cancel") => Holds(batches'[t], "cancel")
           /\ batches'[t].results \cap batches'[t].pending = {}
    BY <1>1, <1>2, <1>4, <1>6 DEF Rest, Serving
  <2>2. ASSUME NEW o \in Ops, Live(o)'
        PROVE  /\ Live(o) /\ (ToldToStop(ops[o]) => ToldToStop(ops'[o]))
               /\ o[1] = "tool" => (Wanted(o) => Wanted(o)')
    <3>1. Live(o)
      BY <1>3, <2>2 DEF Live
    <3>2. ASSUME o[1] = "tool", Wanted(o) PROVE Wanted(o)'
      <4>1. o = <<"tool", o[2], o[3]>> /\ o[2] \in Steps
        BY <3>2, OpNames
      <4>2. o[2] = s => o[3] # c
        BY <1>5, <3>1, <4>1 DEF Done
      <4> QED BY <1>2, <1>4, <3>2, <4>1, <4>2 DEF Wanted
    <3> QED BY <1>3, <3>1, <3>2
  <2> QED BY <1>1, <1>3, <2>1, <2>2, ServingKept DEF Rest
<1>11. Approving'
  <2>1. \A t \in Steps, d \in DOMAIN ToolOf : Ok(t, d) => Ok(t, d)'
    BY <1>3 DEF Ok
  <2>2. remembered' \subseteq standing' /\ standing \subseteq standing'
    BY <1>1, <1>3 DEF Rest, Approving
  <2>3. \A t \in Steps :
           /\ grants'[t] = grants[t] /\ closed' = closed
           /\ Returning(t)' => Returning(t)
           /\ \/ batches'[t].status \notin {"ready", "running"}
              \/ /\ batches[t].status \in {"ready", "running"}
                 /\ batches'[t].pending \subseteq batches[t].pending
                 /\ batches'[t].status = "ready" =>
                      batches[t].status = "ready" /\ batches'[t].pending = batches[t].pending
                 /\ batches'[t].granted = batches[t].granted
                 /\ batches'[t].refused = batches[t].refused
                 /\ batches'[t].invalid = batches[t].invalid
           /\ batches[t].status # "none" => batches'[t].status # "none"
    BY <1>2, <1>3, <1>4 DEF Returning
  <2>4. ASSUME NEW t \in Steps, NEW d \in DOMAIN ToolOf, Live(<<"tool", t, d>>)'
        PROVE  Live(<<"tool", t, d>>) /\ (Unrun(t, d) => Unrun(t, d)')
    <3>1. /\ batches'[t].status = batches[t].status /\ batches'[t].granted = batches[t].granted
          /\ batches'[t].invalid = batches[t].invalid
      BY <1>2, <1>4
    <3> QED BY <1>3, <2>4, <3>1 DEF Live, Unrun
  <2> QED BY <1>1, <1>3, <2>1, <2>2, <2>3, <2>4, ApprovingKept DEF Rest, Returning
<1> QED BY <1>7, <1>8, <1>9, <1>10, <1>11 DEF Rest

\* A batch that settles stops the tools it still waits for; those it does not were
\* over or told to stop.
LEMMA EndStep ==
  ASSUME HostInv, NEW s \in Steps, NEW outcome \in Final, NEW results \in SUBSET DOMAIN ToolOf,
         BatchEnds(s, outcome, results), batches[s].status \in {"ready", "running"},
         outcome = "succeeded" => \A c \in batches[s].pending : Done(s, c)
  PROVE  Rest'
<1>1. HostType /\ Rest /\ batches \in [Steps -> BatchActors] /\ ops \in [Ops -> OpActors]
  BY DEF HostInv, HostType, Rest
<1> PICK b : b = Settles(s, results)
  OBVIOUS
<1> PICK e : e = Settled("batch", s, outcome)
  OBVIOUS
<1>2. /\ b.status = "settled" /\ b.inbox = << >> /\ b.pending = {} /\ b.results = results
      /\ batches'[s] = b /\ \A t \in Steps : t # s => batches'[t] = batches[t]
      /\ inbox' = Posted(e) /\ e \in Submissions
  BY <1>1, BatchEndTypes
<1>3. /\ UNCHANGED <<mode, turn, partial, writing, grants, remembered, closed, ran, answer, standing>>
      /\ unreleased' = {p \in unreleased : p.step # s}
  BY DEF BatchEnds
<1>4. ASSUME NEW o \in Ops
      PROVE  /\ Goes(ops[o], ops'[o])
             /\ \/ ops'[o] = ops[o] /\ (o[1] = "tool" /\ o[2] = s /\ outcome # "succeeded" => o[3] \notin batches[s].pending)
                \/ /\ o[1] = "tool" /\ o[2] = s
                   /\ Live(o) => /\ ToldToStop(ops'[o])
                                 /\ Blocked(ops[o]) \/ ~Holds(ops[o], "input_valid") => Blocked(ops'[o])
  <2>1. ops'[o] = IF o[1] = "tool" /\ o[2] = s /\ o[3] \in Stops(s, outcome)
                    THEN Sent(ops[o], Event("cancel")) ELSE ops[o]
    BY DEF BatchEnds
  <2>2. CASE o[1] = "tool" /\ o[2] = s /\ o[3] \in Stops(s, outcome)
    <3>1. "cancel" \in Failing /\ ops[o] \in OpActors
      BY <1>1 DEF Failing
    <3> QED BY <2>1, <2>2, <3>1, SentStops DEF Live
  <2>3. CASE ~(o[1] = "tool" /\ o[2] = s /\ o[3] \in Stops(s, outcome))
    BY <2>1, <2>3 DEF Stops, Goes
  <2> QED BY <2>2, <2>3
<1>5. \A o \in Ops : Live(o)' = Live(o)
  BY <1>4 DEF Goes, Live
<1>6. ASSUME NEW c \in DOMAIN ToolOf, Live(<<"tool", s, c>>)
      PROVE  /\ ToldToStop(ops'[<<"tool", s, c>>])
             /\ Blocked(ops[<<"tool", s, c>>]) \/ ~Holds(ops[<<"tool", s, c>>], "input_valid") =>
                  Blocked(ops'[<<"tool", s, c>>])
  <2> PICK o : o = <<"tool", s, c>>
    OBVIOUS
  <2>1. o \in Ops /\ o[1] = "tool" /\ o[2] = s /\ o[3] = c
    BY OpNames
  <2>2. CASE outcome # "succeeded" /\ c \in batches[s].pending
    BY <1>4, <1>6, <2>1, <2>2
  <2>3. CASE outcome = "succeeded" \/ c \notin batches[s].pending
    <3>1. c \notin batches[s].pending
      BY <1>6, <2>3 DEF Done
    <3>2. ToldToStop(ops[o])
      BY <1>1, <1>6, <3>1 DEF Rest, Serving
    <3>3. ~Holds(ops[o], "input_valid") => Blocked(ops[o])
      <4> SUFFICES ASSUME ~Holds(ops[o], "input_valid") PROVE Blocked(ops[o])
        OBVIOUS
      <4> DEFINE M == [type : Own \cup Failing]
      <4>1. ops[o].inbox \in Seq(M)
        BY <1>1, <2>1 DEF OpActors
      <4> HIDE DEF M
      <4>2. PICK i \in DOMAIN ops[o].inbox : ops[o].inbox[i].type \in Failing
        BY <3>2 DEF ToldToStop, Failing
      <4>3. \A j \in 1..(i - 1) : j \in DOMAIN ops[o].inbox
        BY <4>1, <4>2
      <4> QED BY <4>2, <4>3 DEF Blocked, Holds
    <3> QED BY <1>4, <2>1, <3>2, <3>3 DEF Goes
  <2> QED BY <2>2, <2>3
<1>7. Spawning'
  BY <1>1, <1>2, <1>3, <1>4, SpawningKept DEF Rest, Goes
<1>8. Settling'
  <2>1. Waiting' \subseteq Waiting \cup {e}
    BY <1>1, <1>2, <1>3, WaitingChanges DEF Posted, Waiting
  <2>2. True_(e)'
    <3>1. e.kind = "batch" /\ e.step = s
      BY DEF Settled
    <3> QED BY <1>2, <3>1 DEF True_
  <2>3. \A x : x = e => True_(x)'
    BY <2>2
  <2>4. \A x \in Waiting' : x \in Waiting \/ True_(x)'
    BY <2>1, <2>3
  <2> QED BY <1>1, <1>2, <1>3, <1>4, <2>4, SettlingKept DEF Rest, Goes
<1>9. Reporting'
  <2>1. \A t \in Steps, c \in DOMAIN ToolOf : Done(t, c) => Done(t, c)'
    BY <1>5, OpNames DEF Done
  <2>2. \A t \in Steps :
           /\ batches[t].status \in {"running", "settled"} => batches'[t].status \in {"running", "settled"}
           /\ \A i \in DOMAIN batches'[t].inbox :
                /\ \E j \in DOMAIN batches[t].inbox : batches[t].inbox[j] = batches'[t].inbox[i]
                /\ batches[t].status = "running" => batches'[t].status = "running"
    BY <1>2
  <2> QED BY <1>1, <1>3, <2>1, <2>2, ReportingKept DEF Rest
<1>10. Serving'
  <2>1. \A t \in Steps :
           /\ batches'[t].status \in {"ready", "running"} =>
                /\ batches[t].status \in {"ready", "running"}
                /\ Holds(batches[t], "cancel") => Holds(batches'[t], "cancel")
           /\ batches'[t].results \cap batches'[t].pending = {}
    BY <1>1, <1>2 DEF Rest, Serving
  <2>2. ASSUME NEW o \in Ops, Live(o)'
        PROVE  \/ ToldToStop(ops'[o])
               \/ Live(o) /\ (ToldToStop(ops[o]) => ToldToStop(ops'[o]))
                  /\ (o[1] = "tool" => (Wanted(o) => Wanted(o)'))
    <3>1. Live(o) /\ Goes(ops[o], ops'[o])
      BY <1>4, <1>5, <2>2
    <3>2. CASE o[1] = "tool" /\ o[2] = s
      BY <1>6, <3>1, <3>2, OpNames
    <3>3. CASE ~(o[1] = "tool" /\ o[2] = s)
      BY <1>2, <3>1, <3>3, OpNames DEF Goes, Wanted
    <3> QED BY <3>2, <3>3
  <2> QED BY <1>1, <1>3, <2>1, <2>2, ServingKept DEF Rest
<1>11. Approving'
  <2>1. \A t \in Steps, c \in DOMAIN ToolOf : Ok(t, c) => Ok(t, c)'
    BY <1>3 DEF Ok
  <2>2. remembered' \subseteq standing' /\ standing \subseteq standing'
    BY <1>1, <1>3 DEF Rest, Approving
  <2>3. \A t \in Steps :
           /\ grants'[t] = grants[t] /\ closed' = closed
           /\ Returning(t)' => Returning(t)
           /\ \/ batches'[t].status \notin {"ready", "running"}
              \/ /\ batches[t].status \in {"ready", "running"}
                 /\ batches'[t].pending \subseteq batches[t].pending
                 /\ batches'[t].status = "ready" =>
                      batches[t].status = "ready" /\ batches'[t].pending = batches[t].pending
                 /\ batches'[t].granted = batches[t].granted
                 /\ batches'[t].refused = batches[t].refused
                 /\ batches'[t].invalid = batches[t].invalid
           /\ batches[t].status # "none" => batches'[t].status # "none"
    <3>1. \A t \in Steps : Returning(t)' => Returning(t)
      BY <1>4, OpNames DEF Returning, Goes, Own
    <3> QED BY <1>2, <1>3, <3>1
  <2>4. ASSUME NEW t \in Steps, NEW c \in DOMAIN ToolOf, Live(<<"tool", t, c>>)'
        PROVE  Live(<<"tool", t, c>>) /\ (Unrun(t, c) => Unrun(t, c)')
    <3> PICK o : o = <<"tool", t, c>>
      OBVIOUS
    <3>1. o \in Ops /\ Live(o) /\ Goes(ops[o], ops'[o])
      BY <1>4, <1>5, <2>4, OpNames
    <3>2. CASE t = s
      BY <1>6, <3>1, <3>2 DEF Unrun, Goes
    <3>3. CASE t # s
      <4>1. batches'[t] = batches[t]
        BY <1>2, <3>3
      <4>2. Holds(ops'[o], "input_valid") => Holds(ops[o], "input_valid")
        BY <3>1 DEF Goes, Own
      <4> QED BY <3>1, <4>1, <4>2 DEF Unrun, Goes
    <3> QED BY <3>2, <3>3
  <2> QED BY <1>1, <1>3, <2>1, <2>2, <2>3, <2>4, ApprovingKept DEF Rest, Returning
<1> QED BY <1>7, <1>8, <1>9, <1>10, <1>11 DEF Rest

\* Batches start, count, settle and report refusals as they should.
LEMMA BatchActorStep ==
  ASSUME HostInv, NEW s \in Steps, BatchStep(s)
  PROVE  Rest'
<1>1. HostType /\ Reporting /\ batches[s] \in BatchActors
  BY DEF HostInv, HostType
<1>2. batches[s].results \in SUBSET DOMAIN ToolOf
  BY <1>1 DEF BatchActors
<1>3. CASE BatchCancelled(s)
  BY <1>2, <1>3, EndStep DEF BatchCancelled, Final
<1>4. CASE BatchSettles(s)
  <2> PICK e : e = Head(batches[s].inbox)
    OBVIOUS
  <2>1. /\ batches[s].status = "running" /\ batches[s].inbox # << >>
        /\ e.call \in batches[s].pending /\ e.type = "tool_settled"
    BY <1>4 DEF BatchSettles, Counting, Pending
  <2>2. e \in Counteds /\ e = batches[s].inbox[1] /\ 1 \in DOMAIN batches[s].inbox
    BY <1>1, <2>1, BatchChanges
  <2>3. e.call \in DOMAIN ToolOf /\ e.result \in Final /\ Done(s, e.call)
    BY <1>1, <2>1, <2>2 DEF Counteds, Reporting
  <2>4. CASE batches[s].pending = {e.call} /\ BatchEnds(s, "succeeded", batches[s].results \cup {e.call})
    <3>1. batches[s].results \cup {e.call} \in SUBSET DOMAIN ToolOf /\ "succeeded" \in Final
      BY <1>2, <2>3 DEF Final
    <3> QED BY <2>1, <2>3, <2>4, <3>1, EndStep
  <2>5. CASE e.result # "succeeded" /\ BatchEnds(s, e.result, batches[s].results)
    BY <1>2, <2>1, <2>3, <2>5, EndStep
  <2> QED BY <1>4, <2>4, <2>5 DEF BatchSettles
<1> QED BY <1>3, <1>4, StartStep, CountStep, RefusalStep DEF BatchStep

-----------------------------------------------------------------------------
\* Decisions of the turn

\* The child of each phase.
LEMMA Kinds ==
  /\ \A phase : KindOf(phase) = "completion" <=> phase = "awaiting_model"
  /\ \A phase : KindOf(phase) = "permission" <=> phase = "awaiting_permission"
  /\ \A phase : KindOf(phase) = "batch" <=> phase \notin {"awaiting_model", "awaiting_permission"}
BY DEF KindOf

\* A decision that keeps what is spawned and served keeps the rest, when every
\* grant and every batch it makes is as it should be.
LEMMA MoveKept ==
  ASSUME HostInv, UNCHANGED <<mode, unreleased, closed, ran, answer, standing>>,
         Spawning', Serving',
         \A x \in Waiting' : x \in Waiting \/ x.kind = "failed",
         \A o \in Ops : o[1] = "tool" => ops'[o] = ops[o],
         \A o \in Ops : ops[o].status \in Final => ops'[o].status \in Final,
         \A s \in Steps :
           /\ grants'[s] = NoGrant \/ (GrantInv(s)' /\ Asked(s)')
           /\ grants'[s] = grants[s] \/ ~grants'[s].held \/ ops[<<"permission", s>>].status \notin Final
           /\ \/ Hears(s)
              \/ /\ batches[s].status = "none" /\ BatchInv(s)' /\ batches'[s].status = "ready"
                 /\ batches'[s].inbox = <<Event("start")>>,
         remembered' \subseteq standing
  PROVE  Rest'
<1>1. HostType /\ Rest
  BY DEF HostInv, Rest
<1>2. Settling'
  BY <1>1, SettlingKept DEF Rest, Hears
<1>3. \A s \in Steps, c \in DOMAIN ToolOf :
        /\ ops'[<<"tool", s, c>>] = ops[<<"tool", s, c>>]
        /\ Live(<<"tool", s, c>>)' = Live(<<"tool", s, c>>)
  BY OpNames DEF Live
<1>4. Reporting'
  <2>1. \A s \in Steps, c \in DOMAIN ToolOf : Done(s, c) => Done(s, c)'
    BY <1>3 DEF Done
  <2>2. Event("start").type # "tool_settled"
    BY DEF Event
  <2>3. ASSUME NEW s \in Steps
        PROVE
           /\ batches[s].status \in {"running", "settled"} => batches'[s].status \in {"running", "settled"}
           /\ \A i \in DOMAIN batches'[s].inbox : batches'[s].inbox[i].type = "tool_settled" =>
                \/ batches'[s].status = "running" /\ Done(s, batches[s].inbox[i].call)'
                \/ /\ \E j \in DOMAIN batches[s].inbox : batches[s].inbox[j] = batches'[s].inbox[i]
                   /\ batches[s].status = "running" => batches'[s].status = "running"
    <3>1. CASE Hears(s)
      BY <3>1 DEF Hears
    <3>2. CASE batches[s].status = "none" /\ batches'[s].inbox = <<Event("start")>>
      BY <2>2, <3>2
    <3> QED BY <3>1, <3>2
  <2> QED BY <1>1, <2>1, <2>3, ReportingKept DEF Rest
<1>5. CallSet' = CallSet /\ \A s, c : Ok(s, c)' = Ok(s, c)
  BY DEF CallSet, Ok
<1>6. ASSUME NEW s \in Steps PROVE GrantInv(s)' /\ Asked(s)' /\ BatchInv(s)'
  <2>1. GrantInv(s)' /\ Asked(s)'
    <3>1. ~NoGrant.held
      BY DEF NoGrant
    <3>2. CASE grants'[s] = NoGrant
      BY <3>1, <3>2 DEF GrantInv, Asked
    <3> QED BY <3>2
  <2>2. BatchInv(s)'
    <3>1. CASE Hears(s)
      BY <1>1, <1>5, <3>1 DEF Rest, Approving, BatchInv, Hears
    <3> QED BY <3>1
  <2> QED BY <2>1, <2>2
<1>7. mode.asks => \A s \in Steps, c \in DOMAIN ToolOf :
        Live(<<"tool", s, c>>)' => Ok(s, c)' \/ Unrun(s, c)'
  <2> SUFFICES ASSUME mode.asks, NEW s \in Steps, NEW c \in DOMAIN ToolOf, Live(<<"tool", s, c>>)'
               PROVE  Ok(s, c)' \/ Unrun(s, c)'
    OBVIOUS
  <2>1. Ok(s, c) \/ Unrun(s, c)
    BY <1>1, <1>3 DEF Rest, Approving
  <2>2. Unrun(s, c) => Unrun(s, c)'
    <3>1. CASE Hears(s)
      BY <1>3, <3>1 DEF Unrun, Hears
    <3>2. CASE batches[s].status = "none"
      BY <1>3, <3>2 DEF Unrun
    <3> QED BY <3>1, <3>2
  <2> QED BY <1>5, <2>1, <2>2
<1>8. \A r \in ran : batches'[r[1]].status # "none" /\ (mode.asks => Ok(r[1], r[2])')
  <2>1. \A r \in ran : r[1] \in Steps
    BY <1>1 DEF HostType
  <2>2. \A s \in Steps : batches[s].status # "none" => batches'[s].status # "none"
    BY DEF Hears
  <2> QED BY <1>1, <1>5, <2>1, <2>2 DEF Rest, Approving
<1>9. Approving'
  BY <1>6, <1>7, <1>8 DEF Approving
<1> QED BY <1>2, <1>4, <1>9 DEF Rest

\* What a decision of the turn finds: a settlement of its child means that the child
\* has settled, and only a turn that waits for the user holds a grant.
LEMMA MoveFinds ==
  ASSUME HostInv, NEW in \in Submissions, in \in Waiting
  PROVE  /\ turn.step \in 0..MaxSteps /\ (~Idle => turn.step \in Steps)
         /\ Mine(in) => /\ in.kind \in {"completion", "permission", "batch"}
                        /\ in.kind \in {"completion", "permission"} => ~Live(<<in.kind, turn.step>>)
                        /\ in.kind = "batch" => batches[turn.step].status = "settled"
                        /\ in.kind = "permission" /\ grants[turn.step].held =>
                             in.result = "succeeded" /\ grants[turn.step].approved
         /\ \A s \in Steps : grants[s] = NoGrant \/ (s = turn.step /\ turn.phase = "awaiting_permission" /\ grants[s].held)
         /\ remembered \subseteq standing
<1>1. HostType /\ Settling /\ Approving
  BY DEF HostInv
<1>2. turn.step \in 0..MaxSteps /\ (~Idle => turn.step \in Steps)
  BY <1>1 DEF HostType
<1>3. ASSUME Mine(in)
      PROVE  /\ in.kind \in {"completion", "permission", "batch"}
             /\ in.kind \in {"completion", "permission"} => ~Live(<<in.kind, turn.step>>)
             /\ in.kind = "batch" => batches[turn.step].status = "settled"
             /\ in.kind = "permission" /\ grants[turn.step].held =>
                  in.result = "succeeded" /\ grants[turn.step].approved
  <2>1. in.kind = KindOf(turn.phase) /\ in.step = turn.step
    BY <1>3 DEF Mine
  <2>2. in.kind \in {"completion", "permission", "batch"}
    BY <2>1, Kinds DEF KindOf
  <2> QED BY <1>1, <2>1, <2>2 DEF Settling, Live
<1>4. \A s \in Steps : grants[s] = NoGrant \/ (s = turn.step /\ turn.phase = "awaiting_permission" /\ grants[s].held)
  BY <1>1 DEF Approving, GrantInv
<1> QED BY <1>1, <1>2, <1>3, <1>4 DEF Approving

\* The turn ends with its child, or never began.
LEMMA RestsStep ==
  ASSUME HostInv, NEW in \in Submissions, in \in Waiting, Rests(in),
         UNCHANGED <<mode, unreleased, closed, ran, answer, standing>>,
         \A x \in Waiting' : x \in Waiting \/ x.kind = "failed"
  PROVE  Rest'
<1>1. /\ UNCHANGED <<ops, batches, grants, remembered>> /\ turn'.phase = "idle" /\ turn'.step = turn.step
      /\ Idle \/ (Mine(in) /\ (in.kind = "permission" => in.result # "succeeded"))
      /\ Spawning /\ Serving
  BY DEF Rests, Ends, HostInv
<1>2. Spawning'
  BY <1>1 DEF Spawning
<1>3. Serving'
  <2>1. ASSUME NEW s \in Steps
        PROVE  /\ batches[s].status \in {"ready", "running"} => Holds(batches[s], "cancel")
               /\ Live(<<"completion", s>>) => ToldToStop(ops[<<"completion", s>>])
               /\ Live(<<"permission", s>>) => ToldToStop(ops[<<"permission", s>>])
    <3>1. CASE Idle
      BY <1>1, <3>1 DEF Serving, Idle
    <3>2. CASE Mine(in)
      <4>1. /\ ~Idle /\ in.kind = KindOf(turn.phase)
            /\ in.kind \in {"completion", "permission"} => ~Live(<<in.kind, turn.step>>)
            /\ in.kind = "batch" => batches[turn.step].status = "settled"
        BY <3>2, MoveFinds DEF Mine
      <4> QED BY <1>1, <4>1, Kinds DEF Serving
    <3> QED BY <1>1, <3>1, <3>2
  <2>2. \A o : Live(o)' = Live(o)
    BY <1>1 DEF Live
  <2> QED BY <1>1, <2>1, <2>2 DEF Serving
<1>4. \A s \in Steps : grants[s] = NoGrant
  <2>1. CASE Idle
    BY <2>1, MoveFinds DEF Idle
  <2>2. CASE Mine(in) /\ (in.kind = "permission" => in.result # "succeeded")
    BY <2>2, MoveFinds, Kinds DEF Mine
  <2> QED BY <1>1, <2>1, <2>2
<1>5. \A s \in Steps : Hears(s)
  BY <1>1, SilentHears
<1> QED BY <1>1, <1>2, <1>3, <1>4, <1>5, MoveFinds, MoveKept

\* The turn ends before its operation, which is told to stop.
LEMMA GivesUpStep ==
  ASSUME HostInv, NEW in \in Submissions, in \in Waiting,
         NEW kind \in {"completion", "permission"}, GivesUp(kind),
         UNCHANGED <<mode, unreleased, closed, ran, answer, standing>>,
         \A x \in Waiting' : x \in Waiting \/ x.kind = "failed"
  PROVE  Rest'
<1> PICK o : o = <<kind, turn.step>>
  OBVIOUS
<1>1. /\ UNCHANGED <<batches, remembered>> /\ turn'.phase = "idle" /\ turn'.step = turn.step
      /\ ~Idle /\ KindOf(turn.phase) = kind
      /\ ops' = [ops EXCEPT ![o] = Sent(@, Event("cancel"))]
      /\ grants' = IF kind = "permission" THEN [grants EXCEPT ![turn.step] = NoGrant] ELSE grants
      /\ Spawning /\ Serving /\ HostType /\ ops \in [Ops -> OpActors]
  BY DEF GivesUp, Ends, HostInv, Stopped, HostType, Idle
<1>2. o \in Ops /\ o[1] # "tool" /\ turn.step \in Steps /\ "cancel" \in Failing
  BY <1>1, MoveFinds, OpNames DEF Failing
<1>3. /\ \A p \in Ops : Goes(ops[p], ops'[p]) /\ (p # o => ops'[p] = ops[p])
      /\ Live(o) => ToldToStop(ops'[o])
  <2>1. ops'[o] = Sent(ops[o], Event("cancel")) /\ \A p \in Ops : p # o => ops'[p] = ops[p]
    BY <1>1, <1>2
  <2>2. Goes(ops[o], ops'[o]) /\ (Live(o) => ToldToStop(ops'[o]))
    BY <1>1, <1>2, <2>1, SentStops DEF Live
  <2> QED BY <2>1, <2>2 DEF Goes
<1>4. \A p \in Ops : Live(p)' = Live(p)
  BY <1>3 DEF Goes, Live
<1>5. Spawning'
  BY <1>1, <1>3 DEF Spawning, Goes
<1>6. Serving'
  <2>1. ASSUME NEW s \in Steps
        PROVE  /\ batches[s].status \in {"ready", "running"} => Holds(batches[s], "cancel")
               /\ Live(<<"completion", s>>)' => ToldToStop(ops'[<<"completion", s>>])
               /\ Live(<<"permission", s>>)' => ToldToStop(ops'[<<"permission", s>>])
               /\ \A c \in DOMAIN ToolOf : Live(<<"tool", s, c>>)' =>
                    \/ batches'[s].status = "running" /\ c \in batches'[s].pending
                    \/ ToldToStop(ops'[<<"tool", s, c>>])
    <3>1. batches[s].status \in {"ready", "running"} => Holds(batches[s], "cancel")
      BY <1>1, Kinds DEF Serving
    <3>2. ASSUME NEW k \in {"completion", "permission"}, Live(<<k, s>>)'
          PROVE  ToldToStop(ops'[<<k, s>>])
      <4>1. <<k, s>> \in Ops
        BY OpNames
      <4>2. CASE k = kind /\ s = turn.step
        BY <1>3, <1>4, <3>2, <4>1, <4>2
      <4>3. CASE ~(k = kind /\ s = turn.step)
        BY <1>1, <1>3, <1>4, <3>2, <4>1, <4>3, Kinds DEF Serving, Goes
      <4> QED BY <4>2, <4>3
    <3>3. ASSUME NEW c \in DOMAIN ToolOf, Live(<<"tool", s, c>>)'
          PROVE  \/ batches'[s].status = "running" /\ c \in batches'[s].pending
                 \/ ToldToStop(ops'[<<"tool", s, c>>])
      <4>1. <<"tool", s, c>> \in Ops
        BY OpNames
      <4> QED BY <1>1, <1>3, <1>4, <3>3, <4>1 DEF Serving, Goes
    <3> QED BY <3>1, <3>2, <3>3
  <2> QED BY <1>1, <2>1 DEF Serving
<1>7. \A s \in Steps : grants'[s] = NoGrant
  <2>1. grants \in [Steps -> Requested]
    BY <1>1 DEF HostType
  <2>2. CASE kind = "permission"
    BY <1>1, <1>2, <2>1, <2>2, MoveFinds
  <2>3. CASE kind # "permission"
    BY <1>1, <2>3, MoveFinds, Kinds
  <2> QED BY <2>2, <2>3
<1>8. ~NoGrant.held
  BY DEF NoGrant
<1>9. \A s \in Steps : Hears(s)
  BY <1>1, SilentHears
<1>10. \A p \in Ops : /\ p[1] = "tool" => ops'[p] = ops[p]
                      /\ ops[p].status \in Final => ops'[p].status \in Final
  BY <1>2, <1>3 DEF Goes
<1> QED BY <1>1, <1>5, <1>6, <1>7, <1>8, <1>9, <1>10, MoveFinds, MoveKept

\* The next step calls the model.
LEMMA MovesOnStep ==
  ASSUME HostInv, NEW in \in Submissions, in \in Waiting, MovesOn(in), ~closed,
         UNCHANGED <<mode, unreleased, closed, ran, answer, standing>>,
         \A x \in Waiting' : x \in Waiting \/ x.kind = "failed"
  PROVE  Rest'
<1>a. PICK n : n = turn.step + 1
  OBVIOUS
<1>b. PICK o : o = <<"completion", n>>
  OBVIOUS
<1>c. PICK old : old = <<"completion", turn.step>>
  OBVIOUS
<1>1. /\ UNCHANGED <<batches, grants, remembered>>
      /\ n \in Steps /\ turn'.phase = "awaiting_model" /\ turn'.step = n
      /\ \/ /\ turn.phase = "awaiting_model"
            /\ ops' = [[ops EXCEPT ![old] = Sent(@, Event("cancel"))] EXCEPT ![o] = Spawned(o)]
         \/ /\ Idle \/ (Mine(in) /\ in.kind = "batch")
            /\ ops' = [ops EXCEPT ![o] = Spawned(o)]
      /\ Spawning /\ Serving /\ HostType /\ ops \in [Ops -> OpActors]
  BY <1>a, <1>b, <1>c DEF MovesOn, HostInv, Stopped, HostType, Following
<1>2. /\ o \in Ops /\ o = <<"completion", n>> /\ "cancel" \in Failing
      /\ turn.step \in Nat /\ n = turn.step + 1 /\ Steps \subseteq Nat
  <2>1. turn.step \in 0..MaxSteps /\ MaxSteps \in Nat
    BY MoveFinds, HostAssumption
  <2>2. turn.step \in Nat /\ Steps \subseteq Nat
    BY <2>1 DEF Steps
  <2>3. o \in Ops
    BY <1>1, <1>b, OpNames
  <2> QED BY <1>a, <1>b, <2>2, <2>3 DEF Failing
<1>3. ops[o].status = "none" /\ ~Live(o)
  <2>1. o[2] = n /\ ~(n <= turn.step)
    BY <1>2
  <2> QED BY <1>1, <1>2, <2>1 DEF Spawning, Live
<1>4. Spawned(o).status = "ready"
  BY <1>1, SpawnedOp
<1>5. /\ turn.phase = "awaiting_model" => old \in Ops
      /\ old # o
  <2>1. old # o
    BY <1>2, <1>c
  <2>2. turn.phase = "awaiting_model" => turn.step \in Steps
    BY MoveFinds DEF Idle
  <2> QED BY <1>c, <2>1, <2>2, OpNames
<1>6. ASSUME NEW p \in Ops, p # o
      PROVE  /\ Goes(ops[p], ops'[p]) /\ (p # old => ops'[p] = ops[p])
             /\ p = old /\ turn.phase = "awaiting_model" /\ Live(p) => ToldToStop(ops'[p])
  <2>1. CASE turn.phase = "awaiting_model"
    <3>1. ops'[p] = IF p = old THEN Sent(ops[p], Event("cancel")) ELSE ops[p]
      BY <1>1, <1>2, <1>5, <1>6, <2>1 DEF Idle, Mine, KindOf
    <3> QED BY <1>1, <1>2, <1>6, <3>1, SentStops DEF Live, Goes
  <2>2. CASE turn.phase # "awaiting_model"
    <3>1. ops'[p] = ops[p]
      BY <1>1, <1>2, <1>6, <2>2
    <3> QED BY <2>2, <3>1 DEF Goes
  <2> QED BY <2>1, <2>2
<1>7. ops'[o].status = "ready"
  BY <1>1, <1>2, <1>4, <1>5
<1>8. \A p \in Ops : p # o => Live(p)' = Live(p)
  BY <1>6 DEF Goes, Live
<1>9. Spawning'
  <2>1. ASSUME NEW p \in Ops, ops'[p].status # "none"
        PROVE  /\ p[2] <= n
               /\ p[1] = "permission" => p[2] # n
               /\ p[1] = "tool" => batches[p[2]].status \in {"running", "settled"}
    <3>1. CASE p = o
      BY <1>2, <3>1
    <3>2. CASE p # o
      <4>1. ops[p].status # "none"
        BY <1>6, <2>1, <3>2 DEF Goes
      <4>2. p[2] <= turn.step /\ p[2] \in Steps
        BY <1>1, <4>1, OpNames DEF Spawning
      <4>3. p[2] <= n /\ p[2] # n
        <5> PICK m : m = p[2]
          OBVIOUS
        <5>1. m \in Nat /\ m <= turn.step /\ turn.step \in Nat /\ n = turn.step + 1
          BY <1>2, <4>2
        <5>2. m <= n /\ m # n
          BY <5>1
        <5> QED BY <5>2
      <4> QED BY <1>1, <4>1, <4>3 DEF Spawning
    <3> QED BY <3>1, <3>2
  <2>2. ASSUME NEW s \in Steps, batches[s].status # "none" PROVE s <= n /\ s # n
    <3>1. s <= turn.step
      BY <1>1, <2>2 DEF Spawning
    <3> QED BY <1>2, <3>1
  <2> QED BY <1>1, <2>1, <2>2 DEF Spawning
<1>10. Serving'
  <2>1. ASSUME NEW s \in Steps
        PROVE  /\ batches[s].status \in {"ready", "running"} => Holds(batches[s], "cancel")
               /\ Live(<<"completion", s>>)' => s = n \/ ToldToStop(ops'[<<"completion", s>>])
               /\ Live(<<"permission", s>>)' => ToldToStop(ops'[<<"permission", s>>])
               /\ \A c \in DOMAIN ToolOf : Live(<<"tool", s, c>>)' =>
                    \/ batches[s].status = "running" /\ c \in batches[s].pending
                    \/ ToldToStop(ops'[<<"tool", s, c>>])
    <3>1. batches[s].status \in {"ready", "running"} => Holds(batches[s], "cancel")
      <4>1. CASE turn.phase = "awaiting_model"
        BY <1>1, <4>1, Kinds DEF Serving
      <4>2. CASE Idle
        BY <1>1, <4>2 DEF Serving
      <4>3. CASE Mine(in) /\ in.kind = "batch"
        BY <1>1, <4>3, MoveFinds DEF Serving
      <4> QED BY <1>1, <4>1, <4>2, <4>3
    <3>2. ASSUME Live(<<"completion", s>>)', s # n
          PROVE  ToldToStop(ops'[<<"completion", s>>])
      <4>1. <<"completion", s>> \in Ops /\ <<"completion", s>> # o
        BY <1>b, <3>2, OpNames
      <4>2. CASE turn.phase = "awaiting_model" /\ s = turn.step
        BY <1>6, <1>8, <1>c, <3>2, <4>1, <4>2
      <4>3. CASE ~(turn.phase = "awaiting_model" /\ s = turn.step)
        BY <1>1, <1>6, <1>8, <3>2, <4>1, <4>3 DEF Serving, Goes
      <4> QED BY <4>2, <4>3
    <3>3. ASSUME Live(<<"permission", s>>)'
          PROVE  ToldToStop(ops'[<<"permission", s>>])
      <4>1. <<"permission", s>> \in Ops /\ <<"permission", s>> # o
        BY <1>b, OpNames
      <4>2. turn.phase # "awaiting_permission"
        BY <1>1, Kinds DEF Idle, Mine
      <4> QED BY <1>1, <1>6, <1>8, <3>3, <4>1, <4>2 DEF Serving, Goes
    <3>4. ASSUME NEW c \in DOMAIN ToolOf, Live(<<"tool", s, c>>)'
          PROVE  \/ batches[s].status = "running" /\ c \in batches[s].pending
                 \/ ToldToStop(ops'[<<"tool", s, c>>])
      <4>1. <<"tool", s, c>> \in Ops /\ <<"tool", s, c>> # o
        BY <1>b, OpNames
      <4> QED BY <1>1, <1>6, <1>8, <3>4, <4>1 DEF Serving, Goes
    <3> QED BY <3>1, <3>2, <3>3, <3>4
  <2> QED BY <1>1, <2>1 DEF Serving
<1>11. \A s \in Steps : grants'[s] = NoGrant /\ grants'[s] = grants[s]
  <2>1. turn.phase # "awaiting_permission"
    BY <1>1, Kinds DEF Idle, Mine
  <2> QED BY <1>1, <2>1, MoveFinds
<1>12. \A s \in Steps : Hears(s)
  BY <1>1, SilentHears
<1>13. \A p \in Ops : /\ p[1] = "tool" => ops'[p] = ops[p]
                      /\ ops[p].status \in Final => ops'[p].status \in Final
  <2>1. o[1] # "tool" /\ old[1] # "tool" /\ ops[o].status \notin Final
    BY <1>b, <1>c, <1>3 DEF Final
  <2> QED BY <1>6, <2>1 DEF Goes
<1> QED BY <1>1, <1>9, <1>10, <1>11, <1>12, <1>13, MoveFinds, MoveKept

\* The user is asked about the calls of a step.
LEMMA AsksStep ==
  ASSUME HostInv, NEW in \in Submissions, in \in Waiting, AsksUser(in), ~closed,
         UNCHANGED <<mode, unreleased, closed, ran, answer, standing>>,
         \A x \in Waiting' : x \in Waiting \/ x.kind = "failed"
  PROVE  Rest'
<1> PICK n : n = turn.step
  OBVIOUS
<1> PICK o : o = <<"permission", n>>
  OBVIOUS
<1>0. PICK g : g = [NoGrant EXCEPT !.held = TRUE]
  OBVIOUS
<1>1. /\ UNCHANGED <<batches, remembered>> /\ Mine(in) /\ in.kind = "completion" /\ mode.asks
      /\ turn' = [turn EXCEPT !.phase = "awaiting_permission"]
      /\ ops' = [ops EXCEPT ![o] = Spawned(o)]
      /\ grants' = [grants EXCEPT ![n] = g]
      /\ Spawning /\ Serving /\ HostType /\ ops \in [Ops -> OpActors] /\ grants \in [Steps -> Requested]
  BY <1>0 DEF AsksUser, HostInv, HostType, Asking
<1>2. /\ turn.phase = "awaiting_model" /\ n \in Steps /\ o \in Ops /\ ~Live(<<"completion", n>>)
      /\ turn'.phase = "awaiting_permission" /\ turn'.step = n
  <2>1. turn.phase = "awaiting_model"
    BY <1>1, Kinds DEF Mine
  <2>2. n \in Steps /\ ~Live(<<"completion", n>>)
    BY <1>1, <2>1, MoveFinds DEF Idle
  <2>3. turn'.phase = "awaiting_permission" /\ turn'.step = n
    BY <1>1 DEF HostType
  <2> QED BY <2>1, <2>2, <2>3, OpNames
<1>3. ops[o].status = "none" /\ ~Live(o) /\ batches[n].status = "none"
  BY <1>1, <1>2 DEF Spawning, Live
<1>4. /\ ops'[o] = Spawned(o) /\ \A p \in Ops : p # o => ops'[p] = ops[p]
      /\ Spawned(o).status = "ready" /\ Spawned(o).inbox = <<Event("start")>>
  BY <1>1, <1>2, SpawnedOp
<1>5. \A p \in Ops : p # o => Live(p)' = Live(p)
  BY <1>4 DEF Live
<1>6. Spawning'
  <2>1. ASSUME NEW p \in Ops, ops'[p].status # "none"
        PROVE  p[2] <= n /\ (p[1] = "tool" => batches[p[2]].status \in {"running", "settled"})
    <3>1. CASE p = o
      <4>1. n <= n
        BY <1>2, HostAssumption DEF Steps
      <4> QED BY <3>1, <4>1
    <3>2. CASE p # o
      BY <1>1, <1>4, <2>1, <3>2 DEF Spawning
    <3> QED BY <3>1, <3>2
  <2>2. \A s \in Steps : batches[s].status # "none" => s <= n /\ s # n
    BY <1>1, <1>3 DEF Spawning
  <2> QED BY <1>1, <1>2, <2>1, <2>2 DEF Spawning
<1>7. Serving'
  <2>1. ASSUME NEW s \in Steps
        PROVE  /\ batches[s].status \in {"ready", "running"} => Holds(batches[s], "cancel")
               /\ Live(<<"completion", s>>)' => ToldToStop(ops'[<<"completion", s>>])
               /\ Live(<<"permission", s>>)' => s = n \/ ToldToStop(ops'[<<"permission", s>>])
               /\ \A c \in DOMAIN ToolOf : Live(<<"tool", s, c>>)' =>
                    \/ batches[s].status = "running" /\ c \in batches[s].pending
                    \/ ToldToStop(ops'[<<"tool", s, c>>])
    <3>1. batches[s].status \in {"ready", "running"} => Holds(batches[s], "cancel")
      BY <1>1, <1>2, Kinds DEF Serving
    <3>2. Live(<<"completion", s>>)' => ToldToStop(ops'[<<"completion", s>>])
      <4>1. <<"completion", s>> \in Ops /\ <<"completion", s>> # o
        BY OpNames
      <4> QED BY <1>1, <1>2, <1>4, <1>5, <4>1 DEF Serving
    <3>3. ASSUME Live(<<"permission", s>>)', s # n
          PROVE  ToldToStop(ops'[<<"permission", s>>])
      <4>1. <<"permission", s>> \in Ops /\ <<"permission", s>> # o
        BY <3>3, OpNames
      <4> QED BY <1>1, <1>2, <1>4, <1>5, <3>3, <4>1 DEF Serving
    <3>4. ASSUME NEW c \in DOMAIN ToolOf, Live(<<"tool", s, c>>)'
          PROVE  \/ batches[s].status = "running" /\ c \in batches[s].pending
                 \/ ToldToStop(ops'[<<"tool", s, c>>])
      <4>1. <<"tool", s, c>> \in Ops /\ <<"tool", s, c>> # o
        BY OpNames
      <4> QED BY <1>1, <1>4, <1>5, <3>4, <4>1 DEF Serving
    <3> QED BY <3>1, <3>2, <3>3, <3>4
  <2> QED BY <1>1, <1>2, <2>1 DEF Serving
<1>8. grants'[n] = g /\ \A s \in Steps : s # n => grants'[s] = grants[s] /\ grants'[s] = NoGrant
  BY <1>1, <1>2, MoveFinds
<1>9. /\ g.held /\ ~g.approved /\ g.next = 1 /\ ~g.asking /\ g.inputs = {} /\ g.invalid = {}
      /\ g.refused = {} /\ g.remembered = {}
  BY <1>0 DEF NoGrant
<1>10. GrantInv(n)' /\ Asked(n)'
  <2>1. mode.calls \in Nat
    BY <1>1, ModeType
  <2>2. 1 \in 1..(mode.calls + 1) /\ \A i : i \notin 1..(1 - 1)
    BY <2>1
  <2>3. ~Holds(ops'[o], "returned") /\ ops'[o].status # "validating_output"
    BY <1>4 DEF Holds, Event
  <2>4. Asked(n)'
    BY <2>3 DEF Asked
  <2>5. GrantInv(n)'
    BY <1>1, <1>2, <1>8, <1>9, <2>2 DEF GrantInv
  <2> QED BY <2>4, <2>5
<1>11. \A s \in Steps : Hears(s)
  BY <1>1, SilentHears
<1>12. \A p \in Ops : /\ p[1] = "tool" => ops'[p] = ops[p]
                      /\ ops[p].status \in Final => ops'[p].status \in Final
  <2>1. o[1] # "tool" /\ ops[o].status \notin Final
    BY <1>3 DEF Final
  <2> QED BY <1>4, <2>1
<1>13. \A s \in Steps : grants'[s] = grants[s] \/ ~grants'[s].held \/ ops[<<"permission", s>>].status \notin Final
  BY <1>3, <1>8 DEF Final
<1> QED BY <1>1, <1>6, <1>7, <1>8, <1>10, <1>11, <1>12, <1>13, MoveFinds, MoveKept

\* A success without a grant runs nothing: the grant had gone.
LEMMA RefusesStep ==
  ASSUME HostInv, NEW in \in Submissions, in \in Waiting, Refuses(in), ~closed,
         UNCHANGED <<mode, unreleased, closed, ran, answer, standing>>,
         \A x \in Waiting' : x \in Waiting \/ x.kind = "failed"
  PROVE  Rest'
<1> PICK n : n = turn.step
  OBVIOUS
<1>1. /\ UNCHANGED <<ops, batches, grants, remembered>> /\ Mine(in) /\ in.kind = "permission"
      /\ turn' = [turn EXCEPT !.phase = "executing_tools"] /\ ~Complete(grants[n])
      /\ Spawning /\ Serving /\ HostType /\ Approving
  BY DEF Refuses, HostInv
<1>2. /\ turn.phase = "awaiting_permission" /\ n \in Steps /\ ~Live(<<"permission", n>>)
      /\ turn'.phase = "executing_tools" /\ turn'.step = n
  <2>1. turn.phase = "awaiting_permission"
    BY <1>1, Kinds DEF Mine
  <2>2. n \in Steps /\ ~Live(<<"permission", n>>)
    BY <1>1, <2>1, MoveFinds DEF Idle
  <2>3. turn'.phase = "executing_tools" /\ turn'.step = n
    BY <1>1 DEF HostType
  <2> QED BY <2>1, <2>2, <2>3
<1>3. ~grants[n].held
  <2> SUFFICES ASSUME grants[n].held PROVE FALSE
    OBVIOUS
  <2>1. grants[n].approved
    BY <1>1, MoveFinds
  <2>2. GrantInv(n)
    BY <1>1, <1>2 DEF Approving
  <2> PICK g : g = grants[n]
    OBVIOUS
  <2>3. /\ g.next > mode.calls /\ g.inputs \cup g.invalid \cup g.refused \subseteq CallSet
        /\ \A i \in 1..(g.next - 1) : Calls[i] \in g.inputs \cup g.invalid \cup g.refused
        /\ g.next \in Nat /\ mode.calls \in Nat
    <3>1. mode.calls \in Nat
      BY <1>1, ModeType
    <3> QED BY <2>1, <2>2, <3>1 DEF GrantInv
  <2>4. \A i \in 1..mode.calls : i \in 1..(g.next - 1)
    BY <2>3
  <2>5. CallSet = g.inputs \cup g.invalid \cup g.refused
    BY <2>3, <2>4 DEF CallSet
  <2> QED BY <1>1, <2>1, <2>5 DEF Complete
<1>4. Spawning'
  BY <1>1, <1>2 DEF Spawning
<1>5. Serving'
  <2>1. \A s \in Steps :
           /\ batches[s].status \in {"ready", "running"} => Holds(batches[s], "cancel")
           /\ Live(<<"completion", s>>) => ToldToStop(ops[<<"completion", s>>])
           /\ Live(<<"permission", s>>) => ToldToStop(ops[<<"permission", s>>])
    BY <1>1, <1>2, Kinds DEF Serving
  <2>2. \A p : Live(p)' = Live(p)
    BY <1>1 DEF Live
  <2> QED BY <1>1, <2>1, <2>2 DEF Serving
<1>6. \A s \in Steps : grants'[s] = NoGrant
  BY <1>1, <1>3, MoveFinds
<1>7. \A s \in Steps : Hears(s)
  BY <1>1, SilentHears
<1> QED BY <1>1, <1>4, <1>5, <1>6, <1>7, MoveFinds, MoveKept

\* A batch starts with what its grant allows.
LEMMA RunsStep ==
  ASSUME HostInv, NEW in \in Submissions, in \in Waiting, RunsBatch(in), ~closed,
         UNCHANGED <<mode, unreleased, closed, ran, answer, standing>>,
         \A x \in Waiting' : x \in Waiting \/ x.kind = "failed"
  PROVE  Rest'
<1> PICK n : n = turn.step
  OBVIOUS
<1> PICK g : g = grants[n]
  OBVIOUS
<1>0. PICK b : b = BatchOf(g)
  OBVIOUS
<1>1. /\ Mine(in)
      /\ \/ in.kind = "completion" /\ ~mode.asks
         \/ in.kind = "permission" /\ Complete(g)
      /\ turn' = [turn EXCEPT !.phase = "executing_tools"]
      /\ batches' = [batches EXCEPT ![n] = b] /\ remembered' = remembered \cup g.remembered
      /\ grants' = [grants EXCEPT ![n] = NoGrant] /\ ops' = ops
      /\ HostType /\ Spawning /\ Serving /\ Approving
      /\ grants \in [Steps -> Requested] /\ batches \in [Steps -> BatchActors]
  BY <1>0 DEF RunsBatch, HostInv, HostType
<1>2. /\ turn.phase \in {"awaiting_model", "awaiting_permission"} /\ n \in Steps
      /\ in.kind = KindOf(turn.phase) /\ ~Live(<<in.kind, n>>)
      /\ turn'.phase = "executing_tools" /\ turn'.step = n
  <2>1. turn.phase \in {"awaiting_model", "awaiting_permission"} /\ in.kind = KindOf(turn.phase)
    BY <1>1, Kinds DEF Mine
  <2>2. n \in Steps /\ ~Live(<<in.kind, n>>)
    BY <1>1, <2>1, MoveFinds DEF Idle
  <2>3. turn'.phase = "executing_tools" /\ turn'.step = n
    BY <1>1 DEF HostType
  <2> QED BY <2>1, <2>2, <2>3
<1>3. /\ b.status = "ready" /\ b.inbox = <<Event("start")>> /\ b.pending = CallSet
      /\ b.results = {} /\ b.granted = mode.asks /\ b.refused = g.refused /\ b.invalid = g.invalid
  BY <1>0 DEF BatchOf, NoBatch
<1>4. /\ batches[n].status = "none" /\ batches'[n] = b
      /\ \A s \in Steps : s # n => batches'[s] = batches[s]
      /\ \A c \in DOMAIN ToolOf : ops[<<"tool", n, c>>].status = "none"
  <2>1. batches[n].status = "none"
    BY <1>1, <1>2 DEF Spawning
  <2>2. \A c \in DOMAIN ToolOf : ops[<<"tool", n, c>>].status # "none" => batches[n].status \in {"running", "settled"}
    BY <1>1, <1>2, OpNames DEF Spawning
  <2> QED BY <1>1, <1>2, <2>1, <2>2
<1>5. \A p : Live(p)' = Live(p)
  BY <1>1 DEF Live
<1>6. n <= n
  BY <1>2, HostAssumption DEF Steps
<1>7. Spawning'
  <2>1. \A p \in Ops : ops[p].status # "none" =>
          p[2] <= n /\ (p[1] = "tool" => p[2] # n /\ batches[p[2]].status \in {"running", "settled"})
    BY <1>1, <1>4 DEF Spawning
  <2>2. \A s \in Steps : batches'[s].status # "none" => s <= n
    BY <1>1, <1>4, <1>6 DEF Spawning
  <2>3. \A p \in Ops : p[2] \in Steps
    BY OpNames
  <2> QED BY <1>1, <1>2, <1>4, <2>1, <2>2, <2>3 DEF Spawning
<1>8. Serving'
  <2>1. \A s \in Steps :
           /\ batches[s].status \in {"ready", "running"} => Holds(batches[s], "cancel")
           /\ Live(<<"completion", s>>) => ToldToStop(ops[<<"completion", s>>])
           /\ Live(<<"permission", s>>) => ToldToStop(ops[<<"permission", s>>])
    BY <1>1, <1>2, Kinds DEF Serving
  <2>2. \A s \in Steps : batches'[s].status \in {"ready", "running"} =>
           \/ ~closed' /\ s = turn'.step /\ KindOf(turn.phase)' = "batch" /\ ~Idle'
           \/ Holds(batches'[s], "cancel")
    BY <1>2, <1>4, <2>1, Kinds DEF Idle
  <2>3. ASSUME NEW s \in Steps, NEW c \in DOMAIN ToolOf, Live(<<"tool", s, c>>)'
        PROVE  \/ batches'[s].status = "running" /\ c \in batches'[s].pending
               \/ ToldToStop(ops'[<<"tool", s, c>>])
    <3>1. s # n
      BY <1>4, <1>5, <2>3 DEF Live
    <3> QED BY <1>1, <1>4, <1>5, <2>3, <3>1 DEF Serving
  <2>4. \A s \in Steps : batches'[s].results \cap batches'[s].pending = {}
    BY <1>1, <1>3, <1>4 DEF Serving
  <2> QED BY <1>1, <1>5, <2>1, <2>2, <2>3, <2>4 DEF Serving
<1>9. \A s \in Steps : grants'[s] = NoGrant
  BY <1>1, <1>2, MoveFinds
<1>10. ~NoGrant.held /\ ~NoGrant.approved /\ NoGrant.remembered = {}
  BY DEF NoGrant
<1>11. BatchInv(n)'
  <2>1. CASE ~mode.asks
    BY <1>3, <1>4, <2>1 DEF BatchInv, CallSet
  <2>2. CASE mode.asks /\ in.kind = "permission" /\ Complete(g)
    <3>1. g.held
      BY <1>2, <1>10, <2>2, MoveFinds DEF Complete
    <3>2. GrantInv(n) /\ g.approved
      BY <1>1, <1>2, <2>2 DEF Approving, Complete
    <3>3. g.next > mode.calls /\ g.next \in Nat /\ mode.calls \in Nat
          /\ \A i \in 1..(g.next - 1) : Ok(n, Calls[i]) \/ Calls[i] \in g.invalid \cup g.refused
      <4>1. mode.calls \in Nat
        BY <1>1, ModeType
      <4> QED BY <3>1, <3>2, <4>1 DEF GrantInv
    <3>4. \A i \in 1..mode.calls : i \in 1..(g.next - 1)
      BY <3>3
    <3>5. \A c \in CallSet : Ok(n, c) \/ c \in g.refused \cup g.invalid
      BY <3>3, <3>4 DEF CallSet
    <3>6. CallSet' = CallSet /\ \A c : Ok(n, c)' = Ok(n, c)
      BY DEF CallSet, Ok
    <3> QED BY <1>3, <1>4, <2>2, <3>5, <3>6 DEF BatchInv
  <2> QED BY <1>1, <2>1, <2>2
<1>12. remembered' \subseteq standing'
  <2>1. g = NoGrant \/ (g.held /\ GrantInv(n))
    BY <1>1, <1>2, MoveFinds DEF Approving
  <2>2. g.remembered \subseteq standing
    BY <1>10, <2>1 DEF GrantInv
  <2> QED BY <1>1, <2>2, MoveFinds
<1>13. \A s \in Steps : s # n => Hears(s)
  BY <1>4, SilentHears
<1> QED BY <1>1, <1>3, <1>4, <1>7, <1>8, <1>9, <1>10, <1>11, <1>12, <1>13, MoveKept

\* A batch that hears that it is to stop.
LEMMA StopHears ==
  ASSUME HostType, NEW s \in Steps, batches'[s] = Sent(batches[s], Event("cancel"))
  PROVE  Hears(s) /\ (batches[s].status \in {"ready", "running"} => Holds(batches'[s], "cancel"))
<1>1. PICK e : e = Event("cancel")
  OBVIOUS
<1>2. /\ batches'[s] = Sent(batches[s], e) /\ batches[s] \in BatchActors
      /\ e \in [type : {"start", "cancel"}] \cup Counteds /\ e.type = "cancel"
  BY <1>1, ActorTypes DEF Event
<1>3. /\ Holds(batches[s], "cancel") => Holds(batches'[s], "cancel")
      /\ batches[s].status \in {"ready", "running"} => Holds(batches'[s], "cancel")
      /\ \A i \in DOMAIN batches'[s].inbox :
            \/ \E j \in DOMAIN batches[s].inbox : batches[s].inbox[j] = batches'[s].inbox[i]
            \/ batches'[s].inbox[i] = e
  BY <1>2, SentToBatch
<1>4. /\ batches'[s].status = batches[s].status /\ batches'[s].pending = batches[s].pending
      /\ batches'[s].granted = batches[s].granted /\ batches'[s].refused = batches[s].refused
      /\ batches'[s].invalid = batches[s].invalid /\ batches'[s].results = batches[s].results
  BY <1>2, SentBatch
<1> QED BY <1>2, <1>3, <1>4 DEF Hears

\* The turn gives up its batch.
LEMMA StopsStep ==
  ASSUME HostInv, NEW in \in Submissions, in \in Waiting, StopsBatch,
         UNCHANGED <<mode, unreleased, closed, ran, answer, standing>>,
         \A x \in Waiting' : x \in Waiting \/ x.kind = "failed"
  PROVE  Rest'
<1> PICK n : n = turn.step
  OBVIOUS
<1>1. /\ ~Idle /\ KindOf(turn.phase) = "batch"
      /\ turn'.phase \in {"idle", "cancelling_tools"} /\ turn'.step = n
      /\ batches' = [batches EXCEPT ![n] = Sent(@, Event("cancel"))]
      /\ UNCHANGED <<ops, grants, remembered>>
      /\ HostType /\ Spawning /\ Serving /\ batches \in [Steps -> BatchActors]
  BY DEF StopsBatch, Ends, HostInv, HostType
<1>2. n \in Steps
  BY <1>1, MoveFinds
<1>3. /\ batches'[n] = Sent(batches[n], Event("cancel"))
      /\ \A s \in Steps : s # n => batches'[s] = batches[s]
  BY <1>1, <1>2
<1>4. \A s \in Steps : /\ Hears(s)
                       /\ s = n /\ batches[s].status \in {"ready", "running"} => Holds(batches'[s], "cancel")
  BY <1>1, <1>3, StopHears, SilentHears
<1>5. \A p : Live(p)' = Live(p)
  BY <1>1 DEF Live
<1>6. Spawning'
  <2>1. \A p \in Ops : p[2] \in Steps
    BY OpNames
  <2> QED BY <1>1, <1>4, <2>1 DEF Spawning, Hears
<1>7. Serving'
  <2>1. \A s \in Steps :
           /\ batches'[s].status \in {"ready", "running"} => Holds(batches'[s], "cancel")
           /\ Live(<<"completion", s>>) => ToldToStop(ops[<<"completion", s>>])
           /\ Live(<<"permission", s>>) => ToldToStop(ops[<<"permission", s>>])
           /\ batches'[s].results \cap batches'[s].pending = {}
    <3>1. /\ turn.phase # "awaiting_model" /\ turn.phase # "awaiting_permission"
          /\ n = turn.step
      BY <1>1, Kinds
    <3>2. ASSUME NEW s \in Steps
          PROVE  /\ Live(<<"completion", s>>) => ToldToStop(ops[<<"completion", s>>])
                 /\ Live(<<"permission", s>>) => ToldToStop(ops[<<"permission", s>>])
      BY <1>1, <3>1 DEF Serving
    <3>3. ASSUME NEW s \in Steps, batches'[s].status \in {"ready", "running"}
          PROVE  Holds(batches'[s], "cancel")
      BY <1>1, <1>4, <3>1, <3>3 DEF Serving, Hears
    <3>4. \A s \in Steps : batches'[s].results \cap batches'[s].pending = {}
      BY <1>1, <1>4 DEF Serving, Hears
    <3> QED BY <3>2, <3>3, <3>4
  <2>2. \A s \in Steps, c \in DOMAIN ToolOf : Live(<<"tool", s, c>>) =>
                 \/ batches'[s].status = "running" /\ c \in batches'[s].pending
                 \/ ToldToStop(ops[<<"tool", s, c>>])
    BY <1>1, <1>4 DEF Serving, Hears
  <2> QED BY <1>1, <1>5, <2>1, <2>2 DEF Serving
<1>8. \A s \in Steps : grants'[s] = NoGrant
  BY <1>1, MoveFinds, Kinds
<1> QED BY <1>1, <1>4, <1>6, <1>7, <1>8, MoveFinds, MoveKept

\* The turn decides a settlement, a message or an abort.
LEMMA MoveStep ==
  ASSUME HostInv, NEW in \in Submissions, in \in Waiting, TurnMoves(in), ~closed,
         UNCHANGED <<mode, unreleased, closed, ran, answer, standing>>,
         \A x \in Waiting' : x \in Waiting \/ x.kind = "failed"
  PROVE  Rest'
<1>1. CASE UNCHANGED <<turn, ops, batches, grants, remembered>>
  <2>1. \A s \in Steps : Hears(s)
    BY <1>1, SilentHears
  <2> QED BY <1>1, <2>1, HearKept
<1> QED BY <1>1, RestsStep, GivesUpStep, MovesOnStep, AsksStep, RunsStep, StopsStep, RefusesStep DEF TurnMoves

\* The session decides: an outcome it records may count, all else moves the turn.
LEMMA ActStep ==
  ASSUME HostInv, NEW in \in Submissions, in \in Waiting, Accepts(in), Acts(in), ~closed,
         UNCHANGED <<mode, closed, ran, answer, standing>>,
         \A x \in Waiting' : x \in Waiting \/ x.kind = "failed"
  PROVE  Rest'
<1>1. HostType /\ batches \in [Steps -> BatchActors]
  BY DEF HostInv, HostType
<1>2. CASE in \notin Results /\ TurnMoves(in) /\ UNCHANGED unreleased
  BY <1>2, MoveStep
<1>3. CASE /\ in \in Results
           /\ batches' = Released(in.step, in.call, batches)
           /\ unreleased' = Forgotten(in.step, in.call)
           /\ UNCHANGED <<turn, ops, grants, remembered>>
  <2> PICK s : s = in.step
    OBVIOUS
  <2> PICK c : c = in.call
    OBVIOUS
  <2>1. s \in Steps /\ c \in DOMAIN ToolOf
    BY <1>3 DEF Results
  <2>2. \/ Released(s, c, batches) = batches
        \/ \E p \in unreleased, result \in Final :
             /\ p.step = s /\ p.call = c
             /\ Counted(c, result) \in Counteds
             /\ Released(s, c, batches) = [batches EXCEPT ![s] = Sent(@, Counted(c, result))]
    BY <1>1, <2>1, ReleasedBatches
  <2>3. \/ batches' = batches
        \/ \E p \in unreleased, result \in Final :
             /\ p.step = s /\ p.call = c
             /\ Counted(c, result) \in Counteds
             /\ batches' = [batches EXCEPT ![s] = Sent(@, Counted(c, result))]
    BY <1>3, <2>2
  <2>4. Alike(batches[s], batches[s])
    BY DEF Alike
  <2>5. \A t \in Steps : Hears(t)
    BY <1>1, <1>3, <2>1, <2>3, <2>4, ReleaseHears
  <2>6. unreleased' \subseteq unreleased
    BY <1>3 DEF Forgotten
  <2> QED BY <1>3, <2>5, <2>6, HearKept
<1> QED BY <1>1, <1>2, <1>3, ActsCases

\* The session.
LEMMA SessionStep ==
  ASSUME HostInv, Session \/ SessionEnds
  PROVE  Rest'
<1>1. HostType /\ Appending
  BY DEF HostInv
<1>2. CASE SessionIgnores
  BY <1>2, BystanderStep
<1>3. CASE SessionEnds
  BY <1>3, ClosesStep DEF SessionEnds
<1>4. CASE SessionAppends
  BY <1>4, BystanderStep, ClosesStep DEF SessionAppends
<1>5. \A in : \A i \in DOMAIN Thrown(in) : Thrown(in)[i].kind = "failed"
  BY DEF Thrown, Settled
<1>6. CASE RuntimeActs
  <2> PICK in : in = Head(inbox)
    OBVIOUS
  <2>1. /\ inbox # << >> /\ Accepts(in) /\ Acts(in) /\ ~closed
        /\ UNCHANGED <<mode, writing, closed, ran, answer, standing>>
        /\ inbox' = Tail(inbox) \o Thrown(in)
    BY <1>6 DEF RuntimeActs
  <2>2. in \in Waiting /\ in \in Submissions /\ Thrown(in) \in Seq(Submissions)
    BY <1>1, <2>1, WaitingChanges, ThrownType
  <2>3. \A x \in Waiting' : x \in Waiting \/ \E i \in DOMAIN Thrown(in) : x = Thrown(in)[i]
    BY <1>1, <2>1, <2>2, WaitingChanges
  <2>4. \A x \in Waiting' : x \in Waiting \/ x.kind = "failed"
    BY <1>5, <2>3
  <2> QED BY <2>1, <2>2, <2>4, ActStep
<1>7. CASE SessionCommits
  <2>1. PICK in \in writing : Acts(in) /\ inbox' = inbox \o Thrown(in)
    BY <1>7 DEF SessionCommits
  <2>2. writing' = {} /\ ~closed /\ UNCHANGED <<mode, closed, ran, answer, standing>>
    BY <1>7 DEF SessionCommits
  <2>3. in \in Waiting /\ in \in Submissions /\ Accepts(in)
    BY <1>1, <2>1, WaitingChanges DEF Appending, Waiting
  <2>4. Thrown(in) \in Seq(Submissions)
    BY <1>1, <2>3, ThrownType
  <2>5. \A x \in Waiting' : x \in Waiting \/ \E i \in DOMAIN Thrown(in) : x = Thrown(in)[i]
    BY <1>1, <2>1, <2>2, <2>4, WaitingChanges
  <2>6. \A x \in Waiting' : x \in Waiting \/ x.kind = "failed"
    BY <1>5, <2>5
  <2> QED BY <2>1, <2>2, <2>3, <2>6, ActStep
<1> QED BY <1>2, <1>3, <1>4, <1>6, <1>7 DEF Session

-----------------------------------------------------------------------------
\* A host

\* A host begins with nothing to run, to wait for or to allow.
LEMMA HostStarts ==
  ASSUME Init
  PROVE  HostInv
<1>1. /\ turn = [phase |-> "idle", step |-> 0, left |-> 0]
      /\ inbox = << >> /\ writing = {}
      /\ ops = [o \in Ops |-> NoOp] /\ batches = [s \in Steps |-> NoBatch]
      /\ grants = [s \in Steps |-> NoGrant]
      /\ remembered = {} /\ unreleased = {} /\ closed = FALSE /\ ran = {} /\ standing = {}
      /\ Idle /\ MaxSteps \in Nat
  BY HostAssumption DEF Init, Idle
<1>2. /\ \A o \in Ops : ops[o] = NoOp /\ ~Live(o)
      /\ NoOp.status = "none" /\ NoOp.inbox = << >> /\ Quiet(NoOp)
  BY <1>1, FreshActors DEF Live, NoOp
<1>3. /\ \A s \in Steps : batches[s] = NoBatch /\ grants[s] = NoGrant
      /\ NoBatch.status = "none" /\ NoBatch.inbox = << >> /\ NoBatch.results = {} /\ ~NoGrant.held
  BY <1>1 DEF NoBatch, NoGrant
<1>4. \A s \in Steps : /\ ~Live(<<"completion", s>>) /\ ~Live(<<"permission", s>>)
                       /\ \A c \in DOMAIN ToolOf : ~Live(<<"tool", s, c>>)
  BY <1>2, OpNames
<1>5. HostType
  <2>1. /\ turn \in [phase : Phases, step : 0..MaxSteps, left : 0..MaxSteps]
        /\ turn.step + turn.left <= MaxSteps
    BY <1>1 DEF Phases
  <2>2. partial \in [DOMAIN ToolOf -> Outcomes \cup {"none"}]
    BY DEF Init, NoResults
  <2>3. answer \in [Steps \X DOMAIN ToolOf -> {"none", "allowed", "remembered", "rejected"}]
    BY DEF Init
  <2>4. mode \in {e.mode : e \in Scenarios}
    BY DEF Init
  <2>5. /\ ops \in [Ops -> OpActors] /\ batches \in [Steps -> BatchActors]
        /\ grants \in [Steps -> Requested]
    BY <1>1, FreshActors
  <2>6. inbox \in Seq(Submissions)
    BY <1>1
  <2> QED BY <1>1, <2>1, <2>2, <2>3, <2>4, <2>5, <2>6 DEF HostType
<1>6. Appending
  BY <1>1 DEF Appending
<1>7. OperationInv
  BY <1>2 DEF OperationInv
<1>8. Spawning
  BY <1>2, <1>3 DEF Spawning
<1>9. Settling
  BY <1>1 DEF Settling, Waiting
<1>10. Reporting
  BY <1>1, <1>3 DEF Reporting
<1>11. Serving
  BY <1>3, <1>4 DEF Serving
<1>12. Approving
  <2>1. \A s \in Steps : GrantInv(s) /\ Asked(s) /\ BatchInv(s)
    BY <1>3 DEF GrantInv, Asked, BatchInv
  <2> QED BY <1>1, <1>4, <2>1 DEF Approving
<1> QED BY <1>5, <1>6, <1>7, <1>8, <1>9, <1>10, <1>11, <1>12 DEF HostInv

\* Every step of a host keeps what is true of it.
LEMMA HostStep ==
  ASSUME HostInv, [Next]_vars
  PROVE  HostInv'
<1>1. HostType /\ Appending /\ OperationInv /\ Approving
  BY DEF HostInv
<1>2. HostType' /\ Appending' /\ OperationInv'
  BY <1>1, TypeStep, AppendingStep, OperationsInOrder
<1>3. Rest'
  <2>1. CASE UNCHANGED vars \/ ResetPermissions \/ Prompts \/ BargesIn \/ Aborts
    BY <2>1, BystanderStep
  <2>2. CASE Session \/ SessionEnds
    BY <2>2, SessionStep
  <2>3. ASSUME NEW o \in Ops, OpStep(o) \/ DeadlineFires(o) \/ WorkSucceeds(o) \/ WorkFails(o)
        PROVE  Rest'
    BY <2>3, AdvanceStep, SettleStep, ReportStep DEF OpStep
  <2>4. ASSUME NEW s \in Steps,
               Requesting(s) \/ UserDecides(s) \/ RequestRejectsInput(s) \/ RequestBreaks(s)
        PROVE  Rest'
    BY <2>4, RequestStep
  <2>5. ASSUME NEW s \in Steps, BatchStep(s) PROVE Rest'
    BY <2>5, BatchActorStep
  <2> QED BY <2>1, <2>2, <2>3, <2>4, <2>5 DEF Next
<1> QED BY <1>2, <1>3 DEF HostInv, Rest

\* In every state of a host its actors are in order, each is awaited or has been told
\* to stop, and what runs was allowed (context.ts, operation-actor.ts, tool-batch.ts,
\* permission.ts).
THEOREM HostSafe == Spec => []HostInv
<1>1. Init => HostInv
  BY HostStarts
<1>2. HostInv /\ [Next]_vars => HostInv'
  BY HostStep
<1> QED BY <1>1, <1>2, PTL DEF Spec

\* The type invariant of a host, which the run checks on its instance: operations work
\* only while they live, and the session appends one submission at a time.
THEOREM HostTypeCorrect == Spec => []TypeOK
<1>1. HostInv => TypeOK
  <2> SUFFICES ASSUME HostInv PROVE TypeOK
    OBVIOUS
  <2>1. HostType /\ OperationInv /\ Serving
    BY DEF HostInv
  <2>2. /\ turn.phase \in {"idle", "awaiting_model", "awaiting_permission", "executing_tools",
                           "cancelling_tools"}
        /\ turn.step \in 0..MaxSteps /\ turn.left \in 0..MaxSteps
    BY <2>1 DEF HostType, Phases
  <2>3. ASSUME NEW o \in Ops
        PROVE  /\ ops[o].status \in Statuses
               /\ Live(o) => ops[o].work \in {"none", ops[o].status}
               /\ ops[o].timer => Live(o)
    BY <2>1 DEF HostType, OpActors, OperationInv, Ordered, Quiet
  <2>4. \A s \in Steps : batches[s].results \cap batches[s].pending = {}
    BY <2>1 DEF Serving
  <2>5. Cardinality(writing) <= 1
    <3>1. CASE writing = {}
      BY <3>1, FS_EmptySet
    <3>2. ASSUME NEW in, writing = {in} PROVE Cardinality(writing) <= 1
      BY <3>2, FS_Singleton
    <3> QED BY <2>1, <3>1, <3>2 DEF HostType
  <2> QED BY <2>1, <2>2, <2>3, <2>4, <2>5 DEF TypeOK, HostType
<1> QED BY <1>1, HostSafe, PTL

\* Whatever was cancelled, refused, reset or closed in between, a host that asks runs a
\* tool only if the user allowed that call, or the tool for good and no policy change
\* has made the host forget it (permission.ts, tools.ts runTools).
THEOREM RunsStayApproved == Spec => []RunsAreApproved
<1>1. HostInv => RunsAreApproved
  <2> SUFFICES ASSUME HostInv PROVE RunsAreApproved
    OBVIOUS
  <2>1. HostType /\ Approving
    BY DEF HostInv
  <2>2. ASSUME mode.asks, NEW r \in ran PROVE answer[r] \in {"allowed", "remembered"}
    <3>1. r = <<r[1], r[2]>>
      BY <2>1 DEF HostType
    <3>2. Ok(r[1], r[2])
      BY <2>1, <2>2 DEF Approving
    <3> QED BY <3>1, <3>2 DEF Ok
  <2> QED BY <2>1, <2>2 DEF RunsAreApproved, Approving
<1> QED BY <1>1, HostSafe, PTL

\* Nothing runs for no one: every operation that lives is awaited by its turn or its
\* batch, or it or its batch has been told to stop (agent-fsm.ts, tool-batch.ts, host.ts).
THEOREM NothingIsOrphaned == Spec => []NoOrphans
<1>1. HostInv => NoOrphans
  <2> SUFFICES ASSUME HostInv, NEW o \in Ops, Live(o)
               PROVE  Awaited(o) \/ ToldToStop(ops[o]) \/ (o[1] = "tool" /\ ToldToStop(batches[o[2]]))
    BY DEF NoOrphans
  <2>1. Serving
    BY DEF HostInv
  <2>2. CASE o[1] = "tool"
    <3> PICK s : s = o[2]
      OBVIOUS
    <3>1. s \in Steps /\ o[3] \in DOMAIN ToolOf /\ o = <<"tool", s, o[3]>>
      BY <2>2, OpNames
    <3>2. CASE ToldToStop(ops[o])
      BY <3>2
    <3>3. CASE batches[s].status = "running" /\ o[3] \in batches[s].pending
      <4>1. CASE Holds(batches[s], "cancel")
        BY <2>2, <4>1 DEF Holds, ToldToStop
      <4>2. CASE ~closed /\ s = turn.step /\ KindOf(turn.phase) = "batch" /\ ~Idle
        BY <2>2, <3>3, <4>2 DEF Awaited
      <4> QED BY <2>1, <3>1, <3>3, <4>1, <4>2 DEF Serving
    <3> QED BY <2>1, <3>1, <3>2, <3>3 DEF Serving
  <2>3. CASE o[1] # "tool"
    <3>1. o[1] \in {"completion", "permission"} /\ o[2] \in Steps /\ o = <<o[1], o[2]>>
      BY <2>3, OpNames
    <3>2. CASE o[1] = "completion"
      BY <2>1, <3>1, <3>2, Kinds DEF Serving, Awaited, Idle
    <3>3. CASE o[1] = "permission"
      BY <2>1, <3>1, <3>3, Kinds DEF Serving, Awaited, Idle
    <3> QED BY <3>1, <3>2, <3>3
  <2> QED BY <2>2, <2>3
<1> QED BY <1>1, HostSafe, PTL

-----------------------------------------------------------------------------
\* What a host records

\* While the policy and the record stay, so do the successes.
LEMMA SameRecord ==
  ASSUME mode' = mode, partial' = partial
  PROVE  /\ CallSet' = CallSet /\ Successes' = Successes
         /\ \A c : Recorded(c)' = Recorded(c)
         /\ \A r : Counts(r)' = Counts(r)
         /\ \A e : Breaks(e)' = Breaks(e)
<1>1. CallSet' = CallSet /\ \A c : Recorded(c)' = Recorded(c)
  BY DEF CallSet, Recorded
<1>2. \A r : Counts(r)' = Counts(r)
  BY DEF Counts
<1> QED BY <1>1, <1>2 DEF Successes, Breaks

\* A batch of the turn whose record stays is as it was.
LEMMA SameBatchRecords ==
  ASSUME mode' = mode, partial' = partial, turn' = turn, NEW b, BatchRecords(b)
  PROVE  BatchRecords(b)'
<1>1. /\ CallSet' = CallSet /\ Successes' = Successes
      /\ \A c : Recorded(c)' = Recorded(c)
      /\ \A r : Counts(r)' = Counts(r)
      /\ \A e : Breaks(e)' = Breaks(e)
  BY SameRecord
<1>2. CountsRecorded(b)' = CountsRecorded(b)
  BY <1>1 DEF CountsRecorded
<1>3. CountedAll(b)' = CountedAll(b)
  BY <1>1 DEF CountedAll
<1> QED BY <1>2, <1>3 DEF BatchRecords

\* Steps that record and count nothing.
LEMMA RecordKept ==
  ASSUME RecordInv,
         closed' \/ /\ UNCHANGED <<mode, turn, partial, unreleased, batches, closed>>
                    /\ \A x \in Waiting' : x \in Waiting \/ x.kind \notin {"tool", "batch"}
  PROVE  RecordInv'
<1> SUFFICES ASSUME UNCHANGED <<mode, turn, partial, unreleased, batches, closed>>, ~closed, mode.journaled,
                    \A x \in Waiting' : x \in Waiting \/ x.kind \notin {"tool", "batch"}
             PROVE  RecordInv'
  BY DEF RecordInv
<1>1. RestsEmpty /\ UnstartedEmpty /\ ResultsWait /\ SuccessIsWhole
      /\ (Recording => BatchRecords(batches[turn.step]))
  BY DEF RecordInv
<1>2. RestsEmpty' /\ UnstartedEmpty' /\ Recording' = Recording
  BY <1>1 DEF RestsEmpty, UnstartedEmpty, Recording
<1>3. Successes' = Successes /\ CallSet' = CallSet /\ \A c : Recorded(c)' = Recorded(c)
  BY SameRecord
<1>4. SuccessIsWhole'
  BY <1>1, <1>2, <1>3 DEF SuccessIsWhole
<1>5. \A s, c, r : Withheld(s, c, r)' = Withheld(s, c, r)
  BY <1>3 DEF Withheld
<1>6. ResultsWait'
  BY <1>1, <1>5 DEF ResultsWait
<1>7. Recording => BatchRecords(batches[turn.step])'
  BY <1>1, SameBatchRecords
<1> QED BY <1>2, <1>4, <1>6, <1>7 DEF RecordInv

\* What a decision other than on a tool's result does to the record.
LEMMA RecordMoves ==
  ASSUME HostType, NEW in, in.kind # "tool", Acts(in)
  PROVE  /\ partial' = IF in.kind = "batch" \/ (turn'.phase = "idle" /\ ~Idle) THEN NoResults ELSE partial
         /\ in.kind = "batch" => ~Recording'
<1> PICK w : w = Applied(in, Now)
  OBVIOUS
<1>1. /\ Become(w)
      /\ partial' = IF in.kind = "batch" \/ (w.turn.phase = "idle" /\ ~Idle) THEN NoResults ELSE partial
  BY DEF Acts
<1>2. turn' = w.turn
  BY <1>1 DEF Become
<1>3. ASSUME in.kind = "batch" PROVE ~Recording'
  <2>1. w = Prepares(Now) \/ w = Ended(Now)
    BY <1>3 DEF Applied
  <2>2. CASE w = Ended(Now)
    <3>1. Now = [turn |-> turn, ops |-> ops, batches |-> batches, grants |-> grants, remembered |-> remembered]
          /\ turn \in [phase : Phases, step : 0..MaxSteps, left : 0..MaxSteps]
      BY DEF Now, HostType
    <3>2. w.turn.phase = "idle"
      BY <2>2, <3>1 DEF Ended
    <3> QED BY <1>2, <3>2 DEF Recording
  <2>3. CASE w = Prepares(Now)
    <3>1. turn \in Turns /\ turn.step = turn.step /\ ops \in [Ops -> OpActors] /\ Become(Prepares(Now))
      BY <1>1, <2>3 DEF HostType, Turns
    <3>2. Now = [turn |-> turn, ops |-> ops, batches |-> batches, grants |-> grants, remembered |-> remembered]
      BY DEF Now
    <3>3. Ends \/ turn'.phase = "awaiting_model"
      BY <3>1, <3>2, PreparesOn
    <3> QED BY <3>3 DEF Ends, Recording
  <2> QED BY <2>1, <2>2, <2>3
<1> QED BY <1>1, <1>2, <1>3

\* A turn that leaves its batch behind forgets what it recorded.
LEMMA RecordEnds ==
  ASSUME RecordInv, mode.journaled, ~closed, UNCHANGED <<mode, unreleased>>,
         ~Recording', partial' = NoResults,
         \A s \in Steps : /\ batches'[s].status = batches[s].status
                          /\ batches'[s].results = batches[s].results
                          /\ batches'[s].refusing = batches[s].refusing,
         \A x \in Waiting : x.kind = "tool" => x.step \in Steps,
         \A x \in Waiting' : x \in Waiting \/ x.kind = "failed"
  PROVE  RecordInv'
<1>1. RestsEmpty /\ UnstartedEmpty /\ ResultsWait /\ SuccessIsWhole
  BY DEF RecordInv
<1>2. RestsEmpty' /\ UnstartedEmpty' /\ SuccessIsWhole'
  <2>1. NoResults' = NoResults
    BY DEF NoResults
  <2> QED BY <1>1, <2>1 DEF RestsEmpty, UnstartedEmpty, SuccessIsWhole
<1>3. \A s, c, r : Withheld(s, c, r)'
  BY DEF Withheld, Recording
<1>4. ResultsWait'
  BY <1>1, <1>3 DEF ResultsWait
<1> QED BY <1>2, <1>4 DEF RecordInv

\* A turn that comes to its batch finds nothing recorded, and nothing on its way.
LEMMA RecordBegins ==
  ASSUME HostInv, RecordInv, mode.journaled, ~closed, UNCHANGED <<mode, unreleased, partial>>,
         ~Recording, turn.phase \in {"awaiting_model", "awaiting_permission"},
         turn'.step = turn.step, Recording', turn.step \in Steps,
         batches \in [Steps -> BatchActors],
         \/ batches' = batches
         \/ /\ \A s \in Steps : s # turn.step => batches'[s] = batches[s]
            /\ batches'[turn.step].status = "ready" /\ batches'[turn.step].results = {}
            /\ batches'[turn.step].refusing = {} /\ batches'[turn.step].inbox = <<Event("start")>>,
         \A x \in Waiting : x.kind \in {"tool", "batch"} => x.step \in Steps,
         \A x \in Waiting' : x \in Waiting \/ x.kind = "failed"
  PROVE  RecordInv'
<1>1. RestsEmpty /\ UnstartedEmpty /\ ResultsWait /\ SuccessIsWhole
  BY DEF RecordInv
<1>2. batches[turn.step].status = "none"
  BY DEF HostInv, Spawning
<1>3. partial' = NoResults /\ NoResults' = NoResults
  BY <1>1 DEF RestsEmpty, NoResults
<1>4. UnstartedEmpty'
  BY <1>1 DEF UnstartedEmpty
<1>5. \A x \in Waiting : x.kind \in {"tool", "batch"} => x.step # turn.step
  BY <1>1, <1>2 DEF ResultsWait, HostInv, Settling
<1>6. SuccessIsWhole'
  BY <1>5 DEF SuccessIsWhole
<1>7. ResultsWait'
  <2>1. \A s, c, r : s # turn.step => Withheld(s, c, r)'
    BY DEF Withheld
  <2>2. \A x \in Waiting' : x.kind = "tool" => x \in Waiting /\ x.step # turn.step /\ x.step \in Steps
    BY <1>5
  <2>3. \A s \in Steps : s # turn.step => batches'[s] = batches[s]
    OBVIOUS
  <2>4. \A x \in Waiting' : x.kind = "tool" => batches'[x.step].status \in {"running", "settled"}
    BY <1>1, <2>2, <2>3 DEF ResultsWait
  <2>5. batches'[turn.step].refusing = {}
    BY <1>1, <1>2 DEF UnstartedEmpty
  <2>6. \A s \in Steps : \A c \in batches'[s].refusing : Withheld(s, c, "refused")'
    BY <2>1, <2>5
  <2> QED BY <1>1, <2>1, <2>2, <2>4, <2>6 DEF ResultsWait
<1>8. BatchRecords(batches[turn.step])'
  <2>1. Event("start").type # "cancel"
    BY DEF Event
  <2> QED BY <1>2, <1>3, <2>1 DEF BatchRecords, Holds
<1> QED BY <1>3, <1>4, <1>6, <1>7, <1>8 DEF RecordInv, RestsEmpty

\* A turn that gives up its batch records no more.
LEMMA RecordStops ==
  ASSUME HostInv, RecordInv, mode.journaled, ~closed, UNCHANGED <<mode, unreleased, partial>>,
         Recording, turn'.phase = "cancelling_tools", turn'.step = turn.step, turn.step \in Steps,
         batches \in [Steps -> BatchActors],
         batches' = [batches EXCEPT ![turn.step] = Sent(@, Event("cancel"))],
         \A x \in Waiting : x.kind \in {"tool", "batch"} => x.step \in Steps,
         \A x \in Waiting' : x \in Waiting \/ x.kind = "failed"
  PROVE  RecordInv'
<1>1. RestsEmpty /\ UnstartedEmpty /\ ResultsWait /\ SuccessIsWhole /\ BatchRecords(batches[turn.step])
  BY DEF RecordInv
<1> PICK b : b = batches[turn.step]
  OBVIOUS
<1>0. Event("cancel") \in [type : {"start", "cancel"}] \cup Counteds /\ Event("cancel").type = "cancel"
  BY DEF Event
<1>2. /\ batches'[turn.step] \in BatchActors /\ b \in BatchActors
      /\ batches'[turn.step].status = b.status /\ batches'[turn.step].pending = b.pending
      /\ batches'[turn.step].results = b.results /\ batches'[turn.step].refusing = b.refusing
      /\ b.status \in {"none", "settled"} => batches'[turn.step] = b
      /\ b.status \in {"ready", "running"} => batches'[turn.step].inbox = Append(b.inbox, Event("cancel"))
  BY <1>0, SentBatch
<1>3. \A s \in Steps : s # turn.step => batches'[s] = batches[s]
  OBVIOUS
<1>4. Successes' = Successes /\ CallSet' = CallSet /\ (\A c : Recorded(c)' = Recorded(c))
      /\ (\A r : Counts(r)' = Counts(r)) /\ \A e : Breaks(e)' = Breaks(e)
  BY SameRecord
<1>5. UnstartedEmpty'
  BY <1>1, <1>2, <1>3 DEF UnstartedEmpty
<1>6. SuccessIsWhole'
  BY <1>1, <1>4 DEF SuccessIsWhole
<1>7. ResultsWait'
  <2>1. \A s, c, r : Withheld(s, c, r)'
    BY DEF Withheld
  <2> QED BY <1>1, <1>2, <1>3, <2>1 DEF ResultsWait
<1>8. BatchRecords(batches[turn.step])'
  <2>1. batches'[turn.step].status \in {"none", "ready"} => partial' = NoResults'
    BY <1>1, <1>2 DEF BatchRecords, NoResults
  <2>2. ASSUME b.status = "running" PROVE CountsRecorded(batches[turn.step])'
    <3>1. CountsRecorded(b)
      BY <1>1, <2>2 DEF BatchRecords
    <3> PICK inb : inb = batches'[turn.step].inbox
      OBVIOUS
    <3>2. /\ DOMAIN b.inbox \subseteq DOMAIN inb
          /\ DOMAIN b.inbox = 1..Len(b.inbox) /\ Len(b.inbox) \in Nat
          /\ \A i \in DOMAIN b.inbox : inb[i] = b.inbox[i]
          /\ \A i \in DOMAIN inb : i \in DOMAIN b.inbox \/ inb[i] = Event("cancel")
      <4>1. PICK M : M = [type : {"start", "cancel"}] \cup Counteds
        OBVIOUS
      <4>2. b.inbox \in Seq(M)
        BY <1>2, <4>1 DEF BatchActors
      <4>3. Event("cancel") \in M /\ inb = Append(b.inbox, Event("cancel"))
        BY <1>0, <1>2, <2>2, <4>1
      <4> QED BY <4>2, <4>3, Appended
    <3>3. \A i \in DOMAIN inb : IsCount(inb[i]) => i \in DOMAIN b.inbox
      BY <1>0, <3>2 DEF IsCount
    <3>4. \A i \in DOMAIN b.inbox : \A j \in 1..(i - 1) : j \in DOMAIN b.inbox
      BY <3>2
    <3>5. \A i \in DOMAIN inb : IsCount(inb[i]) =>
             Recorded(inb[i].call) /\ inb[i].result = Counts(partial[inb[i].call])
      BY <3>1, <3>2, <3>3 DEF CountsRecorded
    <3>6. ASSUME NEW c \in Successes \ b.results
          PROVE  \E i \in DOMAIN inb : /\ IsCount(inb[i]) /\ inb[i].call = c
                                       /\ \A j \in 1..(i - 1) : ~Breaks(inb[j])
      <4>1. PICK i \in DOMAIN b.inbox : /\ IsCount(b.inbox[i]) /\ b.inbox[i].call = c
                                        /\ \A j \in 1..(i - 1) : ~Breaks(b.inbox[j])
        BY <3>1 DEF CountsRecorded
      <4>2. \A j \in 1..(i - 1) : inb[j] = b.inbox[j]
        BY <3>2, <3>4, <4>1
      <4> QED BY <3>2, <4>1, <4>2
    <3>7. turn'.step = turn.step /\ partial' = partial /\ (\A e : IsCount(e)' = IsCount(e))
      BY DEF IsCount
    <3>8. PICK n : n = batches'[turn.step]
      OBVIOUS
    <3>9. n.results = b.results /\ n.pending = b.pending /\ n.inbox = inb
      BY <1>2, <3>8
    <3>10. n.results \subseteq Successes /\ CallSet \subseteq n.results \cup n.pending
      BY <3>1, <3>9 DEF CountsRecorded
    <3>11. CountsRecorded(n)'
      BY <1>4, <3>5, <3>6, <3>7, <3>9, <3>10 DEF CountsRecorded
    <3> QED BY <3>7, <3>8, <3>11
  <2>3. ASSUME b.status = "settled" PROVE CountedAll(batches[turn.step])'
    BY <1>1, <1>2, <1>4, <2>3 DEF CountedAll, BatchRecords
  <2> QED BY <1>2, <2>1, <2>2, <2>3 DEF BatchRecords
<1> QED BY <1>5, <1>6, <1>7, <1>8 DEF RecordInv, RestsEmpty, Recording

\* A result that is recorded is released to its batch, which may count it.
LEMMA RecordReleases ==
  ASSUME HostInv, RecordInv, mode.journaled, ~closed, UNCHANGED <<mode, turn>>,
         NEW in \in Results, in \in Waiting, Accepts(in),
         batches' = Released(in.step, in.call, batches),
         unreleased' = Forgotten(in.step, in.call),
         partial' = [partial EXCEPT ![in.call] = in.result],
         \A x \in Waiting : x \in Submissions,
         \A x \in Waiting' : x \in Waiting \/ x.kind = "failed"
  PROVE  RecordInv'
<1>1. /\ RestsEmpty /\ UnstartedEmpty /\ ResultsWait /\ SuccessIsWhole
      /\ Recording => BatchRecords(batches[turn.step])
  BY DEF RecordInv
<1>0. PICK s, c, r, b : s = in.step /\ c = in.call /\ r = in.result /\ b = batches[s]
  OBVIOUS
<1>2. s = turn.step /\ turn.phase = "executing_tools" /\ ~Recorded(c)
      /\ s \in Steps /\ c \in DOMAIN ToolOf /\ r \in Outcomes /\ in.kind = "tool"
      /\ \A k \in CallSet : Recorded(k) => k \in Successes
  BY <1>0 DEF Accepts, Results, Recorded
<1>3. HostType /\ batches \in [Steps -> BatchActors] /\ b \in BatchActors /\ CallSet \subseteq DOMAIN ToolOf
      /\ partial \in [DOMAIN ToolOf -> Outcomes \cup {"none"}]
  BY <1>0, <1>2, ModeType DEF HostInv, HostType
<1>4. /\ partial' \in [DOMAIN ToolOf -> Outcomes \cup {"none"}]
      /\ partial'[c] = r /\ \A k \in DOMAIN ToolOf : k # c => partial'[k] = partial[k]
  BY <1>0, <1>2, <1>3
<1>5. "none" \notin Outcomes
  BY DEF Outcomes
<1>6. CallSet' = CallSet /\ (\A k : Counts(k)' = Counts(k)) /\ \A e : Breaks(e)' = Breaks(e)
  <2>1. CallSet' = CallSet
    BY DEF CallSet
  <2> QED BY <2>1 DEF Counts, Breaks
<1>7. /\ \A k \in DOMAIN ToolOf : Recorded(k)' <=> (Recorded(k) \/ k = c)
      /\ Recorded(c)'
      /\ Successes \subseteq Successes' /\ Successes' \subseteq Successes \cup {c}
      /\ c \in Successes' <=> c \in CallSet /\ Counts(r) = "succeeded"
  BY <1>2, <1>3, <1>4, <1>5, <1>6 DEF Recorded, Successes
<1>8. b.status \in {"running", "settled"} /\ Recording
  BY <1>0, <1>1, <1>2 DEF ResultsWait, Recording
<1>9. b.status = "settled" => ~(c \in CallSet)
  BY <1>0, <1>1, <1>2, <1>8 DEF BatchRecords, CountedAll
<1>10. b.status = "settled" => Successes' = Successes
  BY <1>7, <1>9
<1>11. \/ b.status = "settled" /\ batches'[s] = b
       \/ b.status = "running" /\ batches'[s] = Sent(b, Counted(c, Counts(r)))
  <2>0. CASE \E p \in unreleased : p.step = s /\ p.call = c
    <3>0. PICK q : q = CHOOSE p \in unreleased : p.step = s /\ p.call = c
      OBVIOUS
    <3>1. q \in unreleased /\ q.step = s /\ q.call = c
      BY <2>0, <3>0
    <3>2. batches' = [batches EXCEPT ![s] = Sent(@, Counted(c, Counts(q.result)))]
      BY <1>0, <2>0, <3>0 DEF Released
    <3>3. batches'[s] = Sent(b, Counted(c, Counts(q.result)))
      BY <1>0, <1>2, <1>3, <3>2
    <3>4. b.status = "settled" => batches'[s] = b
      BY <3>3 DEF Sent
    <3>5. ASSUME b.status = "running" PROVE q.result = r
      <4>1. [step |-> s, call |-> c, result |-> r] \in unreleased
        BY <1>0, <1>1, <1>2, <3>5 DEF ResultsWait, Withheld
      <4>2. q = [step |-> s, call |-> c, result |-> r]
        BY <1>1, <3>1, <4>1 DEF ResultsWait
      <4> QED BY <4>2
    <3> QED BY <1>8, <3>3, <3>4, <3>5
  <2>1. CASE ~ \E p \in unreleased : p.step = s /\ p.call = c
    <3>1. batches' = batches
      BY <1>0, <2>1 DEF Released
    <3>2. b.status # "running"
      BY <1>0, <1>1, <1>2, <2>1 DEF ResultsWait, Withheld
    <3> QED BY <1>0, <1>8, <3>1, <3>2
  <2> QED BY <2>0, <2>1
<1>12. \A t \in Steps : t # s => batches'[t] = batches[t]
  <2>1. batches' = batches \/ \E x : batches' = [batches EXCEPT ![s] = x]
    BY <1>0 DEF Released
  <2> QED BY <1>3, <2>1
<1>21. PICK e : e = Counted(c, Counts(r))
  OBVIOUS
<1>13. e \in [type : {"start", "cancel"}] \cup Counteds /\ IsCount(e) /\ e.call = c /\ e.result = Counts(r)
       /\ e.type # "cancel"
  BY <1>2, <1>21, CountsFinal DEF Counted, Counteds, IsCount
<1>14. /\ batches'[s].status = b.status /\ batches'[s].results = b.results
       /\ batches'[s].refusing = b.refusing /\ batches'[s].pending = b.pending
       /\ b.status = "running" => batches'[s].inbox = Append(b.inbox, e)
  BY <1>3, <1>11, <1>13, <1>21, SentBatch
<1>15. RestsEmpty' /\ UnstartedEmpty'
  <2>1. Recording'
    BY <1>2 DEF Recording
  <2> QED BY <1>0, <1>1, <1>12, <1>14, <2>1 DEF RestsEmpty, UnstartedEmpty
<1>16. ASSUME NEW t, NEW k \in DOMAIN ToolOf, NEW x, Withheld(t, k, x)
       PROVE  Withheld(t, k, x)'
  <2> SUFFICES ASSUME t = turn.step, batches'[t].status = "running", ~Recorded(k)'
               PROVE  [step |-> t, call |-> k, result |-> x] \in unreleased'
    BY DEF Withheld
  <2>1. k # c /\ ~Recorded(k) /\ batches[t].status = "running"
    BY <1>0, <1>2, <1>7, <1>14
  <2>2. [step |-> t, call |-> k, result |-> x] \in unreleased
    BY <1>2, <1>16, <2>1 DEF Withheld
  <2> QED BY <1>0, <2>1, <2>2 DEF Forgotten
<1>17. ResultsWait'
  <2>1. unreleased' \subseteq unreleased
    BY DEF Forgotten
  <2>2. \A p, q \in unreleased' : p.step = q.step /\ p.call = q.call => p = q
    BY <1>1, <2>1 DEF ResultsWait
  <2>3. \A x \in Waiting : x.kind = "tool" => x.step \in Steps /\ x.call \in DOMAIN ToolOf
    BY DEF Submissions, Settlements, Results
  <2>4. ASSUME NEW x \in Waiting', x.kind = "tool"
        PROVE  /\ batches'[x.step].status \in {"running", "settled"}
               /\ Withheld(x.step, x.call, x.result)'
    <3>1. x \in Waiting
      BY <2>4
    <3>2. batches[x.step].status \in {"running", "settled"} /\ Withheld(x.step, x.call, x.result)
      BY <1>1, <2>4, <3>1 DEF ResultsWait
    <3> QED BY <1>0, <1>12, <1>14, <1>16, <2>3, <2>4, <3>1, <3>2
  <2>5. ASSUME NEW t \in Steps, NEW k \in batches'[t].refusing
        PROVE  Withheld(t, k, "refused")'
    <3>1. k \in batches[t].refusing
      BY <1>0, <1>12, <1>14
    <3>2. k \in DOMAIN ToolOf
      BY <1>3, <3>1 DEF BatchActors
    <3> QED BY <1>1, <1>16, <3>1, <3>2 DEF ResultsWait
  <2> QED BY <2>2, <2>4, <2>5 DEF ResultsWait
<1>18. SuccessIsWhole'
  <2> SUFFICES ASSUME NEW x \in Waiting', x.kind = "batch", x.result = "succeeded", x.step = turn.step
               PROVE  Successes' = CallSet'
    BY DEF SuccessIsWhole
  <2>1. Successes = CallSet
    BY <1>1, <1>8 DEF SuccessIsWhole
  <2> QED BY <1>6, <1>7, <2>1
<1>19. CASE b.status = "settled"
  <2>1. CountedAll(b)
    BY <1>0, <1>1, <1>2, <1>8, <1>19 DEF BatchRecords
  <2>2. \A k \in CallSet : Recorded(k) => Recorded(k)'
    BY <1>3, <1>7
  <2>3. CountedAll(b)'
    BY <1>6, <1>9, <1>10, <1>19, <2>1, <2>2 DEF CountedAll
  <2>4. BatchRecords(b)'
    BY <1>19, <2>3 DEF BatchRecords
  <2>5. BatchRecords(batches[turn.step])'
    BY <1>0, <1>2, <1>11, <1>19, <2>4
  <2> QED BY <1>15, <1>17, <1>18, <2>5 DEF RecordInv
<1>20. CASE b.status = "running"
  <2>1. CountsRecorded(b) /\ ~Holds(b, "cancel")
    BY <1>0, <1>1, <1>2, <1>8, <1>20 DEF BatchRecords
  <2>0. PICK inb : inb = batches'[s].inbox
    OBVIOUS
  <2>2. /\ DOMAIN b.inbox \subseteq DOMAIN inb /\ Len(b.inbox) + 1 \in DOMAIN inb
        /\ DOMAIN b.inbox = 1..Len(b.inbox) /\ Len(b.inbox) \in Nat
        /\ \A i \in DOMAIN b.inbox : inb[i] = b.inbox[i] /\ b.inbox[i] \in [type : {"start", "cancel"}] \cup Counteds
        /\ inb[Len(b.inbox) + 1] = e
        /\ \A i \in DOMAIN inb : i \in DOMAIN b.inbox \/ i = Len(b.inbox) + 1
    <3>1. b.inbox \in Seq([type : {"start", "cancel"}] \cup Counteds)
      BY <1>3 DEF BatchActors
    <3> QED BY <1>13, <1>14, <1>20, <2>0, <3>1, Appended
  <2>3. ~Holds(batches'[s], "cancel")
    BY <1>13, <2>0, <2>1, <2>2 DEF Holds
  <2>4. \A i \in DOMAIN b.inbox : IsCount(b.inbox[i]) =>
          /\ b.inbox[i].call \in DOMAIN ToolOf /\ Recorded(b.inbox[i].call)
          /\ b.inbox[i].result = Counts(partial[b.inbox[i].call])
    BY <2>1, <2>2 DEF CountsRecorded, IsCount, Counteds
  <2>5. \A i \in DOMAIN b.inbox : IsCount(b.inbox[i]) =>
          /\ b.inbox[i].call # c /\ Recorded(b.inbox[i].call)'
          /\ b.inbox[i].result = Counts(partial'[b.inbox[i].call])
    BY <1>2, <1>4, <1>7, <2>4
  <2>6. \A i \in DOMAIN inb : IsCount(inb[i]) =>
          Recorded(inb[i].call)' /\ inb[i].result = Counts(partial'[inb[i].call])
    BY <1>4, <1>7, <1>13, <2>2, <2>5
  <2>7. \A j \in DOMAIN b.inbox : ~Breaks(b.inbox[j])
    <3> SUFFICES ASSUME NEW j \in DOMAIN b.inbox, Breaks(b.inbox[j]) PROVE FALSE
      OBVIOUS
    <3>1. b.inbox[j].type # "cancel"
      BY <2>1 DEF Holds
    <3>2. IsCount(b.inbox[j]) /\ b.inbox[j].call \in CallSet /\ b.inbox[j].result # "succeeded"
      BY <3>1 DEF Breaks
    <3>3. b.inbox[j].call \in Successes
      BY <1>2, <2>4, <3>2
    <3>4. Counts(partial[b.inbox[j].call]) = "succeeded"
      BY <3>3 DEF Successes
    <3> QED BY <2>4, <3>2, <3>4
  <2>8. ASSUME NEW k \in Successes' \ b.results
        PROVE  \E i \in DOMAIN inb : /\ IsCount(inb[i]) /\ inb[i].call = k
                                     /\ \A j \in 1..(i - 1) : ~Breaks(inb[j])
    <3>1. CASE k = c
      <4>1. \A j \in 1..(Len(b.inbox) + 1 - 1) : j \in DOMAIN b.inbox
        BY <2>2
      <4>2. \A j \in 1..(Len(b.inbox) + 1 - 1) : ~Breaks(inb[j])
        BY <2>2, <2>7, <4>1
      <4> QED BY <1>13, <2>2, <3>1, <4>2
    <3>2. CASE k # c
      <4>1. k \in Successes \ b.results
        BY <1>7, <2>8, <3>2
      <4>2. PICK i \in DOMAIN b.inbox : /\ IsCount(b.inbox[i]) /\ b.inbox[i].call = k
                                        /\ \A j \in 1..(i - 1) : ~Breaks(b.inbox[j])
        BY <2>1, <4>1 DEF CountsRecorded
      <4>3. \A j \in 1..(i - 1) : j \in DOMAIN b.inbox
        BY <2>2, <4>2
      <4> QED BY <2>2, <4>2, <4>3
    <3> QED BY <3>1, <3>2
  <2>9. b.results \subseteq Successes' /\ CallSet \subseteq b.results \cup b.pending
    BY <1>7, <2>1 DEF CountsRecorded
  <2>10. CountsRecorded(batches[turn.step])'
    <3>1. turn' = turn /\ \A x : IsCount(x)' = IsCount(x)
      BY DEF IsCount
    <3>2. PICK n : n = batches'[s]
      OBVIOUS
    <3>3. n.results = b.results /\ n.pending = b.pending /\ n.inbox = inb
      BY <1>14, <2>0, <3>2
    <3>4. n.results \subseteq Successes' /\ CallSet' \subseteq n.results \cup n.pending
      BY <1>6, <2>9, <3>3
    <3>5. \A i \in DOMAIN n.inbox : IsCount(n.inbox[i])' =>
            Recorded(n.inbox[i].call)' /\ n.inbox[i].result = Counts(partial[n.inbox[i].call])'
      BY <1>6, <2>6, <3>1, <3>3
    <3>6. \A k \in Successes' \ n.results : \E i \in DOMAIN n.inbox :
            /\ IsCount(n.inbox[i])' /\ n.inbox[i].call = k
            /\ \A j \in 1..(i - 1) : ~Breaks(n.inbox[j])'
      BY <1>6, <2>8, <3>1, <3>3
    <3>7. CountsRecorded(n)'
      BY <3>4, <3>5, <3>6 DEF CountsRecorded
    <3> QED BY <1>0, <1>2, <3>1, <3>2, <3>7
  <2>11. BatchRecords(batches[turn.step])'
    BY <1>0, <1>2, <1>14, <1>20, <2>3, <2>10 DEF BatchRecords
  <2> QED BY <1>15, <1>17, <1>18, <2>11 DEF RecordInv
<1> QED BY <1>8, <1>19, <1>20

\* What the session decides is recorded of the batch that its turn waits for.
LEMMA RecordActs ==
  ASSUME HostInv, RecordInv, mode.journaled, ~closed, UNCHANGED <<mode, closed>>,
         NEW in \in Submissions, in \in Waiting, Accepts(in), Acts(in),
         \A x \in Waiting' : x \in Waiting \/ x.kind = "failed"
  PROVE  RecordInv'
<1>1. HostType /\ batches \in [Steps -> BatchActors] /\ turn \in Turns
      /\ (~Idle => turn.step \in Steps)
  BY DEF HostInv, HostType, Turns
<1>2. /\ \A x \in Waiting : x \in Submissions
      /\ \A x \in Waiting : x.kind \in {"tool", "batch"} => x.step \in Steps
  <2>1. \A x \in Waiting : x \in Submissions
    BY <1>1, WaitingChanges
  <2> QED BY <2>1 DEF Submissions, Settlements, Results
<1>3. RestsEmpty
  BY DEF RecordInv
<1>4. CASE /\ in \in Results /\ turn.phase = "executing_tools" /\ in.step = turn.step
           /\ batches' = Released(in.step, in.call, batches)
           /\ unreleased' = Forgotten(in.step, in.call)
           /\ partial' = [partial EXCEPT ![in.call] = in.result]
           /\ UNCHANGED <<turn, ops, grants, remembered>>
  BY <1>2, <1>4, RecordReleases
<1>5. CASE in \notin Results /\ TurnMoves(in) /\ UNCHANGED unreleased
  <2>0. in.kind # "tool"
    BY <1>5 DEF Submissions, Settlements, Results
  <2>1. /\ partial' = IF in.kind = "batch" \/ (turn'.phase = "idle" /\ ~Idle) THEN NoResults ELSE partial
        /\ in.kind = "batch" => ~Recording'
    BY <1>1, <2>0, RecordMoves
  <2>2. ~Recording' /\ (Recording => turn'.phase = "idle" \/ in.kind = "batch") => partial' = NoResults
    BY <1>3, <2>1 DEF RestsEmpty, Recording, Idle
  <2>3. CASE UNCHANGED <<turn, ops, batches, grants, remembered>>
    <3>1. CASE in.kind = "batch"
      <4>1. ~Recording /\ ~Recording' /\ partial' = NoResults
        BY <2>1, <2>3, <3>1 DEF Recording
      <4> QED BY <1>2, <1>5, <2>3, <4>1, RecordEnds
    <3>2. CASE in.kind # "batch"
      <4>1. partial' = partial
        BY <2>1, <2>3, <3>2 DEF Idle
      <4> QED BY <1>5, <2>3, <4>1, RecordKept
    <3> QED BY <3>1, <3>2
  <2>4. CASE Rests(in) \/ GivesUp("completion") \/ GivesUp("permission") \/ MovesOn(in) \/ AsksUser(in)
    <3>1. batches' = batches /\ ~Recording'
      BY <1>1, <2>4 DEF Rests, GivesUp, MovesOn, AsksUser, Ends, Recording, Turns
    <3>2. Recording => turn'.phase = "idle" \/ in.kind = "batch"
      BY <2>4 DEF Rests, GivesUp, MovesOn, AsksUser, Ends, Recording, Idle, Mine, KindOf
    <3> QED BY <1>2, <1>5, <2>2, <3>1, <3>2, RecordEnds
  <2>5. CASE RunsBatch(in) \/ Refuses(in)
    <3>1. /\ turn.phase \in {"awaiting_model", "awaiting_permission"} /\ ~Recording
          /\ turn' = [turn EXCEPT !.phase = "executing_tools"]
      BY <2>5, Kinds DEF RunsBatch, Refuses, Mine, Recording
    <3>2. turn'.step = turn.step /\ turn'.phase = "executing_tools" /\ Recording' /\ turn.step \in Steps
      BY <1>1, <3>1 DEF Turns, Recording, Idle
    <3>3. in.kind # "batch" /\ partial' = partial
      BY <2>1, <2>5, <3>2 DEF RunsBatch, Refuses
    <3>4. \/ batches' = batches
          \/ /\ \A s \in Steps : s # turn.step => batches'[s] = batches[s]
             /\ batches'[turn.step].status = "ready" /\ batches'[turn.step].results = {}
             /\ batches'[turn.step].refusing = {} /\ batches'[turn.step].inbox = <<Event("start")>>
      <4>1. CASE Refuses(in)
        BY <4>1 DEF Refuses
      <4>2. CASE RunsBatch(in)
        <5>0. PICK b : b = BatchOf(grants[turn.step])
          OBVIOUS
        <5>1. batches' = [batches EXCEPT ![turn.step] = b]
          BY <4>2, <5>0 DEF RunsBatch
        <5>2. /\ b.status = "ready" /\ b.results = {} /\ b.refusing = {}
              /\ b.inbox = <<Event("start")>>
          BY <5>0 DEF BatchOf, NoBatch
        <5> QED BY <1>1, <3>2, <5>1, <5>2
      <4> QED BY <2>5, <4>1, <4>2
    <3> QED BY <1>1, <1>2, <1>5, <3>1, <3>2, <3>3, <3>4, RecordBegins
  <2>6. CASE StopsBatch
    <3>1. Recording /\ turn.step \in Steps
      BY <1>1, <2>6, Kinds DEF StopsBatch, Recording, Idle, Turns, Phases
    <3>2. batches' = [batches EXCEPT ![turn.step] = Sent(@, Event("cancel"))]
      BY <2>6 DEF StopsBatch
    <3>3. CASE Ends
      <4>1. ~Recording' /\ partial' = NoResults
        BY <2>2, <3>3 DEF Ends, Recording
      <4>2. Event("cancel") \in [type : {"start", "cancel"}] \cup Counteds
        BY DEF Event
      <4>3. PICK e : e = Event("cancel")
        OBVIOUS
      <4>4. LET b == Sent(batches[turn.step], e) IN
              /\ b.status = batches[turn.step].status /\ b.results = batches[turn.step].results
              /\ b.refusing = batches[turn.step].refusing
        BY <1>1, <3>1, <4>2, <4>3, SentBatch
      <4>5. \A s \in Steps : /\ batches'[s].status = batches[s].status
                             /\ batches'[s].results = batches[s].results
                             /\ batches'[s].refusing = batches[s].refusing
        BY <1>1, <3>1, <3>2, <4>3, <4>4
      <4> QED BY <1>2, <1>5, <4>1, <4>5, RecordEnds
    <3>4. CASE turn' = [turn EXCEPT !.phase = "cancelling_tools"]
      <4>1. turn'.phase = "cancelling_tools" /\ turn'.step = turn.step
        BY <1>1, <3>4 DEF Turns
      <4>2. partial' = partial
        BY <2>1, <4>1 DEF Recording
      <4> QED BY <1>1, <1>2, <1>5, <3>1, <3>2, <4>1, <4>2, RecordStops
    <3> QED BY <2>6, <3>3, <3>4 DEF StopsBatch
  <2> QED BY <1>5, <2>3, <2>4, <2>5, <2>6 DEF TurnMoves
<1> QED BY <1>1, <1>4, <1>5, ActsCases

\* A tool that settles leaves its outcome to be released, once.
LEMMA RecordSettles ==
  ASSUME HostInv, RecordInv, mode.journaled, ~closed, NEW o \in Ops, OpSettles(o)
  PROVE  RecordInv'
<1>0. HostType /\ Live(o) /\ Spawning /\ Reporting
  BY DEF HostInv, OpSettles
<1>1. PICK r \in Final : /\ r = Verdict(o, Head(ops[o].inbox)) /\ Settlement(o, r)
                         /\ UNCHANGED <<mode, turn, partial, writing, closed>>
  BY DEF OpSettles
<1>2. o[2] \in Steps /\ o[1] \in {"completion", "permission", "tool"}
      /\ (o[1] = "tool" => o[3] \in DOMAIN ToolOf /\ o = <<"tool", o[2], o[3]>>)
  BY OpNames
<1>3. \A e : Posted(e) = Append(inbox, e)
  BY DEF Posted
<1>4. RestsEmpty /\ UnstartedEmpty /\ ResultsWait /\ SuccessIsWhole
      /\ (Recording => BatchRecords(batches[turn.step]))
  BY DEF RecordInv
<1>5. CASE o[1] # "tool"
  <2>1. /\ UNCHANGED <<batches, unreleased>>
        /\ \E e \in Submissions : e.kind \in {"completion", "permission"} /\ inbox' = Append(inbox, e)
    <3>1. CASE o[1] = "completion"
      <4>1. \E v \in {"answer", "tools", "failed", "cancelled"} :
              inbox' = Append(inbox, Settled("completion", o[2], v)) /\ UNCHANGED <<batches, unreleased>>
        BY <1>1, <1>3, <3>1 DEF Settlement, Final
      <4>2. \A v \in {"answer", "tools", "failed", "cancelled"} :
              Settled("completion", o[2], v) \in Submissions /\ Settled("completion", o[2], v).kind = "completion"
        BY <1>2 DEF Settled, Submissions, Settlements
      <4> QED BY <4>1, <4>2
    <3>2. CASE o[1] = "permission"
      <4>1. \E v \in Final :
              inbox' = Append(inbox, Settled("permission", o[2], v)) /\ UNCHANGED <<batches, unreleased>>
        BY <1>1, <1>3, <3>2 DEF Settlement, Final
      <4>2. \A v \in Final :
              Settled("permission", o[2], v) \in Submissions /\ Settled("permission", o[2], v).kind = "permission"
        BY <1>2 DEF Settled, Submissions, Settlements
      <4> QED BY <4>1, <4>2
    <3> QED BY <1>2, <1>5, <3>1, <3>2
  <2>2. PICK e \in Submissions : e.kind \in {"completion", "permission"} /\ inbox' = Append(inbox, e)
    BY <2>1
  <2>3. Waiting' \subseteq Waiting \cup {e}
    BY <1>0, <1>1, <2>2, WaitingChanges
  <2>4. \A x \in Waiting' : x \in Waiting \/ x.kind \notin {"tool", "batch"}
    BY <2>2, <2>3
  <2> QED BY <1>1, <2>1, <2>4, RecordKept
<1>6. CASE o[1] = "tool"
  <2>0. PICK s, c : s = o[2] /\ c = o[3]
    OBVIOUS
  <2>1. /\ inbox' = Append(inbox, ToolResult(s, c, r)) /\ UNCHANGED batches
        /\ unreleased' = unreleased \cup {[step |-> s, call |-> c, result |-> r]}
    BY <1>1, <1>3, <1>6, <2>0 DEF Settlement, Gated
  <2>2. PICK e \in Submissions : e = ToolResult(s, c, r)
    BY <1>2, <1>6, <2>0 DEF ToolResult, Submissions, Results, Outcomes, Final
  <2>3. e.kind = "tool" /\ e.step = s /\ e.call = c /\ e.result = r
    BY <2>2 DEF ToolResult
  <2>4. Waiting' \subseteq Waiting \cup {e}
    BY <1>0, <1>1, <2>1, <2>2, WaitingChanges
  <2>5. batches[s].status \in {"running", "settled"} /\ ~Done(s, c)
    BY <1>0, <1>2, <1>6, <2>0 DEF Spawning, Live, Done
  <2>6. \A p \in unreleased : ~(p.step = s /\ p.call = c)
    BY <1>0, <2>5 DEF Reporting
  <2>7. Successes' = Successes /\ CallSet' = CallSet /\ \A k : Recorded(k)' = Recorded(k)
    BY <1>1, SameRecord
  <2>8. \A t, k, x : Withheld(t, k, x) => Withheld(t, k, x)'
    BY <1>1, <2>1, <2>7 DEF Withheld
  <2>9. Withheld(s, c, r)'
    BY <2>1 DEF Withheld
  <2>10. ResultsWait'
    <3>1. \A p, q \in unreleased' : p.step = q.step /\ p.call = q.call => p = q
      BY <1>4, <2>1, <2>6 DEF ResultsWait
    <3>2. \A in \in Waiting' : in.kind = "tool" =>
           /\ batches'[in.step].status \in {"running", "settled"}
           /\ Withheld(in.step, in.call, in.result)'
      <4> SUFFICES ASSUME NEW in \in Waiting', in.kind = "tool"
                   PROVE  /\ batches'[in.step].status \in {"running", "settled"}
                          /\ Withheld(in.step, in.call, in.result)'
        OBVIOUS
      <4>1. CASE in \in Waiting
        BY <1>4, <2>1, <2>8, <4>1 DEF ResultsWait
      <4>2. CASE in = e
        BY <2>1, <2>3, <2>5, <2>9, <4>2
      <4> QED BY <2>4, <4>1, <4>2
    <3>3. \A t \in Steps : \A k \in batches'[t].refusing : Withheld(t, k, "refused")'
      BY <1>4, <2>1, <2>8 DEF ResultsWait
    <3> QED BY <3>1, <3>2, <3>3 DEF ResultsWait
  <2>11. RestsEmpty' /\ UnstartedEmpty' /\ Recording' = Recording
    BY <1>1, <1>4, <2>1 DEF RestsEmpty, UnstartedEmpty, Recording, NoResults
  <2>12. SuccessIsWhole'
    BY <1>1, <1>4, <2>3, <2>4, <2>7, <2>11 DEF SuccessIsWhole
  <2>13. Recording => BatchRecords(batches[turn.step])'
    BY <1>1, <1>4, <2>1, SameBatchRecords
  <2> QED BY <2>10, <2>11, <2>12, <2>13 DEF RecordInv
<1> QED BY <1>5, <1>6

\* A batch that starts has its refusals to report.
LEMMA RecordStarts ==
  ASSUME HostInv, RecordInv, mode.journaled, ~closed, NEW s \in Steps, BatchStarts(s)
  PROVE  RecordInv'
<1>0. HostType /\ Reporting /\ BatchInv(s) /\ batches[s].status = "ready"
      /\ batches \in [Steps -> BatchActors] /\ batches[s].inbox # << >>
  BY DEF HostInv, BatchStarts, HostType, Approving, Pending
<1>1. PICK b \in BatchActors :
        /\ batches' = [batches EXCEPT ![s] = b]
        /\ b.status = "running" /\ b.inbox = Tail(batches[s].inbox)
        /\ b.pending = batches[s].pending /\ b.results = batches[s].results
        /\ b.refusing = batches[s].refused
  BY <1>0, BatchGoesOn
<1>2. /\ UNCHANGED <<mode, turn, partial, inbox, writing, closed>> /\ Waiting' = Waiting
      /\ unreleased' = unreleased \cup
           {[step |-> s, call |-> c, result |-> "refused"] : c \in batches[s].refused}
  BY DEF BatchStarts, Waiting
<1>3. RestsEmpty /\ UnstartedEmpty /\ ResultsWait /\ SuccessIsWhole
      /\ (Recording => BatchRecords(batches[turn.step]))
  BY DEF RecordInv
<1>4. batches'[s] = b /\ \A t \in Steps : t # s => batches'[t] = batches[t]
  BY <1>0, <1>1
<1>5. /\ CallSet' = CallSet /\ Successes' = Successes
      /\ \A c : Recorded(c)' = Recorded(c)
  BY <1>2, SameRecord
<1>6. RestsEmpty' /\ UnstartedEmpty' /\ SuccessIsWhole' /\ Recording' = Recording
  <2>1. RestsEmpty' /\ Recording' = Recording
    BY <1>2, <1>3 DEF RestsEmpty, Recording, NoResults
  <2>2. UnstartedEmpty'
    BY <1>1, <1>3, <1>4 DEF UnstartedEmpty
  <2> QED BY <1>2, <1>3, <1>5, <2>1, <2>2 DEF SuccessIsWhole
<1>7. ResultsWait'
  <2>1. \A p \in unreleased : p.step # s
    BY <1>0 DEF Reporting
  <2>2. \A p, q \in unreleased' : p.step = q.step /\ p.call = q.call => p = q
    BY <1>2, <1>3, <2>1 DEF ResultsWait
  <2>3. \A t \in Steps : \A k, x : t # s /\ Withheld(t, k, x) => Withheld(t, k, x)'
    BY <1>2, <1>4, <1>5 DEF Withheld
  <2>4. \A x \in Waiting : x.kind = "tool" => x.step \in Steps
    BY <1>0, WaitingChanges DEF Submissions, Settlements, Results
  <2>5. ASSUME NEW in \in Waiting', in.kind = "tool"
        PROVE  /\ batches'[in.step].status \in {"running", "settled"}
               /\ Withheld(in.step, in.call, in.result)'
    <3>1. in \in Waiting /\ in.step \in Steps /\ in.step # s
      BY <1>0, <1>2, <1>3, <2>4, <2>5 DEF ResultsWait
    <3> QED BY <1>3, <1>4, <2>3, <2>5, <3>1 DEF ResultsWait
  <2>6. ASSUME NEW t \in Steps, NEW k \in batches'[t].refusing PROVE Withheld(t, k, "refused")'
    <3>1. CASE t = s
      <4>1. [step |-> s, call |-> k, result |-> "refused"] \in unreleased'
        BY <1>1, <1>2, <1>4, <2>6, <3>1
      <4> QED BY <3>1, <4>1 DEF Withheld
    <3>2. CASE t # s
      BY <1>3, <1>4, <2>3, <2>6, <3>2 DEF ResultsWait
    <3> QED BY <3>1, <3>2
  <2> QED BY <2>2, <2>5, <2>6 DEF ResultsWait
<1>8. ASSUME Recording PROVE BatchRecords(batches[turn.step])'
  <2>1. CASE turn.step # s
    <3>1. turn.step \in Steps
      BY <1>0, <1>8 DEF HostType, Recording, Idle
    <3>2. PICK n : n = batches[turn.step]
      OBVIOUS
    <3>3. BatchRecords(n)' /\ batches'[turn'.step] = n
      BY <1>2, <1>3, <1>4, <1>8, <2>1, <3>1, <3>2, SameBatchRecords
    <3> QED BY <3>3
  <2>2. CASE turn.step = s
    <3>1. partial = NoResults /\ Successes = {} /\ (turn.phase = "executing_tools" => ~Holds(batches[s], "cancel"))
      <4>1. partial = NoResults /\ (turn.phase = "executing_tools" => ~Holds(batches[s], "cancel"))
        BY <1>0, <1>3, <1>8, <2>2 DEF BatchRecords
      <4>2. \A k \in CallSet : ~Recorded(k)
        BY <1>0, <4>1, ModeType DEF NoResults, Recorded
      <4> QED BY <4>1, <4>2 DEF Successes, Recorded
    <3>2. b.results = {} /\ CallSet \subseteq b.pending
      BY <1>0, <1>1, <1>3 DEF UnstartedEmpty, BatchInv
    <3>3. \A i \in DOMAIN b.inbox : \E j \in DOMAIN batches[s].inbox : batches[s].inbox[j] = b.inbox[i]
      BY <1>0, <1>1, TakenFromBatch
    <3>4. \A i \in DOMAIN b.inbox : ~IsCount(b.inbox[i])
      BY <1>0, <3>3 DEF Reporting, IsCount
    <3>5. turn.phase = "executing_tools" => ~Holds(b, "cancel")
      BY <3>1, <3>3 DEF Holds
    <3>6. CountsRecorded(b)'
      <4>1. \A e : IsCount(e)' = IsCount(e)
        BY DEF IsCount
      <4>2. Successes' = {} /\ CallSet' \subseteq b.pending
        BY <1>5, <3>1, <3>2
      <4> QED BY <3>2, <3>4, <4>1, <4>2 DEF CountsRecorded
    <3>7. BatchRecords(b)'
      BY <1>1, <1>2, <3>5, <3>6 DEF BatchRecords
    <3> QED BY <1>2, <1>4, <2>2, <3>7
  <2> QED BY <2>1, <2>2
<1> QED BY <1>6, <1>7, <1>8 DEF RecordInv

\* A refusal is reported as it waits to be released.
LEMMA RecordRefuses ==
  ASSUME HostInv, RecordInv, mode.journaled, ~closed, NEW s \in Steps, NEW c \in DOMAIN ToolOf,
         RefusalReported(s, c)
  PROVE  RecordInv'
<1>0. HostType /\ batches \in [Steps -> BatchActors] /\ c \in batches[s].refusing
  BY DEF HostInv, RefusalReported, HostType
<1>1. /\ batches' = [batches EXCEPT ![s].refusing = @ \ {c}]
      /\ inbox' = Append(inbox, ToolResult(s, c, "refused"))
      /\ UNCHANGED <<mode, turn, partial, writing, closed, unreleased>>
  BY DEF RefusalReported, Posted
<1>2. RestsEmpty /\ UnstartedEmpty /\ ResultsWait /\ SuccessIsWhole
      /\ (Recording => BatchRecords(batches[turn.step]))
  BY DEF RecordInv
<1>3. PICK e \in Submissions : e = ToolResult(s, c, "refused")
  BY DEF ToolResult, Submissions, Results, Outcomes
<1>4. e.kind = "tool" /\ e.step = s /\ e.call = c /\ e.result = "refused"
  BY <1>3 DEF ToolResult
<1>5. Waiting' \subseteq Waiting \cup {e}
  BY <1>0, <1>1, <1>3, WaitingChanges
<1>6. PICK b : b = [batches[s] EXCEPT !.refusing = @ \ {c}]
  OBVIOUS
<1>7. /\ batches' = [batches EXCEPT ![s] = b]
      /\ b.status = batches[s].status /\ b.results = batches[s].results /\ b.inbox = batches[s].inbox
      /\ b.pending = batches[s].pending /\ b.refusing = batches[s].refusing \ {c}
  <2>1. batches[s] \in BatchActors
    BY <1>0
  <2> QED BY <1>1, <1>6, <2>1 DEF BatchActors
<1>8. batches'[s] = b /\ \A t \in Steps : t # s => batches'[t] = batches[t]
  BY <1>0, <1>7
<1>9. /\ CallSet' = CallSet /\ Successes' = Successes
      /\ \A k : Recorded(k)' = Recorded(k)
  BY <1>1, SameRecord
<1>10. RestsEmpty' /\ UnstartedEmpty' /\ SuccessIsWhole' /\ Recording' = Recording
  <2>1. RestsEmpty' /\ Recording' = Recording
    BY <1>1, <1>2 DEF RestsEmpty, Recording, NoResults
  <2>2. UnstartedEmpty'
    BY <1>2, <1>7, <1>8 DEF UnstartedEmpty
  <2> QED BY <1>1, <1>2, <1>4, <1>5, <1>9, <2>1, <2>2 DEF SuccessIsWhole
<1>11. ResultsWait'
  <2>1. \A t \in Steps : \A k, x : Withheld(t, k, x) => Withheld(t, k, x)'
    BY <1>1, <1>7, <1>8, <1>9 DEF Withheld
  <2>2. \A x \in Waiting : x.kind = "tool" => x.step \in Steps
    BY <1>0, WaitingChanges DEF Submissions, Settlements, Results
  <2>3. \A t \in Steps : batches'[t].status = batches[t].status
    BY <1>7, <1>8
  <2>4. batches[s].status \in {"running", "settled"} /\ Withheld(s, c, "refused")
    <3>1. batches[s].status \in {"none", "ready", "running", "settled"}
      BY <1>0 DEF BatchActors
    <3> QED BY <1>0, <1>2, <3>1 DEF UnstartedEmpty, ResultsWait
  <2>5. ASSUME NEW in \in Waiting', in.kind = "tool"
        PROVE  /\ batches'[in.step].status \in {"running", "settled"}
               /\ Withheld(in.step, in.call, in.result)'
    <3>1. CASE in \in Waiting
      BY <1>2, <2>1, <2>2, <2>3, <2>5, <3>1 DEF ResultsWait
    <3>2. CASE in = e
      BY <1>4, <2>1, <2>3, <2>4, <3>2
    <3> QED BY <1>5, <3>1, <3>2
  <2>6. ASSUME NEW t \in Steps, NEW k \in batches'[t].refusing PROVE Withheld(t, k, "refused")'
    BY <1>2, <1>7, <1>8, <2>1, <2>6 DEF ResultsWait
  <2> QED BY <1>1, <1>2, <2>5, <2>6 DEF ResultsWait
<1>12. ASSUME Recording PROVE BatchRecords(batches[turn.step])'
  <2>1. turn.step \in Steps
    BY <1>0, <1>12 DEF HostType, Recording, Idle
  <2>2. PICK n : n = batches'[turn.step]
    OBVIOUS
  <2>3. PICK a : a = batches[turn.step]
    OBVIOUS
  <2>4. n.status = a.status /\ n.results = a.results /\ n.inbox = a.inbox /\ n.pending = a.pending
    BY <1>7, <1>8, <2>1, <2>2, <2>3
  <2>5. BatchRecords(a)'
    BY <1>1, <1>2, <1>12, <2>3, SameBatchRecords
  <2>6. BatchRecords(n)'
    BY <2>4, <2>5 DEF BatchRecords, CountsRecorded, CountedAll, Holds
  <2> QED BY <1>1, <2>2, <2>6
<1> QED BY <1>10, <1>11, <1>12 DEF RecordInv

\* A batch counts an outcome that was recorded.
LEMMA RecordCounts ==
  ASSUME HostInv, RecordInv, mode.journaled, ~closed, NEW s \in Steps, BatchCounts(s)
  PROVE  RecordInv'
<1>0. HostType /\ batches \in [Steps -> BatchActors] /\ BatchInv(s)
  BY DEF HostInv, HostType, Approving
<1> PICK c : c = Head(batches[s].inbox).call
  OBVIOUS
<1>1. PICK b \in BatchActors :
        /\ batches' = [batches EXCEPT ![s] = b]
        /\ b.status = "running" /\ b.inbox = Tail(batches[s].inbox)
        /\ b.pending = batches[s].pending \ {c} /\ b.results = batches[s].results \cup {c}
        /\ b.refusing = batches[s].refusing
        /\ c \in batches[s].pending /\ batches[s].status = "running"
        /\ batches[s].inbox # << >> /\ Head(batches[s].inbox).type = "tool_settled"
  BY <1>0, BatchGoesOn
<1>2. /\ UNCHANGED <<mode, turn, partial, unreleased, closed>> /\ Waiting' = Waiting
      /\ Head(batches[s].inbox).result = "succeeded"
  BY DEF BatchCounts, hostVars, Waiting
<1>3. RestsEmpty /\ UnstartedEmpty /\ ResultsWait /\ SuccessIsWhole
      /\ (Recording => BatchRecords(batches[turn.step]))
  BY DEF RecordInv
<1>4. batches'[s] = b /\ \A t \in Steps : t # s => batches'[t] = batches[t]
  BY <1>0, <1>1
<1>5. /\ CallSet' = CallSet /\ Successes' = Successes
      /\ (\A k : Recorded(k)' = Recorded(k)) /\ (\A r : Counts(r)' = Counts(r))
      /\ \A e : Breaks(e)' = Breaks(e)
  BY <1>2, SameRecord
<1>6. RestsEmpty' /\ UnstartedEmpty' /\ SuccessIsWhole' /\ Recording' = Recording
  <2>1. RestsEmpty' /\ Recording' = Recording
    BY <1>2, <1>3 DEF RestsEmpty, Recording, NoResults
  <2>2. UnstartedEmpty'
    BY <1>1, <1>3, <1>4 DEF UnstartedEmpty
  <2> QED BY <1>2, <1>3, <1>5, <2>1, <2>2 DEF SuccessIsWhole
<1>7. ResultsWait'
  <2>1. \A t \in Steps : \A k, x : Withheld(t, k, x) => Withheld(t, k, x)'
    BY <1>1, <1>2, <1>4, <1>5 DEF Withheld
  <2>2. \A x \in Waiting : x.kind = "tool" => x.step \in Steps
    BY <1>0, WaitingChanges DEF Submissions, Settlements, Results
  <2>3. \A t \in Steps : batches'[t].status = batches[t].status /\ batches'[t].refusing = batches[t].refusing
    BY <1>1, <1>4
  <2> QED BY <1>2, <1>3, <2>1, <2>2, <2>3 DEF ResultsWait
<1>8. ASSUME Recording PROVE BatchRecords(batches[turn.step])'
  <2>0. turn.step \in Steps
    BY <1>0, <1>8 DEF HostType, Recording, Idle
  <2>1. CASE turn.step # s
    <3>2. PICK n : n = batches[turn.step]
      OBVIOUS
    <3>3. BatchRecords(n)' /\ batches'[turn'.step] = n
      BY <1>2, <1>3, <1>4, <1>8, <2>0, <2>1, <3>2, SameBatchRecords
    <3> QED BY <3>3
  <2>2. CASE turn.step = s
    <3>0. PICK a : a = batches[s]
      OBVIOUS
    <3>1. CountsRecorded(a) /\ (turn.phase = "executing_tools" => ~Holds(a, "cancel"))
      BY <1>1, <1>3, <1>8, <2>2, <3>0 DEF BatchRecords
    <3>2. /\ Head(a.inbox) = a.inbox[1] /\ 1 \in DOMAIN a.inbox
          /\ \A i \in DOMAIN b.inbox : i \in Nat /\ i + 1 \in DOMAIN a.inbox /\ i + 1 # 1 /\ b.inbox[i] = a.inbox[i + 1]
          /\ \A i \in DOMAIN a.inbox : i # 1 => i - 1 \in DOMAIN b.inbox /\ b.inbox[i - 1] = a.inbox[i]
          /\ \A i \in DOMAIN a.inbox : i \in Nat \ {0} /\ \A j \in 1..i : j \in DOMAIN a.inbox
      <4>1. a.inbox \in Seq([type : {"start", "cancel"}] \cup Counteds) /\ a.inbox # << >>
        BY <1>0, <1>1, <3>0 DEF BatchActors
      <4>2. PICK M : M = [type : {"start", "cancel"}] \cup Counteds
        OBVIOUS
      <4>3. a.inbox \in Seq(M) /\ a.inbox # << >> /\ b.inbox = Tail(a.inbox)
        BY <1>1, <3>0, <4>1, <4>2
      <4>4. \A i \in DOMAIN a.inbox : i \in Nat \ {0} /\ \A j \in 1..i : j \in DOMAIN a.inbox
        BY <4>3
      <4> QED BY <4>3, <4>4, Beheaded
    <3>3. IsCount(a.inbox[1]) /\ a.inbox[1].call = c /\ a.inbox[1].result = "succeeded"
      BY <1>1, <1>2, <3>0, <3>2 DEF IsCount
    <3>4. c \in Successes
      <4>1. Recorded(c) /\ Counts(partial[c]) = "succeeded"
        BY <3>1, <3>2, <3>3 DEF CountsRecorded
      <4>2. c \in CallSet
        BY <1>0, <1>1 DEF BatchInv
      <4> QED BY <4>1, <4>2 DEF Successes, Recorded
    <3>5. turn.phase = "executing_tools" => ~Holds(b, "cancel")
      BY <3>1, <3>2 DEF Holds
    <3>6. \A i \in DOMAIN b.inbox : IsCount(b.inbox[i]) =>
            Recorded(b.inbox[i].call) /\ b.inbox[i].result = Counts(partial[b.inbox[i].call])
      BY <3>1, <3>2 DEF CountsRecorded
    <3>7. ASSUME NEW k \in Successes \ b.results
          PROVE  \E i \in DOMAIN b.inbox : /\ IsCount(b.inbox[i]) /\ b.inbox[i].call = k
                                           /\ \A j \in 1..(i - 1) : ~Breaks(b.inbox[j])
      <4>1. k # c /\ k \in Successes \ a.results
        BY <1>1, <3>0, <3>7
      <4>2. PICK i \in DOMAIN a.inbox : /\ IsCount(a.inbox[i]) /\ a.inbox[i].call = k
                                        /\ \A j \in 1..(i - 1) : ~Breaks(a.inbox[j])
        BY <3>1, <4>1 DEF CountsRecorded
      <4>3. i # 1 /\ i \in Nat
        BY <3>2, <3>3, <4>1, <4>2
      <4>4. i - 1 \in DOMAIN b.inbox /\ b.inbox[i - 1] = a.inbox[i]
        BY <3>2, <4>2, <4>3
      <4>5. ASSUME NEW j \in 1..((i - 1) - 1) PROVE ~Breaks(b.inbox[j])
        <5>1. j + 1 \in 1..(i - 1) /\ j + 1 \in DOMAIN a.inbox /\ j + 1 # 1 /\ (j + 1) - 1 = j
          BY <3>2, <4>2, <4>3
        <5> QED BY <3>2, <4>2, <5>1
      <4> QED BY <4>2, <4>4, <4>5
    <3>8. b.results \subseteq Successes /\ CallSet \subseteq b.results \cup b.pending
      BY <1>1, <3>0, <3>1, <3>4 DEF CountsRecorded
    <3>9. CountsRecorded(b)
      BY <3>6, <3>7, <3>8 DEF CountsRecorded
    <3>10. BatchRecords(b)
      BY <1>1, <3>5, <3>9 DEF BatchRecords
    <3>11. BatchRecords(b)'
      BY <1>2, <3>10, SameBatchRecords
    <3> QED BY <1>2, <1>4, <2>2, <3>11
  <2> QED BY <2>1, <2>2
<1> QED BY <1>6, <1>7, <1>8 DEF RecordInv

\* A batch that settles has counted what was recorded.
LEMMA RecordSettled ==
  ASSUME HostInv, RecordInv, mode.journaled, ~closed, NEW s \in Steps,
         NEW outcome \in Final, NEW results \in SUBSET DOMAIN ToolOf, BatchEnds(s, outcome, results),
         batches[s].status \in {"ready", "running"},
         Recording /\ turn.step = s =>
           /\ results = Successes
           /\ turn.phase = "executing_tools" =>
                \/ \E c \in CallSet : Recorded(c) /\ c \notin Successes
                \/ \A c \in CallSet : Recorded(c)
           /\ outcome = "succeeded" => Successes = CallSet
  PROVE  RecordInv'
<1>0. HostType /\ batches \in [Steps -> BatchActors]
  BY DEF HostInv, HostType
<1>1. PICK b : b = Settles(s, results)
  OBVIOUS
<1>2. /\ b.status = "settled" /\ b.results = results /\ b.refusing = batches[s].refusing
      /\ batches' = [batches EXCEPT ![s] = b]
  BY <1>0, <1>1, BatchEndTypes
<1>3. PICK e \in Submissions : e = Settled("batch", s, outcome) /\ inbox' = Append(inbox, e)
  BY <1>0, BatchEndTypes DEF Posted
<1>4. e.kind = "batch" /\ e.step = s /\ e.result = outcome
  BY <1>3 DEF Settled
<1>5. /\ UNCHANGED <<mode, turn, partial, writing, closed>>
      /\ unreleased' = {p \in unreleased : p.step # s}
  BY DEF BatchEnds
<1>6. Waiting' \subseteq Waiting \cup {e}
  BY <1>0, <1>3, <1>5, WaitingChanges
<1>7. RestsEmpty /\ UnstartedEmpty /\ ResultsWait /\ SuccessIsWhole
      /\ (Recording => BatchRecords(batches[turn.step]))
  BY DEF RecordInv
<1>8. batches'[s] = b /\ \A t \in Steps : t # s => batches'[t] = batches[t]
  BY <1>0, <1>2
<1>9. /\ CallSet' = CallSet /\ Successes' = Successes
      /\ (\A k : Recorded(k)' = Recorded(k))
  BY <1>5, SameRecord
<1>10. RestsEmpty' /\ UnstartedEmpty' /\ SuccessIsWhole' /\ Recording' = Recording
  <2>1. RestsEmpty' /\ Recording' = Recording
    BY <1>5, <1>7 DEF RestsEmpty, Recording, NoResults
  <2>2. UnstartedEmpty'
    BY <1>2, <1>7, <1>8 DEF UnstartedEmpty
  <2> QED BY <1>4, <1>5, <1>6, <1>7, <1>9, <2>1, <2>2 DEF SuccessIsWhole
<1>11. ResultsWait'
  <2>1. ASSUME NEW t \in Steps, NEW k, NEW x, Withheld(t, k, x)
        PROVE  Withheld(t, k, x)'
    <3>1. CASE t = s
      BY <1>2, <1>8, <3>1 DEF Withheld
    <3>2. CASE t # s
      BY <1>5, <1>8, <1>9, <2>1, <3>2 DEF Withheld
    <3> QED BY <3>1, <3>2
  <2>2. \A x \in Waiting : x.kind = "tool" => x.step \in Steps
    BY <1>0, WaitingChanges DEF Submissions, Settlements, Results
  <2>3. \A t \in Steps : batches'[t].refusing = batches[t].refusing
          /\ (batches[t].status \in {"running", "settled"} => batches'[t].status \in {"running", "settled"})
    BY <1>2, <1>8
  <2>4. \A x \in Waiting' : x.kind = "tool" => x \in Waiting
    BY <1>4, <1>6
  <2>5. \A p, q \in unreleased' : p.step = q.step /\ p.call = q.call => p = q
    BY <1>5, <1>7 DEF ResultsWait
  <2> QED BY <1>7, <2>1, <2>2, <2>3, <2>4, <2>5 DEF ResultsWait
<1>12. ASSUME Recording PROVE BatchRecords(batches[turn.step])'
  <2>0. turn.step \in Steps
    BY <1>0, <1>12 DEF HostType, Recording, Idle
  <2>1. CASE turn.step # s
    <3>2. PICK n : n = batches[turn.step]
      OBVIOUS
    <3>3. BatchRecords(n)' /\ batches'[turn'.step] = n
      BY <1>5, <1>7, <1>8, <1>12, <2>0, <2>1, <3>2, SameBatchRecords
    <3> QED BY <3>3
  <2>2. CASE turn.step = s
    <3>1. CountedAll(b)
      BY <1>2, <1>12, <2>2 DEF CountedAll
    <3>2. BatchRecords(b)
      BY <1>2, <3>1 DEF BatchRecords
    <3>3. BatchRecords(b)'
      BY <1>5, <3>2, SameBatchRecords
    <3> QED BY <1>5, <1>8, <2>2, <3>3
  <2> QED BY <2>1, <2>2
<1> QED BY <1>10, <1>11, <1>12 DEF RecordInv

\* A batch that is cancelled has counted every success its turn recorded.
LEMMA RecordCancelled ==
  ASSUME HostInv, RecordInv, mode.journaled, ~closed, NEW s \in Steps, BatchCancelled(s)
  PROVE  RecordInv'
<1>0. HostType /\ batches \in [Steps -> BatchActors]
  BY DEF HostInv, HostType
<1>1. PICK b \in BatchActors : b = batches[s]
  BY <1>0
<1>2. /\ b.status \in {"ready", "running"} /\ b.inbox # << >> /\ Head(b.inbox).type = "cancel"
      /\ BatchEnds(s, "cancelled", b.results) /\ b.results \in SUBSET DOMAIN ToolOf
  BY <1>1 DEF BatchCancelled, Pending, BatchActors
<1>3. 1 \in DOMAIN b.inbox /\ b.inbox[1].type = "cancel"
      /\ \A i \in DOMAIN b.inbox : i = 1 \/ 1 \in 1..(i - 1)
  <2>1. Head(b.inbox) = b.inbox[1] /\ 1 \in DOMAIN b.inbox
    BY <1>0, <1>1, <1>2, BatchChanges
  <2>2. b.inbox \in Seq([type : {"start", "cancel"}] \cup Counteds)
    BY DEF BatchActors
  <2>3. DOMAIN b.inbox \subseteq Nat \ {0}
    BY <2>2
  <2> QED BY <1>2, <2>1, <2>3
<1>4. UnstartedEmpty /\ (Recording => BatchRecords(batches[turn.step]))
  BY DEF RecordInv
<1>5. ASSUME Recording, turn.step = s
      PROVE  b.results = Successes /\ turn.phase # "executing_tools"
  <2>1. BatchRecords(b) /\ turn.phase # "executing_tools"
    BY <1>1, <1>2, <1>3, <1>4, <1>5 DEF BatchRecords, Holds
  <2>2. CASE b.status = "ready"
    <3>1. partial = NoResults /\ b.results = {}
      BY <1>1, <1>4, <2>1, <2>2 DEF BatchRecords, UnstartedEmpty
    <3>2. \A k \in CallSet : ~Recorded(k)
      BY <1>0, <3>1, ModeType DEF NoResults, Recorded
    <3> QED BY <2>1, <3>1, <3>2 DEF Successes, Recorded
  <2>3. CASE b.status = "running"
    <3>1. CountsRecorded(b)
      BY <2>1, <2>3 DEF BatchRecords
    <3>2. ASSUME NEW c \in Successes \ b.results PROVE FALSE
      <4>1. PICK i \in DOMAIN b.inbox : /\ IsCount(b.inbox[i])
                                        /\ \A j \in 1..(i - 1) : ~Breaks(b.inbox[j])
        BY <3>1, <3>2 DEF CountsRecorded
      <4> QED BY <1>3, <4>1 DEF IsCount, Breaks
    <3> QED BY <2>1, <3>1, <3>2 DEF CountsRecorded
  <2> QED BY <1>2, <2>2, <2>3
<1> QED BY <1>1, <1>2, <1>5, RecordSettled DEF Final

\* A batch that settles by an outcome it counts has counted every success.
LEMMA RecordSettlesBatch ==
  ASSUME HostInv, RecordInv, mode.journaled, ~closed, NEW s \in Steps, BatchSettles(s)
  PROVE  RecordInv'
<1>0. HostType /\ batches \in [Steps -> BatchActors] /\ BatchInv(s)
  BY DEF HostInv, HostType, Approving
<1>1. PICK b \in BatchActors : b = batches[s]
  BY <1>0
<1>2. PICK e : e = Head(b.inbox)
  OBVIOUS
<1>3. b.status = "running" /\ b.inbox # << >> /\ e.type = "tool_settled" /\ e.call \in b.pending
  BY <1>1, <1>2 DEF BatchSettles, Counting, Pending
<1>4. /\ e = b.inbox[1] /\ 1 \in DOMAIN b.inbox /\ e \in [type : {"start", "cancel"}] \cup Counteds
      /\ \A i \in DOMAIN b.inbox : i = 1 \/ 1 \in 1..(i - 1)
  <2>1. Head(b.inbox) = b.inbox[1] /\ 1 \in DOMAIN b.inbox
        /\ Head(b.inbox) \in [type : {"start", "cancel"}] \cup Counteds
    BY <1>0, <1>1, <1>3, BatchChanges
  <2>2. b.inbox \in Seq([type : {"start", "cancel"}] \cup Counteds)
    BY DEF BatchActors
  <2>3. DOMAIN b.inbox \subseteq Nat \ {0}
    BY <2>2
  <2> QED BY <1>2, <2>1, <2>3
<1>5. e.result \in Final /\ e.call \in DOMAIN ToolOf /\ e.call \in CallSet
      /\ b.results \in SUBSET DOMAIN ToolOf
  <2>1. e \in Counteds
    BY <1>3, <1>4
  <2>2. e.call \in CallSet
    BY <1>0, <1>1, <1>3 DEF BatchInv
  <2> QED BY <2>1, <2>2 DEF Counteds, BatchActors
<1>6. \/ e.result = "succeeded" /\ b.pending = {e.call} /\ BatchEnds(s, "succeeded", b.results \cup {e.call})
      \/ e.result # "succeeded" /\ BatchEnds(s, e.result, b.results)
  BY <1>1, <1>2 DEF BatchSettles
<1>7. ASSUME Recording, turn.step = s
      PROVE  /\ CountsRecorded(b) /\ Recorded(e.call) /\ Counts(partial[e.call]) = e.result
             /\ e.call \in Successes <=> e.result = "succeeded"
  <2>1. CountsRecorded(b)
    BY <1>1, <1>3, <1>7 DEF RecordInv, BatchRecords
  <2>2. IsCount(b.inbox[1])
    BY <1>3, <1>4 DEF IsCount
  <2>3. Recorded(e.call) /\ Counts(partial[e.call]) = e.result
    BY <1>4, <2>1, <2>2 DEF CountsRecorded
  <2> QED BY <1>5, <2>1, <2>3 DEF Successes, Recorded
<1>8. CASE e.result = "succeeded"
  <2>1. b.pending = {e.call} /\ BatchEnds(s, "succeeded", b.results \cup {e.call})
    BY <1>6, <1>8
  <2>2. ASSUME Recording, turn.step = s
        PROVE  b.results \cup {e.call} = Successes /\ Successes = CallSet
               /\ \A c \in CallSet : Recorded(c)
    <3>1. b.results \subseteq Successes /\ CallSet \subseteq b.results \cup {e.call} /\ e.call \in Successes
      BY <1>7, <1>8, <2>1, <2>2 DEF CountsRecorded
    <3>2. Successes \subseteq CallSet /\ \A c \in Successes : Recorded(c)
      BY DEF Successes, Recorded
    <3> QED BY <3>1, <3>2
  <2>3. b.results \cup {e.call} \in SUBSET DOMAIN ToolOf /\ "succeeded" \in Final
    BY <1>5 DEF Final
  <2>4. PICK r : r = b.results \cup {e.call}
    OBVIOUS
  <2> QED BY <1>1, <1>3, <2>1, <2>2, <2>3, <2>4, RecordSettled
<1>9. CASE e.result # "succeeded"
  <2>1. BatchEnds(s, e.result, b.results)
    BY <1>6, <1>9
  <2>2. ASSUME Recording, turn.step = s
        PROVE  b.results = Successes /\ e.call \in CallSet /\ Recorded(e.call) /\ e.call \notin Successes
    <3>1. CountsRecorded(b) /\ Recorded(e.call) /\ e.call \notin Successes
      BY <1>7, <1>9, <2>2
    <3>2. Breaks(b.inbox[1])
      BY <1>3, <1>4, <1>5, <1>9 DEF Breaks, IsCount
    <3>3. ASSUME NEW c \in Successes \ b.results PROVE FALSE
      <4>1. PICK i \in DOMAIN b.inbox : /\ IsCount(b.inbox[i]) /\ b.inbox[i].call = c
                                        /\ \A j \in 1..(i - 1) : ~Breaks(b.inbox[j])
        BY <3>1, <3>3 DEF CountsRecorded
      <4> QED BY <1>4, <3>1, <3>2, <3>3, <4>1
    <3> QED BY <1>5, <3>1, <3>3 DEF CountsRecorded
  <2> QED BY <1>1, <1>3, <1>5, <1>9, <2>1, <2>2, RecordSettled
<1> QED BY <1>8, <1>9

\* Every step of a journaled host keeps its records and its batches together.
LEMMA RecordStep ==
  ASSUME HostInv, RecordInv, [Next]_vars
  PROVE  RecordInv'
<1>1. HostType /\ Appending
  BY DEF HostInv
<1>2. mode' = mode /\ (closed => closed')
  <2>1. CASE Session \/ SessionEnds
    BY <2>1 DEF Session, SessionIgnores, RuntimeActs, SessionAppends, SessionCommits, SessionEnds, Closes
  <2>5. CASE ResetPermissions \/ Prompts \/ BargesIn \/ Aborts
    BY <2>5 DEF ResetPermissions, Prompts, BargesIn, Aborts
  <2>6. CASE UNCHANGED vars
    BY <2>6 DEF vars
  <2>2. ASSUME NEW o \in Ops, OpStep(o) \/ DeadlineFires(o) \/ WorkSucceeds(o) \/ WorkFails(o)
        PROVE  mode' = mode /\ closed' = closed
    BY <2>2 DEF hostVars, OpStep, OpAdvances, OpSettles, DeadlineFires, WorkSucceeds, WorkFails
  <2>3. ASSUME NEW s \in Steps,
               Requesting(s) \/ UserDecides(s) \/ RequestRejectsInput(s) \/ RequestBreaks(s)
        PROVE  mode' = mode /\ closed' = closed
    BY <2>3 DEF hostVars, Requesting, UserDecides, RequestValidates, RequestReturns, RequestStops,
                UserAllows, UserRejects, UserDismisses, RequestRejectsInput, RequestBreaks
  <2>4. ASSUME NEW s \in Steps, BatchStep(s) PROVE mode' = mode /\ closed' = closed
    BY <2>4 DEF hostVars, BatchStep, BatchStarts, BatchCancelled, BatchCounts, BatchSettles, BatchEnds,
                RefusalReported
  <2> QED BY <2>1, <2>2, <2>3, <2>4, <2>5, <2>6 DEF Next
<1>3. CASE ~mode.journaled \/ closed \/ closed'
  BY <1>2, <1>3 DEF RecordInv
<1> SUFFICES ASSUME mode.journaled, ~closed, ~closed'
             PROVE  RecordInv'
  BY <1>3
<1>4. CASE SessionIgnores \/ SessionAppends
  <2>1. SessionAppends => Stageable(Head(inbox))
    BY DEF SessionAppends, Closes
  <2>2. inbox # << >> /\ inbox' = Tail(inbox) /\ writing' \subseteq writing \cup {Head(inbox)}
    BY <1>4, <2>1 DEF SessionIgnores, SessionAppends
  <2>3. Waiting' \subseteq Waiting
    BY <1>1, <2>2, WaitingChanges
  <2>4. UNCHANGED <<mode, turn, partial, unreleased, batches, closed>>
    BY <1>4, <2>1 DEF SessionIgnores, SessionAppends, hostVars
  <2> QED BY <2>3, <2>4, RecordKept
<1>5. CASE Prompts \/ BargesIn \/ Aborts
  <2>1. PICK kind \in {"user", "abort"} : inbox' = Append(inbox, [kind |-> kind]) /\ writing' = writing
    BY <1>5 DEF Prompts, BargesIn, Aborts, Says
  <2>2. [kind |-> kind] \in Submissions
    BY DEF Submissions
  <2>3. Waiting' \subseteq Waiting \cup {[kind |-> kind]}
    BY <1>1, <2>1, <2>2, WaitingChanges
  <2>4. UNCHANGED <<mode, turn, partial, unreleased, batches, closed>>
    BY <1>5 DEF Prompts, BargesIn, Aborts, hostVars
  <2> QED BY <2>3, <2>4, RecordKept
<1>6. CASE UNCHANGED <<mode, turn, partial, unreleased, batches, closed, inbox, writing>>
  BY <1>6, RecordKept DEF Waiting
<1>7. CASE SessionCommits
  <2>1. PICK in \in writing : Acts(in) /\ inbox' = inbox \o Thrown(in)
    BY <1>7 DEF SessionCommits
  <2>2. writing' = {} /\ UNCHANGED <<mode, closed>>
    BY <1>7 DEF SessionCommits
  <2>3. in \in Waiting /\ in \in Submissions /\ Accepts(in)
    BY <1>1, <2>1, WaitingChanges DEF Appending, Waiting
  <2>4. Thrown(in) \in Seq(Submissions)
    BY <1>1, <2>3, ThrownType
  <2>5. \A x \in Waiting' : x \in Waiting \/ \E i \in DOMAIN Thrown(in) : x = Thrown(in)[i]
    BY <1>1, <2>1, <2>2, <2>4, WaitingChanges
  <2>6. \A i \in DOMAIN Thrown(in) : Thrown(in)[i].kind = "failed"
    BY DEF Thrown, Settled
  <2>7. \A x \in Waiting' : x \in Waiting \/ x.kind = "failed"
    BY <2>5, <2>6
  <2> QED BY <2>1, <2>2, <2>3, <2>7, RecordActs
<1>8. ASSUME NEW o \in Ops, OpStep(o) \/ DeadlineFires(o) \/ WorkSucceeds(o) \/ WorkFails(o)
      PROVE  RecordInv'
  BY <1>6, <1>8, RecordSettles DEF OpStep, OpAdvances, DeadlineFires, WorkSucceeds, WorkFails, hostVars
<1>9. ASSUME NEW s \in Steps,
             Requesting(s) \/ UserDecides(s) \/ RequestRejectsInput(s) \/ RequestBreaks(s)
      PROVE  RecordInv'
  BY <1>6, <1>9 DEF Requesting, UserDecides, RequestValidates, RequestReturns, RequestStops,
                    UserAllows, UserRejects, UserDismisses, RequestRejectsInput, RequestBreaks, hostVars
<1>10. ASSUME NEW s \in Steps, BatchStep(s) PROVE RecordInv'
  BY <1>10, RecordStarts, RecordCancelled, RecordCounts, RecordSettlesBatch, RecordRefuses DEF BatchStep
<1>11. CASE ResetPermissions \/ UNCHANGED vars
  BY <1>6, <1>11 DEF ResetPermissions, vars
<1>12. CASE SessionEnds \/ RuntimeActs
  BY <1>12 DEF SessionEnds, Closes, RuntimeActs
<1> QED BY <1>4, <1>5, <1>7, <1>8, <1>9, <1>10, <1>11, <1>12 DEF Next, Session

\* A host begins with nothing recorded.
LEMMA RecordStartsEmpty ==
  ASSUME Init
  PROVE  RecordInv
<1>1. /\ partial = NoResults /\ turn.phase = "idle" /\ unreleased = {} /\ inbox = << >> /\ writing = {}
      /\ \A s \in Steps : batches[s] = NoBatch
  BY DEF Init
<1>2. NoBatch.results = {} /\ NoBatch.refusing = {}
  BY DEF NoBatch
<1>3. Waiting = {} /\ ~Recording
  BY <1>1 DEF Waiting, Recording
<1> QED BY <1>1, <1>2, <1>3 DEF RecordInv, RestsEmpty, UnstartedEmpty, ResultsWait, SuccessIsWhole

\* In every state of a host a batch has counted what its session recorded, or the
\* outcome it lacks is on its way to it (instance.ts sink.tool, session-commands.ts
\* releaseCommitted, host.ts releaseTool, tool-batch.ts).
THEOREM RecordsSafe == Spec => []RecordInv
<1>1. Init => RecordInv
  BY RecordStartsEmpty
<1>2. HostInv /\ RecordInv /\ [Next]_vars => RecordInv'
  BY RecordStep
<1> QED BY <1>1, <1>2, HostSafe, PTL DEF Spec

\* Whatever is refused, fails, is cancelled or reported late, a journaled batch that
\* settles has counted the successes its session recorded, and one that reports success
\* finds every result of its step recorded (instance.ts sink.tool, session-commands.ts
\* releaseCommitted, host.ts releaseTool).
THEOREM BatchesFollowJournal == Spec => []BatchFollowsJournal
<1>1. HostInv /\ RecordInv => BatchFollowsJournal
  <2> SUFFICES ASSUME HostInv, RecordInv, mode.journaled, ~closed, NEW s \in Steps
               PROVE  /\ s = turn.step /\ turn.phase \in {"executing_tools", "cancelling_tools"} =>
                           /\ batches[s].results \subseteq Successes
                           /\ batches[s].status = "settled" => batches[s].results = Successes
                      /\ \A i \in DOMAIN inbox : i = 1 /\ writing = {} /\ Accepts(inbox[i]) => Stageable(inbox[i])
    BY DEF BatchFollowsJournal
  <2>1. UnstartedEmpty /\ SuccessIsWhole /\ (Recording => BatchRecords(batches[turn.step]))
    BY DEF RecordInv
  <2>2. ASSUME s = turn.step, Recording
        PROVE  /\ batches[s].results \subseteq Successes
               /\ batches[s].status = "settled" => batches[s].results = Successes
    <3>1. batches[s].status \in {"none", "ready", "running", "settled"}
      BY DEF HostInv, HostType, BatchActors
    <3> QED BY <2>1, <2>2, <3>1 DEF UnstartedEmpty, BatchRecords, CountsRecorded, CountedAll
  <2>3. ASSUME NEW i \in DOMAIN inbox, Accepts(inbox[i]) PROVE Stageable(inbox[i])
    <3>1. PICK in \in Waiting : in = inbox[i]
      BY DEF Waiting
    <3>2. ASSUME in.kind = "batch" PROVE in.step = turn.step /\ Recording
      <4>1. ~Idle /\ in.step = turn.step /\ KindOf(turn.phase) = "batch"
        BY <2>3, <3>1, <3>2 DEF Accepts
      <4>2. turn.phase \in Phases
        BY DEF HostInv, HostType
      <4> QED BY <4>1, <4>2 DEF Phases, KindOf, Idle, Recording
    <3> QED BY <2>1, <3>1, <3>2 DEF Stageable, SuccessIsWhole
  <2> QED BY <2>2, <2>3 DEF Recording
<1> QED BY <1>1, HostSafe, RecordsSafe, PTL
==============================================================================

------------------------------ MODULE SideProofs ------------------------------
(***************************************************************************)
(* The parts beside a session keep their promises, for every value of the  *)
(* constants: what is under way in each of them in every state, that it    *)
(* holds at the start and is kept by every step, and last the theorems     *)
(* about the whole.  The extension's sessions are in EditorProofs.         *)
(***************************************************************************)
EXTENDS SideParts, FiniteSetTheorems, SequenceTheorems, WellFoundedInduction, TLAPS

-----------------------------------------------------------------------------
\* Branches.  A turn runs exactly while one that began has not ended; inputs on their way
\* and journaled are among those that were sent.
Running(s) ==
  \E j \in DOMAIN s : s[j] = "user" /\ \A k \in DOMAIN s : k > j => s[k] # "end"

UsersOf(s) == {i \in DOMAIN s : s[i] = "user"}

TurnsInv ==
  /\ turnRuns <=> Running(journaled)
  /\ Branching!Begun(Len(journaled)) = Branching!Turns(journaled) + (IF turnRuns THEN 1 ELSE 0)
  /\ Cardinality(UsersOf(journaled)) + Cardinality(UsersOf(line)) <= inputs
  /\ \A i \in DOMAIN line : line[i] = "end" => turnRuns

\* A turn's end and a request are submitted once, and a request nowhere else meanwhile.
LineInv ==
  /\ \A i, k \in DOMAIN line : line[i] = line[k] /\ line[i] \notin {"user", "adopt"} => i = k
  /\ \A i \in DOMAIN line : line[i] \in Branch => branching[line[i]] = "submitted"
  /\ standing # "open" => line = << >>

\* A caller waits while its request is under way; one that is pending was journaled in the
\* turn that still runs.
RequestsInv ==
  \A r \in Branch :
    /\ standing = "open" /\ r \in Branching!Underway => answered[r] = "waits"
    /\ answered[r] = "waits" => standing = "open" /\ r \in Branching!Underway
    /\ child[r] = "open" => branching[r] \in {"created", "done"}
    /\ standing = "open" /\ branching[r] = "pending" =>
         /\ turnRuns
         /\ \E i \in DOMAIN journaled :
              journaled[i] = r /\ Branching!Begun(i) = Branching!Turns(journaled) + 1

\* Nothing is journaled yet under a registry to be adopted, whose record is first.
AdoptingInv ==
  restored.planned /\ Len(journaled) = restored.at /\ standing = "open" =>
    /\ ~turnRuns
    /\ \/ adoption = "planned" /\ line = << >>
       \/ adoption = "submitted" /\ line # << >> /\ Head(line) = "adopt"

BranchInv ==
  /\ Branching!BranchTypeOK
  /\ TurnsInv /\ LineInv /\ RequestsInv /\ AdoptingInv
  /\ Branching!NoStrayBranches /\ Branching!BranchesAtBoundary /\ Branching!AdoptedFirst

-----------------------------------------------------------------------------
\* The display.  What a completion has streamed is what was shown, until its record is
\* observed; and what the prompt's answer waits for is all that there will be.
Pieces(n) == SubSeq(Display!Whole, 1, n)

Observed(c) == \E i \in 1 .. revision : records[i] = c

CompletionInv(c) ==
  /\ stage[c] # "none" => \A d \in Completions : d < c => stage[d] = "settled"
  /\ stage[c] = "settled" <=> \E i \in DOMAIN records : records[i] = c
  /\ stage[c] = "none" => emitted[c] = 0
  /\ ~Observed(c) => shown[c] = Pieces(emitted[c])
  /\ ~Observed(c) /\ stage[c] # "failed" => streamed[c] = Pieces(emitted[c])
  /\ Observed(c) => Len(shown[c]) <= 2
  /\ Observed(c) /\ c \in plain => shown[c] = Display!Whole

TextInv ==
  /\ \A i, k \in DOMAIN records : records[i] = records[k] => i = k
  /\ \A i \in DOMAIN observing : observing[i].revision \in 0 .. Len(records)
  /\ \A c \in Completions : CompletionInv(c)
  /\ turnEnds.phase # "running" =>
       /\ revision = Len(records)
       /\ \A c \in Completions : stage[c] # "streaming"
       /\ \A c \in Completions : stage[c] = "none" => \E d \in Completions : d < c /\ stage[d] = "failed"

CardInv ==
  \A t \in ToolCalls :
    /\ call[t].status = "none" <=> call[t].at = 0
    /\ asking[t].phase # "none" => call[t].at # 0 /\ call[t].at <= asking[t].at
    /\ asking[t].phase = "out" => asking[t].at <= written

\* A read is of the state read last, and another look at it is due when that is older.
UsageInv ==
  /\ readAt # Len(records) => observing # << >>
  /\ reading.out => reading.at = readAt
  /\ reading.out /\ readAt = Len(records) => reading.value = Display!Usage(Len(records))
  /\ ~reading.out /\ readAt = Len(records) => used = Display!Usage(Len(records))
  /\ projected # selected => observing # << >>

DisplayTypes ==
  /\ Display!DisplayTypeOK
  /\ shown \in [Completions -> Seq({1, 2})] /\ streamed \in [Completions -> Seq({1, 2})]
  /\ records \in Seq(Completions) /\ observing \in Seq([revision : Nat, policy : {0}])
  /\ sent \in Nat /\ turnEnds \in [phase : {"running", "flushing", "answered"}, at : Nat]
  /\ accounts \in Nat /\ used \in Nat /\ readAt \in Nat
  /\ reading \in [at : Nat, value : Nat, out : BOOLEAN]

DisplayInv ==
  /\ DisplayTypes /\ TextInv /\ CardInv /\ UsageInv
  /\ turnEnds.phase = "answered" => turnEnds.at <= written

-----------------------------------------------------------------------------
\* Permissions: they are asked in their order, and only for a turn that runs.
PermissionInv ==
  /\ Permissions!PermissionTypeOK /\ Permissions!AskedForTheTurn
  /\ \A r, q \in Questions : asked[r].phase # "none" /\ q < r => asked[q].phase # "none"
  /\ ~closed /\ ~revoked => ~editorTurn.stopped /\ (editorTurn.number > 0 => editorTurn.running)

-----------------------------------------------------------------------------
\* Terminals: what was released is not kept, and was created.
TerminalInv ==
  /\ Terminals!TerminalTypeOK /\ Terminals!LiveIsKept /\ Terminals!NoneRunsOn
  /\ \A t \in Shells :
       /\ release[t] # "none" => create[t] # "none"
       /\ t \in kept => create[t] # "none" /\ release[t] # "done"
       /\ create[t] = "spawning" /\ release[t] = "none" => t \in kept

-----------------------------------------------------------------------------
\* Files: a text that is on disk, or in a document without changes, was saved.
FileInv ==
  /\ Files!FileTypeOK /\ Files!ConfirmedIsSaved
  /\ file \in saved \cup {Files!Foreign, Files!Missing}
  /\ ~document.dirty => document.text \in saved \cup {Files!Foreign}

-----------------------------------------------------------------------------
\* The store.  What the pages up to a session show, of what stays throughout a listing.
Upto(l, n) ==
  /\ \A i \in DOMAIN listing[l].seen : \A s \in listing[l].seen[i] : s <= n
  /\ \A s \in listing[l].stays :
       s <= n => \E i \in DOMAIN listing[l].seen : s \in listing[l].seen[i]

\* The last cursor of a listing is where its pages end.
ListingInv ==
  \A l \in Listings :
    /\ listing[l].stays \subseteq Store!Known
    /\ listing[l].phase = "paging" =>
         \A i \in Store!Mine(l) :
           (\A k \in Store!Mine(l) : k <= i) => Upto(l, cursors[i].after)

StorageInv ==
  /\ Store!StorageTypeOK /\ Store!DeletedStays /\ Store!AppendsOnce /\ Store!ListedOnce
  /\ \A w \in Writers : writer[w].expected < MaxBatches
  /\ ListingInv

-----------------------------------------------------------------------------
\* Numbers

\* A set of numbers has a least one.
LEMMA Least ==
  ASSUME NEW S \in SUBSET Nat, S # {}
  PROVE  \E r \in S : \A q \in S : r <= q
<1>1. IsWellFoundedOn(OpToRel(<, Nat), Nat)
  BY NatLessThanWellFounded
<1>2. PICK r \in S : \A q \in S : <<q, r>> \notin OpToRel(<, Nat)
  BY <1>1, WFMin, Zenon
<1>3. \A q \in S : ~(q < r)
  BY <1>2 DEF OpToRel
<1> QED BY <1>3

-----------------------------------------------------------------------------
\* The extension's terminals

\* There are no terminals at the start.
LEMMA TerminalsStart == Terminals!TerminalInit => TerminalInv
BY DEF Terminals!TerminalInit, TerminalInv, Terminals!TerminalTypeOK, Terminals!LiveIsKept, Terminals!NoneRunsOn,
       Terminals!Programs, Terminals!Live

\* What a release of some terminals does to each: nothing to one that was released before
\* or is not meant; a failure leaves the process as it is, and otherwise it is killed.
ReleasedSo(ts, t) ==
  IF t \in ts /\ release[t] = "none"
    THEN \/ release'[t] = "failed" /\ program'[t] = program[t]
         \/ /\ release'[t] = "killing"
            /\ program'[t] = IF program[t] \in Terminals!Live THEN "killed" ELSE program[t]
    ELSE release'[t] = release[t] /\ program'[t] = program[t]

LEMMA ReleasesSo ==
  ASSUME Terminals!TerminalTypeOK, NEW ts \in SUBSET Shells, NEW refused, Terminals!StartsRelease(ts, refused)
  PROVE  /\ \A t \in Shells : ReleasedSo(ts, t)
         /\ program' \in [Shells -> Terminals!Programs]
         /\ release' \in [Shells -> {"none", "killing", "failed", "done"}]
<1>1. \A t \in Shells : ReleasedSo(ts, t)
  BY DEF Terminals!StartsRelease, Terminals!TerminalTypeOK, Terminals!Live, ReleasedSo
<1>2. program' \in [Shells -> Terminals!Programs]
  BY DEF Terminals!StartsRelease, Terminals!TerminalTypeOK, Terminals!Programs
<1>3. release' \in [Shells -> {"none", "killing", "failed", "done"}]
  BY DEF Terminals!StartsRelease, Terminals!TerminalTypeOK
<1> QED BY <1>1, <1>2, <1>3

\* A release keeps the invariant, of one terminal or, at the end of the connection, of all.
LEMMA ReleaseSafe ==
  ASSUME TerminalInv, NEW ts \in SUBSET Shells, NEW refused, Terminals!StartsRelease(ts, refused),
         \A t \in ts : create[t] # "none" /\ t \in kept,
         disposed' \in BOOLEAN, disposed' => disposed \/ ts = kept,
         UNCHANGED <<kept, create, wait>>
  PROVE  TerminalInv'
<1>1. /\ Terminals!TerminalTypeOK /\ Terminals!LiveIsKept /\ Terminals!NoneRunsOn
      /\ \A t \in Shells :
                           /\ release[t] # "none" => create[t] # "none"
                           /\ t \in kept => create[t] # "none" /\ release[t] # "done"
                           /\ create[t] = "spawning" /\ release[t] = "none" => t \in kept
  BY DEF TerminalInv
<1>2. /\ \A t \in Shells : ReleasedSo(ts, t)
      /\ program' \in [Shells -> Terminals!Programs]
      /\ release' \in [Shells -> {"none", "killing", "failed", "done"}]
  BY <1>1, ReleasesSo
<1>3. Terminals!TerminalTypeOK'
  BY <1>1, <1>2 DEF Terminals!TerminalTypeOK
<1>4. Terminals!LiveIsKept'
  BY <1>1, <1>2 DEF Terminals!TerminalTypeOK, Terminals!LiveIsKept, Terminals!Live, ReleasedSo
<1>5. ASSUME NEW t \in Shells
      PROVE  /\ program'[t] \in {"starting", "running"} =>
                  release'[t] = "failed" \/ (release'[t] = "none" /\ ~disposed')
             /\ disposed' /\ t \in kept' => release'[t] \in {"killing", "failed"} \/ program'[t] = "absent"
  <2>1. ReleasedSo(ts, t)
    BY <1>2
  <2>2. /\ program[t] \in {"starting", "running"} => release[t] = "failed" \/ (release[t] = "none" /\ ~disposed)
        /\ disposed /\ t \in kept => release[t] \in {"killing", "failed"} \/ program[t] = "absent"
        /\ program[t] \in Terminals!Live => t \in kept
        /\ t \in kept => release[t] # "done" /\ release[t] \in {"none", "killing", "failed", "done"}
    BY <1>1 DEF Terminals!NoneRunsOn, Terminals!LiveIsKept, Terminals!TerminalTypeOK
  <2> QED BY <2>1, <2>2 DEF ReleasedSo, Terminals!Live
<1>6. Terminals!NoneRunsOn'
  BY <1>5 DEF Terminals!NoneRunsOn
<1>7. \A t \in Shells :
                       /\ release'[t] # "none" => create'[t] # "none"
                       /\ t \in kept' => create'[t] # "none" /\ release'[t] # "done"
                       /\ create'[t] = "spawning" /\ release'[t] = "none" => t \in kept'
  BY <1>1, <1>2 DEF ReleasedSo
<1> QED BY <1>3, <1>4, <1>6, <1>7 DEF TerminalInv

\* Every step keeps the invariant.
LEMMA TerminalsNextSafe ==
  ASSUME TerminalInv, [Terminals!TerminalNext]_tV
  PROVE  TerminalInv'
<1> USE DEF TerminalInv, Terminals!TerminalTypeOK, Terminals!LiveIsKept, Terminals!NoneRunsOn, Terminals!Programs,
            Terminals!Live, Terminals!Becomes
<1>1. CASE UNCHANGED tV
  BY <1>1 DEF tV
<1>2. ASSUME NEW t \in Shells, Terminals!Creates(t) PROVE TerminalInv'
  BY <1>2 DEF Terminals!Creates
<1>3. ASSUME NEW t \in Shells, Terminals!CreateThrows(t) PROVE TerminalInv'
  BY <1>3 DEF Terminals!CreateThrows
<1>4. ASSUME NEW t \in Shells, Terminals!Closes(t) PROVE TerminalInv'
  BY <1>4 DEF Terminals!Closes
<1>5. ASSUME NEW t \in Shells, Terminals!Kill(t) PROVE TerminalInv'
  BY <1>5 DEF Terminals!Kill, Terminals!Kills
<1>6. ASSUME NEW t \in Shells, Terminals!Release(t) PROVE TerminalInv'
  <2>1. PICK refused \in SUBSET {t} : Terminals!StartsRelease({t}, refused)
    BY <1>6 DEF Terminals!Release
  <2>2. \A d \in {t} : create[d] # "none" /\ d \in kept
    BY <1>6 DEF Terminals!Release
  <2>3. UNCHANGED <<kept, create, wait, disposed>> /\ {t} \in SUBSET Shells
    BY <1>6 DEF Terminals!Release
  <2> QED BY <2>1, <2>2, <2>3, ReleaseSafe
<1>7. ASSUME NEW t \in Shells, Terminals!Waits(t) \/ Terminals!WaitCancelled(t) \/ Terminals!WaitEnds(t) PROVE TerminalInv'
  BY <1>7 DEF Terminals!Waits, Terminals!WaitCancelled, Terminals!WaitEnds
<1>8. ASSUME NEW t \in Shells, Terminals!Spawned(t) PROVE TerminalInv'
  BY <1>8 DEF Terminals!Spawned
<1>9. ASSUME NEW t \in Shells, Terminals!CreateAnswered(t) PROVE TerminalInv'
  BY <1>9 DEF Terminals!CreateAnswered
<1>10. ASSUME NEW t \in Shells, Terminals!CreateFails(t) PROVE TerminalInv'
  BY <1>10 DEF Terminals!CreateFails
<1>11. ASSUME NEW t \in Shells, Terminals!ReleaseEnds(t) PROVE TerminalInv'
  BY <1>11 DEF Terminals!ReleaseEnds, Terminals!Closed, Terminals!Ended
<1>12. CASE Terminals!Dispose
  <2>1. PICK refused \in SUBSET Shells : Terminals!StartsRelease(kept, refused)
    BY <1>12 DEF Terminals!Dispose, Terminals!Disposes
  <2>2. kept \in SUBSET Shells /\ \A d \in kept : create[d] # "none" /\ d \in kept
    OBVIOUS
  <2>3. disposed' = TRUE /\ UNCHANGED <<kept, create, wait>>
    BY <1>12 DEF Terminals!Dispose
  <2> QED BY <2>1, <2>2, <2>3, ReleaseSafe
<1> QED
  BY <1>1, <1>2, <1>3, <1>4, <1>5, <1>6, <1>7, <1>8, <1>9, <1>10, <1>11, <1>12
     DEF Terminals!TerminalNext, Terminals!TerminalSteps

-----------------------------------------------------------------------------
\* The extension's files

\* The text of a file at the start is foreign, or there is none.
LEMMA FilesStart == Files!FileInit => FileInv
BY SideAssumption
   DEF Files!FileInit, FileInv, Files!FileTypeOK, Files!ConfirmedIsSaved, Files!Texts, Files!Foreign, Files!Missing,
       Files!NoWrite

\* Every step keeps the invariant.
LEMMA FilesNextSafe ==
  ASSUME FileInv, [Files!FileNext]_fV
  PROVE  FileInv'
<1> USE SideAssumption
    DEF FileInv, Files!FileTypeOK, Files!ConfirmedIsSaved, Files!Texts, Files!Foreign, Files!Missing, Files!Goes
<1>1. CASE UNCHANGED fV
  BY <1>1 DEF fV
<1>2. ASSUME NEW w \in FileWrites, Files!Begins(w) PROVE FileInv'
  BY <1>2 DEF Files!Begins, Files!Replaces
<1>3. ASSUME NEW w \in FileWrites, Files!Stats(w) PROVE FileInv'
  <2>1. /\ \/ write' = [write EXCEPT ![w] = [phase |-> "applying", edit |-> "create", seen |-> 0]]
           \/ write' = [write EXCEPT ![w].phase = "opening"]
        /\ UNCHANGED <<file, document, saved, edits>>
    BY <1>3 DEF Files!Stats
  <2> QED BY <2>1
<1>4. ASSUME NEW w \in FileWrites, Files!Opens(w) PROVE FileInv'
  BY <1>4 DEF Files!Opens, Files!Opened, Files!Replaces
<1>5. ASSUME NEW w \in FileWrites, Files!Applies(w) PROVE FileInv'
  <2>1. PICK text \in Files!Texts : document' = [open |-> TRUE, text |-> text, dirty |-> TRUE, version |-> document.version + 1]
    BY <1>5 DEF Files!Applies, Files!Edited, Files!Applied
  <2>2. file' \in {file, Files!Foreign} /\ write' = [write EXCEPT ![w].phase = "saving"] /\ UNCHANGED <<saved, edits>>
    BY <1>5 DEF Files!Applies
  <2> QED BY <2>1, <2>2
<1>6. ASSUME NEW w \in FileWrites, NEW text \in Files!Texts, Files!Saves(w, text) PROVE FileInv'
  <2>1. /\ document' \in [open : BOOLEAN, text : Files!Texts, dirty : BOOLEAN, version : Nat]
        /\ document'.text = text /\ file' = text /\ saved' = saved \cup {text}
        /\ write' = [write EXCEPT ![w].phase = "verifying"]
    BY <1>6 DEF Files!Saves
  <2> QED BY <2>1
<1>7. ASSUME NEW w \in FileWrites, Files!Verifies(w) PROVE FileInv'
  BY <1>7 DEF Files!Verifies, Files!Verified
<1>8. ASSUME NEW w \in FileWrites, Files!WriteFails(w) PROVE FileInv'
  BY <1>8 DEF Files!WriteFails
<1>9. CASE Files!UserTypes
  BY <1>9 DEF Files!UserTypes, Files!Edited
<1>10. CASE Files!UserSaves
  BY <1>10 DEF Files!UserSaves
<1>11. CASE Files!FileChanges
  BY <1>11 DEF Files!FileChanges
<1>12. CASE Files!Reloads
  <2>1. /\ document' = [open |-> document.open, text |-> file, dirty |-> document.dirty, version |-> document.version + 1]
        /\ file \in Files!Texts /\ UNCHANGED <<file, write, saved, edits>>
    BY <1>12 DEF Files!Reloads
  <2> QED BY <2>1
<1> QED
  BY <1>1, <1>2, <1>3, <1>4, <1>5, <1>6, <1>7, <1>8, <1>9, <1>10, <1>11, <1>12 DEF Files!FileNext

-----------------------------------------------------------------------------
\* The extension's permissions

\* Nothing is asked at the start.
LEMMA PermissionsStart == Permissions!PermissionInit => PermissionInv
<1> SUFFICES ASSUME Permissions!PermissionInit PROVE PermissionInv
  OBVIOUS
<1>1. /\ \A r \in Questions : asked[r] = [phase |-> "none", answer |-> "none", turn |-> 0]
      /\ asked = [r \in Questions |-> [phase |-> "none", answer |-> "none", turn |-> 0]]
      /\ waiting = {} /\ visible = Permissions!NoRequest /\ ~revoked /\ ~closed /\ revoked \in BOOLEAN
      /\ closed \in BOOLEAN /\ editorTurn = [number |-> 0, running |-> FALSE, stopped |-> FALSE] /\ 0 \in 0 .. Prompted
  <2>1. 0 \in 0 .. Prompted
    BY SideAssumption
  <2> QED BY <2>1 DEF Permissions!PermissionInit, Permissions!NoTurn
<1>2. Permissions!PermissionTypeOK
  BY <1>1 DEF Permissions!PermissionTypeOK
<1>3. Permissions!AskedForTheTurn
  BY <1>1 DEF Permissions!AskedForTheTurn
<1> QED BY <1>1, <1>2, <1>3 DEF PermissionInv

\* What is shown of those that go on waiting is the oldest of them, ...
LEMMA ShownIsOldest ==
  ASSUME PermissionInv, NEW rs \in SUBSET waiting
  PROVE  Permissions!Shown(rs) = IF rs = {} THEN Permissions!NoRequest ELSE Permissions!Oldest(rs)
<1>1. CASE rs = {} \/ visible \notin rs
  BY <1>1 DEF Permissions!Shown
<1>2. CASE visible \in rs
  <2>1. /\ waiting \in SUBSET Nat /\ waiting # {} /\ \A q \in rs : q \in Nat
        /\ visible = CHOOSE r \in waiting : \A q \in waiting : r <= q
    BY <1>2, SideAssumption
       DEF PermissionInv, Permissions!PermissionTypeOK, Permissions!AskedForTheTurn, Permissions!Oldest
  <2>2. \A q \in waiting : visible <= q
    BY <2>1, Least
  <2>3. ASSUME NEW r \in rs PROVE (\A q \in rs : r <= q) <=> r = visible
    <3>1. r \in Nat /\ visible \in Nat /\ visible <= r /\ \A q \in rs : visible <= q
      BY <1>2, <2>1, <2>2
    <3>2. (\A q \in rs : r <= q) => r <= visible
      BY <1>2
    <3> QED BY <3>1, <3>2
  <2>4. Permissions!Oldest(rs) = visible
    BY <1>2, <2>3 DEF Permissions!Oldest
  <2> QED BY <1>2, <2>4 DEF Permissions!Shown
<1> QED BY <1>1, <1>2

\* ... and so it is with one that comes after all of them.
LEMMA ShownStaysOldest ==
  ASSUME PermissionInv, NEW r \in Questions, \A q \in waiting : q < r
  PROVE  Permissions!Shown(waiting \cup {r}) = Permissions!Oldest(waiting \cup {r})
<1> DEFINE rs == waiting \cup {r}
<1>1. /\ waiting \in SUBSET Nat /\ rs \in SUBSET Nat /\ rs # {} /\ r \in Nat
      /\ visible = IF waiting = {} THEN 0 ELSE CHOOSE q \in waiting : \A p \in waiting : q <= p
  BY SideAssumption
     DEF PermissionInv, Permissions!PermissionTypeOK, Permissions!AskedForTheTurn, Permissions!Oldest, Permissions!NoRequest
<1>2. CASE waiting = {}
  <2>1. visible \notin rs
    BY <1>1, <1>2, SideAssumption
  <2> QED BY <2>1 DEF Permissions!Shown
<1>3. CASE waiting # {}
  <2>1. visible \in waiting /\ \A q \in waiting : visible <= q
    BY <1>1, <1>3, Least
  <2>2. ASSUME NEW p \in rs PROVE (\A q \in rs : p <= q) <=> p = visible
    <3>0. visible \in Nat /\ r \in Nat /\ visible < r /\ p \in Nat /\ (p = r \/ p \in waiting)
      BY <1>1, <2>1
    <3>4. \A q \in waiting : visible <= q
      BY <2>1
    <3>3. visible <= r /\ visible <= p /\ \A q \in rs : visible <= q
      BY <3>0, <3>4
    <3>1. p \in Nat /\ visible \in Nat /\ visible <= r /\ visible <= p /\ \A q \in rs : visible <= q
      BY <3>0, <3>3
    <3>2. (\A q \in rs : p <= q) => p <= visible
      BY <2>1
    <3> QED BY <3>1, <3>2
  <2>3. Permissions!Oldest(rs) = visible
    BY <2>1, <2>2 DEF Permissions!Oldest
  <2> QED BY <2>1, <2>3 DEF Permissions!Shown
<1> QED BY <1>2, <1>3

\* Who leaves the queue is settled, and nothing else changes in it.
LEMMA LeavesSafe ==
  ASSUME PermissionInv, NEW rs \in SUBSET waiting, NEW answer \in {"allow", "reject", "cancelled", "error"},
         Permissions!Leaves(rs, answer),
         editorTurn' \in [number : 0 .. Prompted, running : BOOLEAN, stopped : BOOLEAN],
         revoked' \in BOOLEAN, closed' \in BOOLEAN,
         rs = waiting \/ UNCHANGED <<revoked, closed, editorTurn>>,
         ~closed' /\ ~revoked' => ~editorTurn'.stopped /\ (editorTurn'.number > 0 => editorTurn'.running)
  PROVE  PermissionInv'
<1> DEFINE phases == {"none", "waiting", "settled"}
<1>1. /\ asked' = [r \in Questions |->
                    IF r \in rs THEN [asked[r] EXCEPT !.phase = "settled", !.answer = answer] ELSE asked[r]]
      /\ waiting' = waiting \ rs /\ visible' = Permissions!Shown(waiting \ rs)
  BY DEF Permissions!Leaves, Permissions!Settles, Permissions!Without
<1>2. /\ waiting = {r \in Questions : asked[r].phase = "waiting"} /\ waiting \subseteq Questions
      /\ asked \in [Questions -> [phase : phases, answer : {"none", "allow", "reject", "cancelled", "error"},
                                  turn : 0 .. Prompted]]
  BY DEF PermissionInv, Permissions!PermissionTypeOK, Permissions!AskedForTheTurn
<1>3. /\ asked' \in [Questions -> [phase : phases, answer : {"none", "allow", "reject", "cancelled", "error"},
                                   turn : 0 .. Prompted]]
      /\ \A r \in Questions : IF r \in rs THEN asked'[r].phase = "settled" ELSE asked'[r] = asked[r]
  BY <1>1, <1>2
<1>4. waiting' = {r \in Questions : asked'[r].phase = "waiting"}
  BY <1>1, <1>2, <1>3
<1>5. visible' = IF waiting' = {} THEN Permissions!NoRequest ELSE Permissions!Oldest(waiting')
  BY <1>1, ShownIsOldest
<1>6. visible' \in Questions \cup {Permissions!NoRequest}
  <2>1. waiting' \in SUBSET Nat
    BY <1>1, <1>2, SideAssumption
  <2>2. waiting' # {} => Permissions!Oldest(waiting') \in waiting'
    BY <2>1, Least DEF Permissions!Oldest
  <2> QED BY <1>1, <1>2, <1>5, <2>2
<1>7. \A r \in Questions : asked'[r].phase = "waiting" =>
        /\ ~closed' /\ asked'[r].turn = editorTurn'.number /\ ~editorTurn'.stopped
        /\ editorTurn'.number > 0 => editorTurn'.running
  BY <1>2, <1>3 DEF PermissionInv, Permissions!AskedForTheTurn
<1>8. \A r, q \in Questions : asked'[r].phase # "none" /\ q < r => asked'[q].phase # "none"
  BY <1>2, <1>3 DEF PermissionInv
<1> QED
  BY <1>1, <1>2, <1>3, <1>4, <1>5, <1>6, <1>7, <1>8
     DEF PermissionInv, Permissions!PermissionTypeOK, Permissions!AskedForTheTurn

\* A request that comes is the last of those that came.
LEMMA AsksLast ==
  ASSUME PermissionInv, NEW r \in Questions, asked[r].phase = "none"
  PROVE  \A q \in waiting : q < r
BY SideAssumption DEF PermissionInv, Permissions!PermissionTypeOK, Permissions!AskedForTheTurn

\* A request for the turn that runs joins the others; any other is cancelled at once.
LEMMA AsksSafe ==
  ASSUME PermissionInv, NEW r \in Questions, Permissions!Asks(r)
  PROVE  PermissionInv'
<1> USE DEF PermissionInv, Permissions!PermissionTypeOK, Permissions!AskedForTheTurn
<1>1. CASE Permissions!Refused
  <2>1. /\ \A q \in Questions : q < r => asked[q].phase # "none"
        /\ asked[r].phase = "none"
        /\ asked' = [asked EXCEPT ![r] = [phase |-> "settled", answer |-> "cancelled", turn |-> editorTurn.number]]
        /\ UNCHANGED <<waiting, visible, revoked, closed, editorTurn>>
    BY <1>1 DEF Permissions!Asks
  <2>2. /\ asked'[r].phase = "settled" /\ \A q \in Questions : q # r => asked'[q] = asked[q]
        /\ asked' \in [Questions -> [phase : {"none", "waiting", "settled"},
                                     answer : {"none", "allow", "reject", "cancelled", "error"}, turn : 0 .. Prompted]]
    BY <2>1, SideAssumption
  <2>3. waiting = {q \in Questions : asked'[q].phase = "waiting"}
    BY <2>1, <2>2
  <2> QED BY <2>1, <2>2, <2>3 DEF Permissions!Oldest
<1>2. CASE ~Permissions!Refused
  <2>1. /\ asked[r].phase = "none" /\ \A q \in Questions : q < r => asked[q].phase # "none"
        /\ UNCHANGED <<revoked, closed, editorTurn>> /\ ~closed /\ ~revoked
        /\ asked' = [asked EXCEPT ![r] = [@ EXCEPT !.phase = "waiting", !.turn = editorTurn.number]]
        /\ waiting' = waiting \cup {r} /\ visible' = Permissions!Shown(waiting \cup {r})
    BY <1>2 DEF Permissions!Asks, Permissions!Refused
  <2>2. /\ asked'[r] = [asked[r] EXCEPT !.phase = "waiting", !.turn = editorTurn.number]
        /\ \A q \in Questions : q # r => asked'[q] = asked[q]
    BY <2>1
  <2>3. visible' = Permissions!Oldest(waiting') /\ waiting' # {} /\ waiting' \in SUBSET Nat
    BY <2>1, AsksLast, ShownStaysOldest, SideAssumption
  <2>4. visible' \in waiting'
    BY <2>3, Least DEF Permissions!Oldest
  <2>5. waiting' = {q \in Questions : asked'[q].phase = "waiting"}
    BY <2>1, <2>2
  <2>6. asked' \in [Questions -> [phase : {"none", "waiting", "settled"},
                                  answer : {"none", "allow", "reject", "cancelled", "error"}, turn : 0 .. Prompted]]
    <3>1. asked'[r] \in [phase : {"none", "waiting", "settled"},
                          answer : {"none", "allow", "reject", "cancelled", "error"}, turn : 0 .. Prompted]
      <4>1. /\ asked[r] \in [phase : {"none", "waiting", "settled"},
                              answer : {"none", "allow", "reject", "cancelled", "error"}, turn : 0 .. Prompted]
            /\ editorTurn.number \in 0 .. Prompted
        OBVIOUS
      <4> QED BY <2>2, <4>1
    <3> QED BY <2>1, <2>2, <3>1
  <2> QED BY <2>1, <2>2, <2>3, <2>4, <2>5, <2>6
<1> QED BY <1>1, <1>2

\* Every step keeps the invariant.
LEMMA PermissionsNextSafe ==
  ASSUME PermissionInv, [Permissions!PermissionNext]_mV
  PROVE  PermissionInv'
<1>1. CASE UNCHANGED mV
  BY <1>1 DEF mV, PermissionInv, Permissions!PermissionTypeOK, Permissions!AskedForTheTurn, Permissions!Oldest
<1>2. ASSUME NEW r \in Questions, Permissions!Asks(r) PROVE PermissionInv'
  BY <1>2, AsksSafe
<1>3. ASSUME NEW r \in Questions, Permissions!Withdraws(r) PROVE PermissionInv'
  <2>1. /\ {r} \in SUBSET waiting /\ Permissions!Leaves({r}, "cancelled") /\ UNCHANGED <<revoked, closed, editorTurn>>
    BY <1>3 DEF Permissions!Withdraws, PermissionInv, Permissions!AskedForTheTurn
  <2> QED BY <2>1, LeavesSafe DEF PermissionInv, Permissions!PermissionTypeOK
<1>4. ASSUME NEW r \in Questions, NEW answer \in {"allow", "error"}, Permissions!AnswersItself(r, answer)
      PROVE  PermissionInv'
  BY <1>4 DEF Permissions!AnswersItself, PermissionInv, Permissions!PermissionTypeOK, Permissions!AskedForTheTurn
<1>5. ASSUME NEW answer \in {"allow", "reject", "cancelled", "error"}, Permissions!Chooses(answer)
      PROVE  PermissionInv'
  <2>1. visible # Permissions!NoRequest /\ Permissions!Leaves({visible}, answer) /\ UNCHANGED <<revoked, closed, editorTurn>>
    BY <1>5 DEF Permissions!Chooses
  <2>2. waiting \in SUBSET Nat /\ waiting # {} /\ visible = Permissions!Oldest(waiting)
    BY <2>1, SideAssumption DEF PermissionInv, Permissions!PermissionTypeOK, Permissions!AskedForTheTurn
  <2>3. {visible} \in SUBSET waiting
    BY <2>2, Least DEF Permissions!Oldest
  <2> QED BY <2>1, <2>3, LeavesSafe DEF PermissionInv, Permissions!PermissionTypeOK
<1>6. CASE Permissions!BeginTurn
  <2>1. /\ waiting \in SUBSET waiting /\ Permissions!Leaves(waiting, "cancelled")
        /\ revoked' = FALSE /\ closed' = closed /\ closed \in BOOLEAN
        /\ editorTurn' = [number |-> editorTurn.number + 1, running |-> TRUE, stopped |-> FALSE]
        /\ editorTurn.number < Prompted /\ editorTurn.number \in 0 .. Prompted
    BY <1>6 DEF Permissions!BeginTurn, PermissionInv, Permissions!PermissionTypeOK
  <2>2. editorTurn' \in [number : 0 .. Prompted, running : BOOLEAN, stopped : BOOLEAN]
    BY <2>1, SideAssumption
  <2> QED BY <2>1, <2>2, LeavesSafe
<1>7. CASE Permissions!CancelTurn
  BY <1>7, LeavesSafe, SideAssumption DEF Permissions!CancelTurn, PermissionInv, Permissions!PermissionTypeOK
<1>8. CASE Permissions!TurnSettles
  BY <1>8, LeavesSafe, SideAssumption DEF Permissions!TurnSettles, PermissionInv, Permissions!PermissionTypeOK
<1>9. CASE Permissions!Dispose
  BY <1>9, LeavesSafe, SideAssumption DEF Permissions!Dispose, PermissionInv, Permissions!PermissionTypeOK
<1> QED
  BY <1>1, <1>2, <1>3, <1>4, <1>5, <1>6, <1>7, <1>8, <1>9 DEF Permissions!PermissionNext

-----------------------------------------------------------------------------
\* Counting records

\* The records that begin a turn, and those that end one.
Beginnings(s, n) ==
  {i \in 1 .. n :
    /\ s[i] = "user"
    /\ \A j \in 1 .. i - 1 : s[j] = "user" => \E k \in j + 1 .. i - 1 : s[k] = "end"}

EndsOf(s) == {i \in DOMAIN s : s[i] = "end"}

\* The module's count of a set is the library's, ...
LEMMA SameTally == \A S : Branching!Cardinality(S) = Cardinality(S)
BY DEF Branching!Cardinality, Cardinality

\* ... so turns and beginnings are counted by the library too.
LEMMA Tallied ==
  /\ \A s : Branching!Turns(s) = Cardinality(EndsOf(s))
  /\ \A n : Branching!Begun(n) = Cardinality(Beginnings(journaled, n))
  /\ \A n : Branching!Begun(n)' = Cardinality(Beginnings(journaled', n))
BY SameTally DEF Branching!Turns, Branching!Begun, EndsOf, Beginnings

\* Some places of a sequence are finitely many.
LEMMA Tally ==
  ASSUME NEW n \in Nat, NEW S \in SUBSET (1 .. n)
  PROVE  IsFiniteSet(S) /\ Cardinality(S) \in Nat
<1>1. IsFiniteSet(1 .. n)
  BY FS_Interval
<1>2. IsFiniteSet(S)
  BY <1>1, FS_Subset
<1> QED BY <1>2, FS_CardinalityType

\* One record more counts if it is of the kind that is counted.
LEMMA OneMore ==
  ASSUME NEW n \in Nat, NEW S \in SUBSET (1 .. n)
  PROVE  Cardinality(S \cup {n + 1}) = Cardinality(S) + 1
<1>1. n + 1 \notin S
  OBVIOUS
<1>2. IsFiniteSet(S)
  BY Tally
<1> QED BY <1>1, <1>2, FS_AddElement

\* What a record more changes of a journal.
Adds(s, x, t) ==
  /\ t \in Seq(Branching!Submissions) /\ Len(t) = Len(s) + 1 /\ t[Len(t)] = x
  /\ \A i \in DOMAIN s : i \in DOMAIN t /\ t[i] = s[i]
  /\ \A n \in 0 .. Len(s) : Beginnings(t, n) = Beginnings(s, n)
  /\ Cardinality(EndsOf(t)) = Cardinality(EndsOf(s)) + (IF x = "end" THEN 1 ELSE 0)
  /\ Cardinality(UsersOf(t)) = Cardinality(UsersOf(s)) + (IF x = "user" THEN 1 ELSE 0)
  /\ Cardinality(Beginnings(t, Len(t)))
       = Cardinality(Beginnings(s, Len(s))) + (IF x = "user" /\ ~Running(s) THEN 1 ELSE 0)
  /\ Running(t) <=> x = "user" \/ (Running(s) /\ x # "end")

\* A record adds itself alone to the counts of those before it.
LEMMA RecordAdds ==
  ASSUME NEW s \in Seq(Branching!Submissions), NEW x \in Branching!Submissions
  PROVE  Adds(s, x, Append(s, x))
<1> DEFINE n == Len(s)
           T == Branching!Submissions
           t == Append(s, x)
<1>1. /\ n \in Nat /\ DOMAIN s = 1 .. n /\ t \in Seq(T) /\ Len(t) = n + 1 /\ DOMAIN t = 1 .. n + 1
      /\ t[n + 1] = x /\ \A i \in 1 .. n : t[i] = s[i]
  OBVIOUS
<1> HIDE DEF n, t
<1>2. ASSUME NEW m \in 0 .. n PROVE Beginnings(t, m) = Beginnings(s, m)
  <2>1. \A i \in 1 .. m : /\ t[i] = s[i]
                          /\ \A j \in 1 .. i - 1 : j \in 1 .. n
                          /\ \A j \in 1 .. i - 1 : \A k \in j + 1 .. i - 1 : k \in 1 .. n
    BY <1>1
  <2> QED BY <1>1, <2>1 DEF Beginnings
<1>3. /\ EndsOf(s) \in SUBSET (1 .. n) /\ UsersOf(s) \in SUBSET (1 .. n) /\ Beginnings(s, n) \in SUBSET (1 .. n)
  BY <1>1 DEF EndsOf, UsersOf, Beginnings
<1>4. /\ Cardinality(EndsOf(s)) \in Nat /\ Cardinality(UsersOf(s)) \in Nat /\ Cardinality(Beginnings(s, n)) \in Nat
      /\ Cardinality(EndsOf(s) \cup {n + 1}) = Cardinality(EndsOf(s)) + 1
      /\ Cardinality(UsersOf(s) \cup {n + 1}) = Cardinality(UsersOf(s)) + 1
      /\ Cardinality(Beginnings(s, n) \cup {n + 1}) = Cardinality(Beginnings(s, n)) + 1
  BY <1>1, <1>3, Tally, OneMore
<1>5. EndsOf(t) = IF x = "end" THEN EndsOf(s) \cup {n + 1} ELSE EndsOf(s)
  BY <1>1 DEF EndsOf
<1>6. UsersOf(t) = IF x = "user" THEN UsersOf(s) \cup {n + 1} ELSE UsersOf(s)
  BY <1>1 DEF UsersOf
<1>7. (\A j \in 1 .. n : s[j] = "user" => \E k \in j + 1 .. n : s[k] = "end") <=> ~Running(s)
  <2>1. ASSUME NEW j \in 1 .. n
        PROVE  (\E k \in j + 1 .. n : s[k] = "end") <=> ~(\A k \in 1 .. n : k > j => s[k] # "end")
    OBVIOUS
  <2> QED BY <1>1, <2>1 DEF Running
<1>8. Beginnings(t, n + 1) = IF x = "user" /\ ~Running(s) THEN Beginnings(s, n) \cup {n + 1} ELSE Beginnings(s, n)
  <2> DEFINE begins(i) == /\ t[i] = "user"
                          /\ \A j \in 1 .. i - 1 : t[j] = "user" => \E k \in j + 1 .. i - 1 : t[k] = "end"
  <2>1. Beginnings(t, n + 1) = {i \in 1 .. n + 1 : begins(i)} /\ Beginnings(t, n) = {i \in 1 .. n : begins(i)}
    BY DEF Beginnings
  <2>2. begins(n + 1) <=> x = "user" /\ ~Running(s)
    <3>1. (n + 1) - 1 = n
      BY <1>1
    <3>2. \A j \in 1 .. n : /\ t[j] = s[j]
                            /\ (\E k \in j + 1 .. n : t[k] = "end") <=> (\E k \in j + 1 .. n : s[k] = "end")
      BY <1>1
    <3> QED BY <1>1, <1>7, <3>1, <3>2
  <2> HIDE DEF begins
  <2>3. {i \in 1 .. n + 1 : begins(i)} = {i \in 1 .. n : begins(i)} \cup (IF begins(n + 1) THEN {n + 1} ELSE {})
    BY <1>1
  <2>4. Beginnings(t, n) = Beginnings(s, n)
    BY <1>1, <1>2
  <2> QED BY <2>1, <2>2, <2>3, <2>4
<1>9. Running(t) <=> x = "user" \/ (Running(s) /\ x # "end")
  <2>1. CASE x = "user"
    <3>1. n + 1 \in DOMAIN t /\ \A k \in DOMAIN t : ~(k > n + 1)
      BY <1>1
    <3> QED BY <1>1, <2>1, <3>1 DEF Running
  <2>2. CASE x # "user" /\ x = "end"
    <3>1. ASSUME NEW j \in DOMAIN t, t[j] = "user" PROVE ~(\A k \in DOMAIN t : k > j => t[k] # "end")
      BY <1>1, <2>2, <3>1
    <3> QED BY <2>2, <3>1 DEF Running
  <2>3. CASE x # "user" /\ x # "end"
    <3>1. ASSUME NEW j \in 1 .. n
          PROVE  (\A k \in 1 .. n : k > j => s[k] # "end") <=> (\A k \in 1 .. n + 1 : k > j => t[k] # "end")
      BY <1>1, <2>3
    <3>2. Running(s) <=> \E j \in 1 .. n : t[j] = "user" /\ \A k \in 1 .. n + 1 : k > j => t[k] # "end"
      BY <1>1, <3>1 DEF Running
    <3> QED BY <1>1, <2>3, <3>2 DEF Running
  <2> QED BY <2>1, <2>2, <2>3
<1>10. /\ \A i \in DOMAIN s : i \in DOMAIN t /\ t[i] = s[i]
       /\ \A m \in 0 .. Len(s) : Beginnings(t, m) = Beginnings(s, m)
       /\ Len(t) = Len(s) + 1 /\ t[Len(t)] = x
  BY <1>1, <1>2 DEF n
<1>11. Cardinality(Beginnings(t, Len(t)))
         = Cardinality(Beginnings(s, Len(s))) + (IF x = "user" /\ ~Running(s) THEN 1 ELSE 0)
  BY <1>1, <1>4, <1>8 DEF n
<1> HIDE DEF T
<1>12. Adds(s, x, t)
  BY <1>1, <1>4, <1>5, <1>6, <1>9, <1>10, <1>11 DEF Adds, T
<1> QED BY <1>12 DEF t

\* Whoever begins a turn is an input.
LEMMA BeginningsAreInputs ==
  ASSUME NEW T, NEW s \in Seq(T)
  PROVE  /\ Cardinality(EndsOf(s)) \in Nat /\ Cardinality(UsersOf(s)) \in Nat
         /\ \A n \in 0 .. Len(s) : Cardinality(Beginnings(s, n)) \in Nat
         /\ Cardinality(Beginnings(s, Len(s))) <= Cardinality(UsersOf(s))
<1>1. /\ EndsOf(s) \in SUBSET (1 .. Len(s)) /\ UsersOf(s) \in SUBSET (1 .. Len(s)) /\ Len(s) \in Nat
      /\ \A n \in 0 .. Len(s) : Beginnings(s, n) \in SUBSET (1 .. Len(s))
      /\ Beginnings(s, Len(s)) \in SUBSET UsersOf(s)
  BY DEF EndsOf, UsersOf, Beginnings
<1>2. IsFiniteSet(UsersOf(s))
  BY <1>1, Tally
<1>3. Cardinality(Beginnings(s, Len(s))) <= Cardinality(UsersOf(s))
  BY <1>1, <1>2, FS_Subset
<1> QED BY <1>1, <1>3, Tally

\* The inputs of a line without its head.
LEMMA HeadLeaves ==
  ASSUME NEW T, NEW s \in Seq(T), s # << >>
  PROVE  /\ Tail(s) \in Seq(T) /\ Head(s) \in T /\ Head(s) = s[1] /\ 1 \in DOMAIN s
         /\ \A i \in DOMAIN Tail(s) : i + 1 \in DOMAIN s /\ Tail(s)[i] = s[i + 1]
         /\ Cardinality(UsersOf(s)) = Cardinality(UsersOf(Tail(s))) + (IF Head(s) = "user" THEN 1 ELSE 0)
<1> DEFINE t == Tail(s)
           U == UsersOf(t)
           V == UsersOf(s) \ {1}
<1>1. /\ Len(s) \in Nat \ {0} /\ DOMAIN s = 1 .. Len(s) /\ t \in Seq(T) /\ Len(t) = Len(s) - 1
      /\ Len(t) \in Nat /\ DOMAIN t = 1 .. Len(s) - 1 /\ Head(s) = s[1] /\ Head(s) \in T
      /\ \A i \in 1 .. Len(s) - 1 : t[i] = s[i + 1]
  OBVIOUS
<1>2. U \in SUBSET (1 .. Len(t)) /\ UsersOf(s) \in SUBSET (1 .. Len(s))
  BY <1>1 DEF UsersOf
<1> HIDE DEF t
<1>3. IsFiniteSet(U) /\ IsFiniteSet(UsersOf(s)) /\ Cardinality(U) \in Nat /\ Cardinality(UsersOf(s)) \in Nat
  BY <1>1, <1>2, Tally
<1>4. Cardinality(U) = Cardinality(V)
  <2> DEFINE f == [i \in U |-> i + 1]
  <2>1. \A i \in U : i + 1 \in V
    BY <1>1 DEF UsersOf
  <2>2. \A v \in V : v - 1 \in U /\ (v - 1) + 1 = v
    BY <1>1 DEF UsersOf
  <2>3. \A i, k \in U : i + 1 = k + 1 => i = k
    BY <1>1 DEF UsersOf
  <2> HIDE DEF U, V
  <2>4. /\ f \in [U -> V] /\ \A i, k \in U : f[i] = f[k] => i = k
        /\ \A v \in V : v - 1 \in U /\ f[v - 1] = v
    BY <2>1, <2>2, <2>3
  <2> HIDE DEF f
  <2>5. f \in Bijection(U, V)
    BY <2>4 DEF Bijection, Injection, IsInjective, Surjection
  <2> QED BY <1>3, <2>5, FS_Bijection DEF ExistsBijection
<1>5. Cardinality(V) = IF 1 \in UsersOf(s) THEN Cardinality(UsersOf(s)) - 1 ELSE Cardinality(UsersOf(s))
  BY <1>3, FS_RemoveElement
<1>6. 1 \in UsersOf(s) <=> Head(s) = "user"
  BY <1>1 DEF UsersOf
<1> QED BY <1>1, <1>3, <1>4, <1>5, <1>6 DEF t

\* There are no inputs in an empty line.
LEMMA NoInputs == UsersOf(<< >>) = {} /\ Cardinality({}) = 0
BY FS_EmptySet DEF UsersOf
-----------------------------------------------------------------------------
\* Branches

\* What the invariant says of turns, in those terms.
LEMMA TurnsCounted ==
  /\ TurnsInv <=>
       /\ turnRuns <=> Running(journaled)
       /\ Cardinality(Beginnings(journaled, Len(journaled)))
            = Cardinality(EndsOf(journaled)) + (IF turnRuns THEN 1 ELSE 0)
       /\ Cardinality(UsersOf(journaled)) + Cardinality(UsersOf(line)) <= inputs
       /\ \A i \in DOMAIN line : line[i] = "end" => turnRuns
  /\ TurnsInv' <=>
       /\ turnRuns' <=> Running(journaled')
       /\ Cardinality(Beginnings(journaled', Len(journaled')))
            = Cardinality(EndsOf(journaled')) + (IF turnRuns' THEN 1 ELSE 0)
       /\ Cardinality(UsersOf(journaled')) + Cardinality(UsersOf(line')) <= inputs'
       /\ \A i \in DOMAIN line' : line'[i] = "end" => turnRuns'
<1>1. Branching!Begun(Len(journaled)) = Cardinality(Beginnings(journaled, Len(journaled)))
  BY SameTally DEF Branching!Begun, Beginnings
<1>2. Branching!Turns(journaled) = Cardinality(EndsOf(journaled))
  BY Tallied
<1>3. Branching!Begun(Len(journaled))' = Cardinality(Beginnings(journaled', Len(journaled')))
  BY SameTally DEF Branching!Begun, Beginnings
<1>4. Branching!Turns(journaled)' = Cardinality(EndsOf(journaled'))
  BY SameTally DEF Branching!Turns, EndsOf
<1> QED BY <1>1, <1>2, <1>3, <1>4 DEF TurnsInv

\* The states a request goes through are disjoint from the kinds of other records.
LEMMA BranchesStart == Branching!BranchInit => BranchInv
<1> SUFFICES ASSUME Branching!BranchInit PROVE BranchInv
  OBVIOUS
<1> USE SideAssumption DEF Branching!BranchInit
<1>1. Branching!BranchTypeOK
  <2>1. restored \in [at : 0 .. Len(journaled), planned : BOOLEAN, times : 0 .. MaxRestores]
    OBVIOUS
  <2>2. line \in Seq(Branching!Submissions) /\ journaled \in Seq(Branching!Submissions)
    OBVIOUS
  <2>3. taken \in [Branch -> 0 .. MaxInputs] /\ inputs \in 0 .. MaxInputs
    OBVIOUS
  <2>4. /\ branching \in [Branch -> {"unasked", "submitted", "pending", "copying", "creating", "created", "done"}]
        /\ child \in [Branch -> {"none", "open", "closed"}]
        /\ answered \in [Branch -> {"none", "waits", "resolved", "rejected"}]
        /\ standing = "open" /\ adoption = "none" /\ turnRuns = FALSE
    OBVIOUS
  <2> HIDE DEF Branching!BranchInit
  <2> QED BY <2>1, <2>2, <2>3, <2>4 DEF Branching!BranchTypeOK
<1>2. TurnsInv
  <2>1. EndsOf(<< >>) = {} /\ UsersOf(<< >>) = {} /\ Beginnings(<< >>, 0) = {} /\ ~Running(<< >>)
    BY DEF EndsOf, UsersOf, Beginnings, Running
  <2>2. Cardinality({}) = 0 /\ Len(<< >>) = 0
    BY FS_EmptySet
  <2>4. ~turnRuns /\ journaled = << >> /\ line = << >> /\ inputs = 0
    OBVIOUS
  <2> HIDE DEF Branching!BranchInit
  <2>3. /\ turnRuns <=> Running(journaled)
        /\ Cardinality(Beginnings(journaled, Len(journaled)))
             = Cardinality(EndsOf(journaled)) + (IF turnRuns THEN 1 ELSE 0)
        /\ Cardinality(UsersOf(journaled)) + Cardinality(UsersOf(line)) <= inputs
        /\ \A i \in DOMAIN line : line[i] = "end" => turnRuns
    <3>1. turnRuns <=> Running(journaled)
      BY <2>1, <2>4
    <3>2. Cardinality(Beginnings(journaled, Len(journaled))) = 0 /\ Cardinality(EndsOf(journaled)) = 0
      BY <2>1, <2>2, <2>4
    <3>3. Cardinality(UsersOf(journaled)) = 0 /\ Cardinality(UsersOf(line)) = 0
      BY <2>1, <2>2, <2>4
    <3>4. DOMAIN line = {}
      BY <2>4
    <3> QED BY <2>4, <3>1, <3>2, <3>3, <3>4
  <2> QED BY <2>3, TurnsCounted
<1>3. LineInv /\ RequestsInv /\ AdoptingInv
  BY DEF LineInv, RequestsInv, AdoptingInv, Branching!Underway
<1>4. Branching!NoStrayBranches /\ Branching!BranchesAtBoundary /\ Branching!AdoptedFirst
  BY DEF Branching!NoStrayBranches, Branching!BranchesAtBoundary, Branching!AdoptedFirst
<1> QED BY <1>1, <1>2, <1>3, <1>4 DEF BranchInv

\* The journal as it was still is what branches were taken of.
LEMMA BoundariesStay ==
  ASSUME UNCHANGED journaled
  PROVE  \A n : Branching!Begun(n)' = Branching!Begun(n)
BY Tallied

\* A record more: the turn runs after it as the journal says.
LEMMA JournalGrows ==
  ASSUME BranchInv, NEW s \in Branching!Submissions, journaled' = Append(journaled, s),
         turnRuns' = Branching!RunsAfter(s), s = "end" => turnRuns
  PROVE  /\ journaled' \in Seq(Branching!Submissions) /\ turnRuns' \in BOOLEAN
         /\ Len(journaled') = Len(journaled) + 1 /\ journaled'[Len(journaled')] = s /\ Len(journaled) \in Nat
         /\ Len(journaled') \in DOMAIN journaled'
         /\ turnRuns' <=> Running(journaled')
         /\ Cardinality(Beginnings(journaled', Len(journaled')))
              = Cardinality(EndsOf(journaled')) + (IF turnRuns' THEN 1 ELSE 0)
         /\ Cardinality(EndsOf(journaled')) = Cardinality(EndsOf(journaled)) + (IF s = "end" THEN 1 ELSE 0)
         /\ Cardinality(EndsOf(journaled)) \in Nat /\ Cardinality(UsersOf(journaled)) \in Nat
         /\ Cardinality(UsersOf(journaled')) = Cardinality(UsersOf(journaled)) + (IF s = "user" THEN 1 ELSE 0)
         /\ Cardinality(EndsOf(journaled')) <= Cardinality(UsersOf(journaled'))
         /\ \A i \in DOMAIN journaled : /\ i \in DOMAIN journaled' /\ journaled'[i] = journaled[i]
                                        /\ Branching!Begun(i)' = Branching!Begun(i)
<1>1. /\ journaled \in Seq(Branching!Submissions) /\ turnRuns \in BOOLEAN
      /\ turnRuns <=> Running(journaled)
      /\ Cardinality(Beginnings(journaled, Len(journaled)))
           = Cardinality(EndsOf(journaled)) + (IF turnRuns THEN 1 ELSE 0)
  BY TurnsCounted DEF BranchInv, Branching!BranchTypeOK
<1>2. /\ journaled' \in Seq(Branching!Submissions)
      /\ Len(journaled') = Len(journaled) + 1 /\ journaled'[Len(journaled')] = s
      /\ \A i \in DOMAIN journaled : i \in DOMAIN journaled' /\ journaled'[i] = journaled[i]
      /\ \A n \in 0 .. Len(journaled) : Beginnings(journaled', n) = Beginnings(journaled, n)
      /\ Cardinality(EndsOf(journaled')) = Cardinality(EndsOf(journaled)) + (IF s = "end" THEN 1 ELSE 0)
      /\ Cardinality(UsersOf(journaled')) = Cardinality(UsersOf(journaled)) + (IF s = "user" THEN 1 ELSE 0)
      /\ Cardinality(Beginnings(journaled', Len(journaled')))
           = Cardinality(Beginnings(journaled, Len(journaled))) + (IF s = "user" /\ ~Running(journaled) THEN 1 ELSE 0)
      /\ Running(journaled') <=> s = "user" \/ (Running(journaled) /\ s # "end")
  <2>1. Adds(journaled, s, journaled')
    BY <1>1, RecordAdds
  <2> QED BY <2>1 DEF Adds
<1>3. /\ Cardinality(EndsOf(journaled)) \in Nat /\ Cardinality(UsersOf(journaled)) \in Nat
      /\ Cardinality(EndsOf(journaled')) \in Nat /\ Cardinality(UsersOf(journaled')) \in Nat
      /\ Cardinality(Beginnings(journaled', Len(journaled'))) <= Cardinality(UsersOf(journaled'))
      /\ Len(journaled) \in Nat /\ DOMAIN journaled = 1 .. Len(journaled) /\ DOMAIN journaled' = 1 .. Len(journaled')
  BY <1>1, <1>2, BeginningsAreInputs
<1>4. turnRuns' <=> s = "user" \/ (turnRuns /\ s # "end")
  BY DEF Branching!RunsAfter
<1>5. turnRuns' \in BOOLEAN
  BY <1>1 DEF Branching!RunsAfter
<1>6. Cardinality(Beginnings(journaled', Len(journaled')))
        = Cardinality(EndsOf(journaled')) + (IF turnRuns' THEN 1 ELSE 0)
  BY <1>1, <1>2, <1>3, <1>4
<1>7. \A i \in DOMAIN journaled : Branching!Begun(i)' = Branching!Begun(i)
  BY <1>2, <1>3, Tallied
<1>8. Cardinality(EndsOf(journaled')) <= Cardinality(UsersOf(journaled'))
  <2>1. Cardinality(Beginnings(journaled', Len(journaled'))) \in Nat
    BY <1>3, <1>6
  <2> QED BY <1>3, <1>6, <2>1
<1> QED BY <1>1, <1>2, <1>3, <1>4, <1>5, <1>6, <1>7, <1>8

\* What is submitted joins the line, behind the record of an adoption that is due.
LEMMA LineGrows ==
  ASSUME BranchInv, NEW s \in {"user"} \cup Branch, Branching!Dispatched(s),
         UNCHANGED <<standing, journaled, turnRuns, restored>>
  PROVE  /\ line' \in Seq(Branching!Submissions) /\ adoption' \in {"none", "planned", "submitted"}
         /\ standing = "open" /\ AdoptingInv'
         /\ \A i \in DOMAIN line' : \/ i \in DOMAIN line /\ line'[i] = line[i]
                                    \/ line'[i] = "adopt" /\ i \notin DOMAIN line
                                    \/ line'[i] = s /\ i = Len(line')
         /\ Cardinality(UsersOf(line')) = Cardinality(UsersOf(line)) + (IF s = "user" THEN 1 ELSE 0)
         /\ Cardinality(UsersOf(line)) \in Nat
<1>1. /\ line \in Seq(Branching!Submissions) /\ s \in Branching!Submissions /\ "adopt" \in Branching!Submissions
      /\ adoption \in {"none", "planned", "submitted"}
  BY DEF BranchInv, Branching!BranchTypeOK, Branching!Submissions
<1>2. /\ standing = "open" /\ Cardinality(UsersOf(line)) \in Nat
      /\ line' = line \o (IF adoption = "planned" THEN <<"adopt", s>> ELSE <<s>>)
      /\ adoption' = IF adoption = "planned" THEN "submitted" ELSE adoption
  BY <1>1, BeginningsAreInputs DEF Branching!Dispatched, Branching!Adopting
<1>3. AdoptingInv
  BY DEF BranchInv
<1>4. CASE adoption = "planned"
  <2> DEFINE mid == Append(line, "adopt")
  <2>1. line' = Append(mid, s)
    BY <1>1, <1>2, <1>4
  <2>2. Adds(line, "adopt", mid)
    BY <1>1, RecordAdds
  <2>3. /\ mid \in Seq(Branching!Submissions)
        /\ Cardinality(UsersOf(mid)) = Cardinality(UsersOf(line))
    BY <1>2, <2>2 DEF Adds
  <2>4. Adds(mid, s, line')
    BY <1>1, <2>1, <2>3, RecordAdds
  <2>5. \A i \in DOMAIN line' : \/ i \in DOMAIN line /\ line'[i] = line[i]
                                \/ line'[i] = "adopt" /\ i \notin DOMAIN line
                                \/ line'[i] = s /\ i = Len(line')
    BY <1>1, <1>2, <1>4
  <2>6. AdoptingInv'
    <3>1. line = << >> => line' # << >> /\ Head(line') = "adopt"
      BY <1>2, <1>4
    <3> QED BY <1>2, <1>3, <1>4, <3>1 DEF AdoptingInv
  <2>7. /\ line' \in Seq(Branching!Submissions)
        /\ Cardinality(UsersOf(line')) = Cardinality(UsersOf(line)) + (IF s = "user" THEN 1 ELSE 0)
    BY <2>3, <2>4 DEF Adds
  <2> QED BY <1>2, <1>4, <2>5, <2>6, <2>7
<1>5. CASE adoption # "planned"
  <2>1. line' = Append(line, s)
    BY <1>1, <1>2, <1>5
  <2>2. /\ line' \in Seq(Branching!Submissions)
        /\ Cardinality(UsersOf(line')) = Cardinality(UsersOf(line)) + (IF s = "user" THEN 1 ELSE 0)
    <3>1. Adds(line, s, line')
      BY <1>1, <2>1, RecordAdds
    <3> QED BY <3>1 DEF Adds
  <2>3. \A i \in DOMAIN line' : \/ i \in DOMAIN line /\ line'[i] = line[i]
                                \/ line'[i] = s /\ i = Len(line')
    BY <1>1, <2>1
  <2>4. AdoptingInv'
    <3>1. line # << >> => line' # << >> /\ Head(line') = Head(line)
      BY <1>1, <2>1
    <3> QED BY <1>2, <1>3, <1>5, <3>1 DEF AdoptingInv
  <2> QED BY <1>1, <1>2, <1>5, <2>2, <2>3, <2>4
<1> QED BY <1>4, <1>5

\* An input joins the line.
LEMMA InputsSafe ==
  ASSUME BranchInv, Branching!Inputs
  PROVE  BranchInv'
<1>1. /\ inputs < MaxInputs /\ Branching!Dispatched("user") /\ inputs' = inputs + 1
      /\ UNCHANGED <<standing, journaled, turnRuns, restored, branching, taken, child, answered>>
  BY DEF Branching!Inputs
<1>2. /\ line' \in Seq(Branching!Submissions) /\ adoption' \in {"none", "planned", "submitted"}
      /\ standing = "open" /\ AdoptingInv'
      /\ \A i \in DOMAIN line' : \/ i \in DOMAIN line /\ line'[i] = line[i]
                                 \/ line'[i] = "adopt" /\ i \notin DOMAIN line
                                 \/ line'[i] = "user" /\ i = Len(line')
      /\ Cardinality(UsersOf(line')) = Cardinality(UsersOf(line)) + 1
      /\ Cardinality(UsersOf(line)) \in Nat
  BY <1>1, LineGrows
<1>3. Branching!BranchTypeOK'
  BY <1>1, <1>2, SideAssumption DEF BranchInv, Branching!BranchTypeOK, Branching!Submissions
<1>4. TurnsInv'
  <2>1. TurnsInv /\ journaled \in Seq(Branching!Submissions) /\ inputs \in Nat
    BY SideAssumption DEF BranchInv, Branching!BranchTypeOK
  <2>2. Cardinality(UsersOf(journaled)) \in Nat
    BY <2>1, BeginningsAreInputs
  <2> QED BY <1>1, <1>2, <2>1, <2>2, TurnsCounted
<1>5. LineInv'
  BY <1>1, <1>2, SideAssumption DEF BranchInv, LineInv
<1>6. RequestsInv' /\ Branching!NoStrayBranches' /\ Branching!BranchesAtBoundary' /\ Branching!AdoptedFirst'
  <2>1. \A n : Branching!Begun(n)' = Branching!Begun(n)
    BY <1>1, BoundariesStay
  <2>2. RequestsInv'
    BY <1>1, <2>1 DEF BranchInv, RequestsInv, Branching!Underway
  <2>3. Branching!BranchesAtBoundary'
    BY <1>1, <2>1 DEF BranchInv, Branching!BranchesAtBoundary
  <2> QED BY <1>1, <2>2, <2>3 DEF BranchInv, Branching!NoStrayBranches, Branching!AdoptedFirst
<1> QED BY <1>2, <1>3, <1>4, <1>5, <1>6 DEF BranchInv

\* A request joins the line, and its caller waits.
LEMMA BranchesSafe ==
  ASSUME BranchInv, NEW r \in Branch, Branching!Branches(r)
  PROVE  BranchInv'
<1>1. /\ branching[r] = "unasked" /\ Branching!Dispatched(r)
      /\ branching' = [branching EXCEPT ![r] = "submitted"] /\ answered' = [answered EXCEPT ![r] = "waits"]
      /\ UNCHANGED <<standing, journaled, turnRuns, restored, taken, child, inputs>>
  BY DEF Branching!Branches
<1>2. r # "user" /\ r # "adopt" /\ r # "end"
  BY SideAssumption
<1>3. /\ line' \in Seq(Branching!Submissions) /\ adoption' \in {"none", "planned", "submitted"}
      /\ standing = "open" /\ AdoptingInv'
      /\ \A i \in DOMAIN line' : \/ i \in DOMAIN line /\ line'[i] = line[i]
                                 \/ line'[i] = "adopt" /\ i \notin DOMAIN line
                                 \/ line'[i] = r /\ i = Len(line')
      /\ Cardinality(UsersOf(line')) = Cardinality(UsersOf(line))
      /\ Cardinality(UsersOf(line)) \in Nat
  <2>1. r \in {"user"} \cup Branch
    OBVIOUS
  <2>2. /\ line' \in Seq(Branching!Submissions) /\ adoption' \in {"none", "planned", "submitted"}
        /\ standing = "open" /\ AdoptingInv'
        /\ \A i \in DOMAIN line' : \/ i \in DOMAIN line /\ line'[i] = line[i]
                                   \/ line'[i] = "adopt" /\ i \notin DOMAIN line
                                   \/ line'[i] = r /\ i = Len(line')
        /\ Cardinality(UsersOf(line')) = Cardinality(UsersOf(line)) + (IF r = "user" THEN 1 ELSE 0)
        /\ Cardinality(UsersOf(line)) \in Nat
    BY <1>1, <2>1, LineGrows
  <2> QED BY <1>2, <2>2
<1>4. /\ branching'[r] = "submitted" /\ answered'[r] = "waits"
      /\ \A q \in Branch : q # r => branching'[q] = branching[q] /\ answered'[q] = answered[q]
  BY <1>1 DEF BranchInv, Branching!BranchTypeOK
<1>5. Branching!BranchTypeOK'
  BY <1>1, <1>3 DEF BranchInv, Branching!BranchTypeOK
<1>6. TurnsInv'
  <2>1. TurnsInv
    BY DEF BranchInv
  <2> QED BY <1>1, <1>2, <1>3, <2>1, TurnsCounted
<1>7. LineInv'
  <2>1. LineInv /\ \A i \in DOMAIN line : line[i] # r
    BY <1>1 DEF BranchInv, LineInv
  <2>2. \A i, k \in DOMAIN line' : line'[i] = line'[k] /\ line'[i] \notin {"user", "adopt"} => i = k
    BY <1>2, <1>3, <2>1 DEF LineInv
  <2>3. \A i \in DOMAIN line' : line'[i] \in Branch => branching'[line'[i]] = "submitted"
    BY <1>3, <1>4, <2>1, SideAssumption DEF LineInv
  <2> QED BY <1>1, <1>3, <2>2, <2>3 DEF LineInv
<1>8. RequestsInv' /\ Branching!NoStrayBranches' /\ Branching!BranchesAtBoundary' /\ Branching!AdoptedFirst'
  <2>1. \A n : Branching!Begun(n)' = Branching!Begun(n)
    BY <1>1, BoundariesStay
  <2>2. RequestsInv'
    BY <1>1, <1>3, <1>4, <2>1 DEF BranchInv, RequestsInv, Branching!Underway
  <2>3. Branching!BranchesAtBoundary'
    BY <1>1, <1>4, <2>1 DEF BranchInv, Branching!BranchesAtBoundary
  <2>4. Branching!NoStrayBranches'
    BY <1>1, <1>3, <1>4 DEF BranchInv, Branching!NoStrayBranches
  <2> QED BY <1>1, <2>2, <2>3, <2>4 DEF BranchInv, Branching!AdoptedFirst
<1> QED BY <1>3, <1>5, <1>6, <1>7, <1>8 DEF BranchInv

\* The end of the turn that runs joins the line, once.
LEMMA TurnSettlesSafe ==
  ASSUME BranchInv, Branching!TurnSettles
  PROVE  BranchInv'
<1>1. /\ standing = "open" /\ turnRuns /\ (\A i \in DOMAIN line : line[i] # "end") /\ line' = Append(line, "end")
      /\ UNCHANGED <<standing, journaled, turnRuns, adoption, restored, branching, taken, child, answered, inputs>>
  BY DEF Branching!TurnSettles
<1>2. line \in Seq(Branching!Submissions) /\ "end" \in Branching!Submissions
  BY DEF BranchInv, Branching!BranchTypeOK, Branching!Submissions
<1>3. /\ line' \in Seq(Branching!Submissions)
      /\ Cardinality(UsersOf(line')) = Cardinality(UsersOf(line)) + (IF "end" = "user" THEN 1 ELSE 0)
      /\ Cardinality(UsersOf(line)) \in Nat
      /\ \A i \in DOMAIN line' : \/ i \in DOMAIN line /\ line'[i] = line[i]
                                 \/ line'[i] = "end" /\ i = Len(line')
  <2>1. Adds(line, "end", line')
    BY <1>1, <1>2, RecordAdds
  <2>2. \A i \in DOMAIN line' : \/ i \in DOMAIN line /\ line'[i] = line[i]
                                \/ line'[i] = "end" /\ i = Len(line')
    BY <1>1, <1>2
  <2> QED BY <1>2, <2>1, <2>2, BeginningsAreInputs DEF Adds
<1>4. Branching!BranchTypeOK'
  BY <1>1, <1>3 DEF BranchInv, Branching!BranchTypeOK
<1>5. TurnsInv'
  <2>1. TurnsInv
    BY DEF BranchInv
  <2>2. Cardinality(UsersOf(line')) = Cardinality(UsersOf(line))
    BY <1>3
  <2> QED BY <1>1, <1>3, <2>1, <2>2, TurnsCounted
<1>6. LineInv'
  BY <1>1, <1>3, SideAssumption DEF BranchInv, LineInv
<1>7. RequestsInv' /\ Branching!NoStrayBranches' /\ Branching!BranchesAtBoundary' /\ Branching!AdoptedFirst'
  <2>1. \A n : Branching!Begun(n)' = Branching!Begun(n)
    BY <1>1, BoundariesStay
  <2>2. RequestsInv'
    BY <1>1, <2>1 DEF BranchInv, RequestsInv, Branching!Underway
  <2>3. Branching!BranchesAtBoundary'
    BY <1>1, <2>1 DEF BranchInv, Branching!BranchesAtBoundary
  <2> QED BY <1>1, <2>2, <2>3 DEF BranchInv, Branching!NoStrayBranches, Branching!AdoptedFirst
<1>8. AdoptingInv'
  BY <1>1 DEF BranchInv, AdoptingInv
<1> QED BY <1>4, <1>5, <1>6, <1>7, <1>8 DEF BranchInv

\* The head of the line goes: into the journal, or refused.
LEMMA LineMoves ==
  ASSUME BranchInv, line # << >>, line' = Tail(line)
  PROVE  /\ Head(line) \in Branching!Submissions /\ line' \in Seq(Branching!Submissions)
         /\ Cardinality(UsersOf(line)) = Cardinality(UsersOf(line')) + (IF Head(line) = "user" THEN 1 ELSE 0)
         /\ Cardinality(UsersOf(line')) \in Nat /\ Cardinality(UsersOf(line)) \in Nat
         /\ \A i \in DOMAIN line' : i + 1 \in DOMAIN line /\ line'[i] = line[i + 1]
         /\ \A i, k \in DOMAIN line' : line'[i] = line'[k] /\ line'[i] \notin {"user", "adopt"} => i = k
         /\ \A i \in DOMAIN line' : line'[i] \in Branch => /\ branching[line'[i]] = "submitted"
                                                           /\ line'[i] # Head(line)
         /\ Head(line) \in Branch => branching[Head(line)] = "submitted"
         /\ Head(line) = "end" => turnRuns /\ \A i \in DOMAIN line' : line'[i] # "end"
         /\ \A i \in DOMAIN line' : line'[i] = "end" => turnRuns
<1>1. line \in Seq(Branching!Submissions) /\ LineInv /\ \A i \in DOMAIN line : line[i] = "end" => turnRuns
  BY DEF BranchInv, Branching!BranchTypeOK, TurnsInv
<1>2. /\ line' \in Seq(Branching!Submissions) /\ Head(line) \in Branching!Submissions /\ Head(line) = line[1]
      /\ 1 \in DOMAIN line
      /\ \A i \in DOMAIN line' : i + 1 \in DOMAIN line /\ line'[i] = line[i + 1]
      /\ Cardinality(UsersOf(line)) = Cardinality(UsersOf(line')) + (IF Head(line) = "user" THEN 1 ELSE 0)
  BY <1>1, HeadLeaves
<1>3. Cardinality(UsersOf(line')) \in Nat /\ Cardinality(UsersOf(line)) \in Nat
  BY <1>1, <1>2, BeginningsAreInputs
<1>4. DOMAIN line' \in SUBSET (Nat \ {0})
  BY <1>2
<1>5. ASSUME NEW i \in DOMAIN line', NEW k \in DOMAIN line', line'[i] = line'[k], line'[i] \notin {"user", "adopt"}
      PROVE  i = k
  <2>1. i + 1 = k + 1
    BY <1>1, <1>2, <1>5 DEF LineInv
  <2> QED BY <1>4, <2>1
<1>6. ASSUME NEW i \in DOMAIN line', line'[i] \notin {"user", "adopt"}
      PROVE  line'[i] # Head(line)
  <2>1. i + 1 # 1
    BY <1>4
  <2> QED BY <1>1, <1>2, <1>6, <2>1 DEF LineInv
<1>7. \A i \in DOMAIN line' : line'[i] \in Branch => branching[line'[i]] = "submitted" /\ line'[i] # Head(line)
  BY <1>1, <1>2, <1>6, SideAssumption DEF LineInv
<1>8. Head(line) = "end" => turnRuns /\ \A i \in DOMAIN line' : line'[i] # "end"
  BY <1>1, <1>2, <1>6
<1>9. Head(line) \in Branch => branching[Head(line)] = "submitted"
  BY <1>1, <1>2 DEF LineInv
<1> QED BY <1>1, <1>2, <1>3, <1>5, <1>7, <1>8, <1>9

\* A record that commits keeps the invariant: its turn begins or ends, its request waits
\* or is released, with the turns there are.
LEMMA CommitsSafe ==
  ASSUME BranchInv, Branching!Commits
  PROVE  BranchInv'
<1> DEFINE s == Head(line)
<1>1. /\ standing = "open" /\ line # << >> /\ line' = Tail(line)
      /\ journaled' = Append(journaled, s) /\ turnRuns' = Branching!RunsAfter(s)
      /\ adoption' = (IF s = "adopt" THEN "none" ELSE adoption)
      /\ UNCHANGED <<standing, restored, child, answered, inputs>>
  BY DEF Branching!Commits
<1>2. /\ s \in Branching!Submissions /\ line' \in Seq(Branching!Submissions)
      /\ Cardinality(UsersOf(line)) = Cardinality(UsersOf(line')) + (IF s = "user" THEN 1 ELSE 0)
      /\ Cardinality(UsersOf(line')) \in Nat /\ Cardinality(UsersOf(line)) \in Nat
      /\ \A i, k \in DOMAIN line' : line'[i] = line'[k] /\ line'[i] \notin {"user", "adopt"} => i = k
      /\ \A i \in DOMAIN line' : line'[i] \in Branch => branching[line'[i]] = "submitted" /\ line'[i] # s
      /\ s \in Branch => branching[s] = "submitted"
      /\ s = "end" => turnRuns /\ \A i \in DOMAIN line' : line'[i] # "end"
      /\ \A i \in DOMAIN line' : line'[i] = "end" => turnRuns
  BY <1>1, LineMoves
<1>3. /\ journaled' \in Seq(Branching!Submissions) /\ turnRuns' \in BOOLEAN
      /\ Len(journaled') = Len(journaled) + 1 /\ journaled'[Len(journaled')] = s /\ Len(journaled) \in Nat
      /\ Len(journaled') \in DOMAIN journaled'
      /\ turnRuns' <=> Running(journaled')
      /\ Cardinality(Beginnings(journaled', Len(journaled')))
           = Cardinality(EndsOf(journaled')) + (IF turnRuns' THEN 1 ELSE 0)
      /\ Cardinality(EndsOf(journaled')) = Cardinality(EndsOf(journaled)) + (IF s = "end" THEN 1 ELSE 0)
      /\ Cardinality(EndsOf(journaled)) \in Nat /\ Cardinality(UsersOf(journaled)) \in Nat
      /\ Cardinality(UsersOf(journaled')) = Cardinality(UsersOf(journaled)) + (IF s = "user" THEN 1 ELSE 0)
      /\ Cardinality(EndsOf(journaled')) <= Cardinality(UsersOf(journaled'))
      /\ \A i \in DOMAIN journaled : /\ i \in DOMAIN journaled' /\ journaled'[i] = journaled[i]
                                     /\ Branching!Begun(i)' = Branching!Begun(i)
  BY <1>1, <1>2, JournalGrows
<1>4. turnRuns \in BOOLEAN /\ (turnRuns' <=> s = "user" \/ (turnRuns /\ s # "end"))
  BY <1>1 DEF Branching!RunsAfter, BranchInv, Branching!BranchTypeOK
<1>5. \A r \in Branch : r # "user" /\ r # "end" /\ r # "adopt"
  BY SideAssumption
<1> DEFINE released(r) == ~turnRuns' /\ (r = s \/ branching[r] = "pending")
<1>6. /\ branching' = [r \in Branch |-> IF released(r) THEN "copying" ELSE IF r = s THEN "pending" ELSE branching[r]]
      /\ taken' = [r \in Branch |-> IF released(r) THEN Cardinality(EndsOf(journaled')) ELSE taken[r]]
  <2>1. ASSUME NEW r \in Branch
        PROVE  /\ r \in Branching!Released(Branching!RunsAfter(s), IF s \in Branch THEN {s} ELSE {}) <=> released(r)
               /\ r \in (IF s \in Branch THEN {s} ELSE {}) <=> r = s
    BY <1>1 DEF Branching!Released
  <2>2. Branching!Turns(journaled') = Cardinality(EndsOf(journaled'))
    BY Tallied
  <2>3. /\ branching' = [r \in Branch |->
              IF r \in Branching!Released(Branching!RunsAfter(s), IF s \in Branch THEN {s} ELSE {}) THEN "copying"
              ELSE IF r \in (IF s \in Branch THEN {s} ELSE {}) THEN "pending" ELSE branching[r]]
        /\ taken' = [r \in Branch |->
              IF r \in Branching!Released(Branching!RunsAfter(s), IF s \in Branch THEN {s} ELSE {})
                THEN Branching!Turns(journaled') ELSE taken[r]]
    BY <1>1 DEF Branching!Commits
  <2> HIDE DEF released, s
  <2>4. branching' = [r \in Branch |-> IF released(r) THEN "copying" ELSE IF r = s THEN "pending" ELSE branching[r]]
    BY <2>1, <2>3
  <2>5. taken' = [r \in Branch |-> IF released(r) THEN Cardinality(EndsOf(journaled')) ELSE taken[r]]
    BY <2>1, <2>2, <2>3
  <2> QED BY <2>4, <2>5
<1> HIDE DEF s
<1>7. TurnsInv'
  <2>1. Cardinality(UsersOf(journaled)) + Cardinality(UsersOf(line)) <= inputs /\ inputs' = inputs
    BY <1>1, TurnsCounted DEF BranchInv
  <2>2. Cardinality(UsersOf(journaled')) + Cardinality(UsersOf(line')) <= inputs'
    <3>1. inputs \in Nat
      BY SideAssumption DEF BranchInv, Branching!BranchTypeOK
    <3> QED BY <1>2, <1>3, <2>1, <3>1
  <2>3. \A i \in DOMAIN line' : line'[i] = "end" => turnRuns'
    BY <1>2, <1>4
  <2> QED BY <1>3, <2>2, <2>3, TurnsCounted
<1>8. Branching!BranchTypeOK'
  <2>1. Cardinality(EndsOf(journaled')) \in 0 .. MaxInputs
    <3>1. Cardinality(UsersOf(journaled')) + Cardinality(UsersOf(line')) <= inputs
      BY <1>1, <1>7, TurnsCounted
    <3>2. inputs \in 0 .. MaxInputs
      BY DEF BranchInv, Branching!BranchTypeOK
    <3> QED BY <1>2, <1>3, <3>1, <3>2, SideAssumption
  <2>2. taken' \in [Branch -> 0 .. MaxInputs]
    BY <1>6, <2>1 DEF BranchInv, Branching!BranchTypeOK
  <2>3. branching' \in [Branch -> {"unasked", "submitted", "pending", "copying", "creating", "created", "done"}]
    BY <1>6 DEF BranchInv, Branching!BranchTypeOK
  <2>4. restored' \in [at : 0 .. Len(journaled'), planned : BOOLEAN, times : 0 .. MaxRestores]
    BY <1>1, <1>3 DEF BranchInv, Branching!BranchTypeOK
  <2> QED BY <1>1, <1>2, <1>3, <2>2, <2>3, <2>4 DEF BranchInv, Branching!BranchTypeOK
<1>9. LineInv'
  <2>1. \A i \in DOMAIN line' : line'[i] \in Branch => branching'[line'[i]] = "submitted"
    BY <1>2, <1>6
  <2> QED BY <1>1, <1>2, <2>1 DEF LineInv
<1>10. \A r \in Branch : \/ branching'[r] = branching[r] /\ taken'[r] = taken[r] /\ r # s
                         \/ /\ branching'[r] = "copying" /\ ~turnRuns' /\ taken'[r] = Cardinality(EndsOf(journaled'))
                            /\ \/ r = s /\ branching[r] = "submitted"
                               \/ r # s /\ branching[r] = "pending"
                         \/ branching'[r] = "pending" /\ turnRuns' /\ r = s /\ branching[r] = "submitted"
  BY <1>2, <1>6
<1>11. RequestsInv'
  <2> SUFFICES ASSUME NEW r \in Branch
               PROVE  /\ standing' = "open" /\ r \in Branching!Underway' => answered'[r] = "waits"
                      /\ answered'[r] = "waits" => standing' = "open" /\ r \in Branching!Underway'
                      /\ child'[r] = "open" => branching'[r] \in {"created", "done"}
                      /\ standing' = "open" /\ branching'[r] = "pending" =>
                           /\ turnRuns'
                           /\ \E i \in DOMAIN journaled' :
                                journaled'[i] = r /\ Branching!Begun(i)' = Branching!Turns(journaled') + 1
    BY DEF RequestsInv
  <2>1. /\ answered[r] = "waits" <=> r \in Branching!Underway
        /\ child[r] = "open" => branching[r] \in {"created", "done"}
        /\ branching[r] = "pending" =>
             /\ turnRuns
             /\ \E i \in DOMAIN journaled :
                  journaled[i] = r /\ Branching!Begun(i) = Branching!Turns(journaled) + 1
    BY <1>1 DEF BranchInv, RequestsInv
  <2>2. r \in Branching!Underway' <=> r \in Branching!Underway
    BY <1>10 DEF Branching!Underway
  <2>3. child[r] = "open" => branching'[r] = branching[r]
    BY <1>10, <2>1
  <2>4. ASSUME branching'[r] = "pending"
        PROVE  /\ turnRuns'
               /\ \E i \in DOMAIN journaled' :
                    journaled'[i] = r /\ Branching!Begun(i)' = Branching!Turns(journaled') + 1
    <3>1. /\ Branching!Turns(journaled') = Cardinality(EndsOf(journaled'))
          /\ Branching!Turns(journaled) = Cardinality(EndsOf(journaled))
      BY Tallied
    <3>2. CASE r = s
      <4>1. turnRuns' /\ turnRuns /\ s # "user" /\ s # "end"
        BY <1>4, <1>5, <1>10, <2>4, <3>2
      <4>2. PICK i \in DOMAIN journaled' : i = Len(journaled')
        BY <1>3
      <4>3. Branching!Begun(i)' = Cardinality(Beginnings(journaled', Len(journaled')))
        BY <4>2, Tallied
      <4> QED BY <1>3, <3>1, <3>2, <4>1, <4>2, <4>3
    <3>3. CASE r # s
      <4>1. branching[r] = "pending" /\ ~released(r)
        BY <1>6, <1>10, <2>4, <3>3
      <4>2. turnRuns' /\ turnRuns /\ s # "end"
        BY <1>2, <1>3, <1>4, <2>1, <4>1
      <4>3. PICK i \in DOMAIN journaled : journaled[i] = r /\ Branching!Begun(i) = Branching!Turns(journaled) + 1
        BY <2>1, <4>1
      <4>4. Cardinality(EndsOf(journaled')) = Cardinality(EndsOf(journaled))
        BY <1>3, <4>2
      <4> QED BY <1>3, <3>1, <4>2, <4>3, <4>4
    <3> QED BY <3>2, <3>3
  <2> QED BY <1>1, <2>1, <2>2, <2>3, <2>4
<1>12. AdoptingInv' /\ Branching!AdoptedFirst'
  <2>1. restored.at \in 0 .. Len(journaled) /\ restored' = restored
    BY <1>1 DEF BranchInv, Branching!BranchTypeOK
  <2>2. AdoptingInv'
    BY <1>3, <2>1 DEF AdoptingInv
  <2>3. ASSUME restored.planned PROVE journaled'[restored.at + 1] = "adopt"
    <3>1. CASE Len(journaled) = restored.at
      <4>1. s = "adopt"
        BY <1>1, <2>3, <3>1 DEF BranchInv, AdoptingInv, s
      <4> QED BY <1>3, <3>1, <4>1
    <3>2. CASE Len(journaled) # restored.at
      <4>1. journaled[restored.at + 1] = "adopt" /\ restored.at + 1 \in DOMAIN journaled
        <5>1. journaled \in Seq(Branching!Submissions) /\ Len(journaled) > restored.at
          BY <1>3, <2>1, <3>2 DEF BranchInv, Branching!BranchTypeOK
        <5>2. restored.at + 1 \in DOMAIN journaled
          BY <1>3, <2>1, <5>1
        <5> QED BY <2>3, <5>1, <5>2 DEF BranchInv, Branching!AdoptedFirst
      <4> QED BY <1>3, <4>1
    <3> QED BY <3>1, <3>2
  <2> QED BY <2>1, <2>2, <2>3 DEF Branching!AdoptedFirst
<1>13. Branching!NoStrayBranches'
  <2> SUFFICES ASSUME NEW r \in Branch
               PROVE  /\ child'[r] = "open" /\ branching'[r] = "done" => answered'[r] = "resolved"
                      /\ answered'[r] = "waits" => branching'[r] # "done" /\ standing' = "open"
    BY DEF Branching!NoStrayBranches
  <2>1. /\ child[r] = "open" /\ branching[r] = "done" => answered[r] = "resolved"
        /\ answered[r] = "waits" => branching[r] # "done"
    BY DEF BranchInv, Branching!NoStrayBranches
  <2> QED BY <1>1, <1>10, <2>1
<1>14. Branching!BranchesAtBoundary'
  <2> SUFFICES ASSUME NEW r \in Branch, branching'[r] \in {"copying", "creating", "created"}
               PROVE  \E i \in DOMAIN journaled' : journaled'[i] = r /\ taken'[r] = Branching!Begun(i)'
    BY DEF Branching!BranchesAtBoundary
  <2>1. PICK n \in DOMAIN journaled' : n = Len(journaled')
    BY <1>3
  <2>5. Branching!Begun(n)' = Cardinality(Beginnings(journaled', Len(journaled')))
    BY <2>1, Tallied
  <2>2. CASE branching'[r] = branching[r] /\ taken'[r] = taken[r]
    <3>1. PICK i \in DOMAIN journaled : journaled[i] = r /\ taken[r] = Branching!Begun(i)
      BY <2>2 DEF BranchInv, Branching!BranchesAtBoundary
    <3> QED BY <1>3, <2>2, <3>1
  <2>3. CASE /\ ~turnRuns' /\ taken'[r] = Cardinality(EndsOf(journaled')) /\ r = s
    BY <1>3, <2>1, <2>3, <2>5
  <2>4. CASE /\ ~turnRuns' /\ taken'[r] = Cardinality(EndsOf(journaled')) /\ branching[r] = "pending"
    <3>1. /\ turnRuns
          /\ \E i \in DOMAIN journaled :
               journaled[i] = r /\ Branching!Begun(i) = Branching!Turns(journaled) + 1
      BY <1>1, <2>4 DEF BranchInv, RequestsInv
    <3>2. PICK i \in DOMAIN journaled : journaled[i] = r /\ Branching!Begun(i) = Branching!Turns(journaled) + 1
      BY <3>1
    <3>3. Branching!Turns(journaled) = Cardinality(EndsOf(journaled))
      BY Tallied
    <3>4. Cardinality(EndsOf(journaled')) = Cardinality(EndsOf(journaled)) + 1
      BY <1>3, <1>4, <2>4, <3>1
    <3> QED BY <1>3, <2>4, <3>2, <3>3, <3>4
  <2> QED BY <1>10, <2>2, <2>3, <2>4
<1> QED BY <1>7, <1>8, <1>9, <1>11, <1>12, <1>13, <1>14 DEF BranchInv

\* What the journal holds of the record that was being appended.
LEMMA JournalLands ==
  ASSUME BranchInv, Branching!Lands(line)
  PROVE  /\ journaled' \in Seq(Branching!Submissions) /\ turnRuns' \in BOOLEAN
         /\ Len(journaled) \in Nat /\ Len(journaled') \in Nat /\ Len(journaled) <= Len(journaled')
         /\ turnRuns' <=> Running(journaled')
         /\ Cardinality(Beginnings(journaled', Len(journaled')))
              = Cardinality(EndsOf(journaled')) + (IF turnRuns' THEN 1 ELSE 0)
         /\ Cardinality(UsersOf(journaled')) <= inputs
         /\ \A i \in DOMAIN journaled : /\ i \in DOMAIN journaled' /\ journaled'[i] = journaled[i]
                                        /\ Branching!Begun(i)' = Branching!Begun(i)
         /\ restored.planned /\ Len(journaled') > restored.at => journaled'[restored.at + 1] = "adopt"
<1>1. /\ journaled \in Seq(Branching!Submissions) /\ turnRuns \in BOOLEAN /\ line \in Seq(Branching!Submissions)
      /\ Len(journaled) \in Nat
      /\ turnRuns <=> Running(journaled)
      /\ Cardinality(Beginnings(journaled, Len(journaled)))
           = Cardinality(EndsOf(journaled)) + (IF turnRuns THEN 1 ELSE 0)
      /\ Cardinality(UsersOf(journaled)) + Cardinality(UsersOf(line)) <= inputs
      /\ restored.planned /\ Len(journaled) > restored.at => journaled[restored.at + 1] = "adopt"
      /\ restored.at \in 0 .. Len(journaled)
  BY TurnsCounted DEF BranchInv, Branching!BranchTypeOK, Branching!AdoptedFirst
<1>2. Cardinality(UsersOf(journaled)) \in Nat /\ Cardinality(UsersOf(line)) \in Nat /\ inputs \in Nat
  BY <1>1, BeginningsAreInputs, SideAssumption DEF BranchInv, Branching!BranchTypeOK
<1>3. CASE journaled' = journaled /\ UNCHANGED turnRuns
  <2>1. \A n : Branching!Begun(n)' = Branching!Begun(n)
    BY <1>3, BoundariesStay
  <2>2. Cardinality(UsersOf(journaled)) <= inputs
    BY <1>1, <1>2
  <2> QED BY <1>1, <1>3, <2>1, <2>2
<1>4. CASE /\ line # << >> /\ journaled' = Append(journaled, Head(line))
           /\ turnRuns' = Branching!RunsAfter(Head(line))
  <2> DEFINE s == Head(line)
  <2>1. /\ s \in Branching!Submissions /\ s = line[1] /\ 1 \in DOMAIN line
        /\ Cardinality(UsersOf(line)) = Cardinality(UsersOf(Tail(line))) + (IF s = "user" THEN 1 ELSE 0)
        /\ Tail(line) \in Seq(Branching!Submissions)
    BY <1>1, <1>4, HeadLeaves
  <2>2. Cardinality(UsersOf(Tail(line))) \in Nat
    BY <2>1, BeginningsAreInputs
  <2>3. (s = "end" => turnRuns) /\ standing = "open"
    BY <1>4, <2>1 DEF BranchInv, TurnsInv, LineInv
  <2>4. journaled' = Append(journaled, s) /\ turnRuns' = Branching!RunsAfter(s)
    BY <1>4
  <2>9. Len(journaled) = restored.at /\ restored.planned => s = "adopt"
    BY <1>4, <2>3 DEF BranchInv, AdoptingInv
  <2> HIDE DEF s
  <2>5. /\ journaled' \in Seq(Branching!Submissions) /\ turnRuns' \in BOOLEAN
        /\ Len(journaled') = Len(journaled) + 1 /\ journaled'[Len(journaled')] = s
        /\ turnRuns' <=> Running(journaled')
        /\ Cardinality(Beginnings(journaled', Len(journaled')))
             = Cardinality(EndsOf(journaled')) + (IF turnRuns' THEN 1 ELSE 0)
        /\ Cardinality(UsersOf(journaled')) = Cardinality(UsersOf(journaled)) + (IF s = "user" THEN 1 ELSE 0)
        /\ \A i \in DOMAIN journaled : /\ i \in DOMAIN journaled' /\ journaled'[i] = journaled[i]
                                       /\ Branching!Begun(i)' = Branching!Begun(i)
    BY <2>1, <2>3, <2>4, JournalGrows
  <2>6. Cardinality(UsersOf(journaled')) <= inputs
    BY <1>1, <1>2, <2>1, <2>2, <2>5
  <2>7. ASSUME restored.planned PROVE journaled'[restored.at + 1] = "adopt"
    <3>1. CASE Len(journaled) = restored.at
      BY <2>5, <2>7, <2>9, <3>1
    <3>2. CASE Len(journaled) # restored.at
      <4>1. restored.at + 1 \in DOMAIN journaled /\ Len(journaled) > restored.at
        BY <1>1, <3>2
      <4> QED BY <1>1, <2>5, <2>7, <4>1
    <3> QED BY <3>1, <3>2
  <2>8. Len(journaled') \in Nat /\ Len(journaled) <= Len(journaled')
    BY <1>1, <2>5
  <2> QED BY <1>1, <2>5, <2>6, <2>7, <2>8
<1> QED BY <1>3, <1>4 DEF Branching!Lands

\* A session that stops leaves nobody waiting, and no child to nobody.
LEMMA StopsSafe ==
  ASSUME BranchInv, Branching!Lands(line), line' = << >>, standing' \in {"closed", "failed", "gone"},
         UNCHANGED <<adoption, restored, taken, inputs>>,
         branching' \in [Branch -> {"unasked", "submitted", "pending", "copying", "creating", "created", "done"}],
         child' \in [Branch -> {"none", "open", "closed"}],
         answered' \in [Branch -> {"none", "waits", "resolved", "rejected"}],
         \A r \in Branch :
           /\ answered'[r] # "waits" /\ (answered[r] = "resolved" => answered'[r] = "resolved")
           /\ child'[r] = "open" => child[r] = "open" /\ branching'[r] = branching[r]
           /\ branching'[r] \in {"copying", "creating", "created"} => branching'[r] = branching[r]
  PROVE  BranchInv'
<1>1. /\ journaled' \in Seq(Branching!Submissions) /\ turnRuns' \in BOOLEAN
      /\ Len(journaled) \in Nat /\ Len(journaled') \in Nat /\ Len(journaled) <= Len(journaled')
      /\ turnRuns' <=> Running(journaled')
      /\ Cardinality(Beginnings(journaled', Len(journaled')))
           = Cardinality(EndsOf(journaled')) + (IF turnRuns' THEN 1 ELSE 0)
      /\ Cardinality(UsersOf(journaled')) <= inputs
      /\ \A i \in DOMAIN journaled : /\ i \in DOMAIN journaled' /\ journaled'[i] = journaled[i]
                                     /\ Branching!Begun(i)' = Branching!Begun(i)
      /\ restored.planned /\ Len(journaled') > restored.at => journaled'[restored.at + 1] = "adopt"
  BY JournalLands
<1>2. Branching!BranchTypeOK'
  <2>1. restored' \in [at : 0 .. Len(journaled'), planned : BOOLEAN, times : 0 .. MaxRestores]
    BY <1>1 DEF BranchInv, Branching!BranchTypeOK
  <2> QED BY <1>1, <2>1 DEF BranchInv, Branching!BranchTypeOK
<1>3. TurnsInv'
  <2>1. UsersOf(line') = {} /\ Cardinality({}) = 0 /\ DOMAIN line' = {}
    BY NoInputs
  <2>2. Cardinality(UsersOf(line')) = 0
    BY <2>1
  <2>3. Cardinality(UsersOf(journaled')) \in Nat
    BY <1>1, BeginningsAreInputs
  <2>4. Cardinality(UsersOf(journaled')) + Cardinality(UsersOf(line')) <= inputs'
    BY <1>1, <2>2, <2>3
  <2> QED BY <1>1, <2>1, <2>4, TurnsCounted
<1>4. LineInv'
  BY DEF LineInv
<1>5. RequestsInv'
  BY DEF BranchInv, RequestsInv
<1>6. AdoptingInv' /\ Branching!AdoptedFirst'
  BY <1>1 DEF AdoptingInv, Branching!AdoptedFirst
<1>7. Branching!NoStrayBranches'
  BY DEF BranchInv, Branching!NoStrayBranches
<1>8. Branching!BranchesAtBoundary'
  <2> SUFFICES ASSUME NEW r \in Branch, branching'[r] \in {"copying", "creating", "created"}
               PROVE  \E i \in DOMAIN journaled' : journaled'[i] = r /\ taken'[r] = Branching!Begun(i)'
    BY DEF Branching!BranchesAtBoundary
  <2>1. PICK i \in DOMAIN journaled : journaled[i] = r /\ taken[r] = Branching!Begun(i)
    BY DEF BranchInv, Branching!BranchesAtBoundary
  <2> QED BY <1>1, <2>1
<1> QED BY <1>2, <1>3, <1>4, <1>5, <1>6, <1>7, <1>8 DEF BranchInv

\* A parent that closes or fails rejects the callers that wait, and leaves the children.
LEMMA ParentStopsSafe ==
  ASSUME BranchInv, Branching!Lands(line), NEW to \in {"closed", "failed"}, Branching!Stops(to)
  PROVE  BranchInv'
<1>1. /\ standing' \in {"closed", "failed", "gone"} /\ line' = << >>
      /\ UNCHANGED <<adoption, restored, taken, inputs>>
      /\ answered' = [r \in Branch |-> IF r \in Branch /\ answered[r] = "waits" THEN "rejected" ELSE answered[r]]
      /\ branching' = branching /\ child' = child
  BY DEF Branching!Stops, Branching!Rejected
<1>2. /\ branching \in [Branch -> {"unasked", "submitted", "pending", "copying", "creating", "created", "done"}]
      /\ child \in [Branch -> {"none", "open", "closed"}]
      /\ answered \in [Branch -> {"none", "waits", "resolved", "rejected"}]
  BY DEF BranchInv, Branching!BranchTypeOK
<1>3. /\ answered' \in [Branch -> {"none", "waits", "resolved", "rejected"}]
      /\ \A r \in Branch :
           /\ answered'[r] # "waits" /\ (answered[r] = "resolved" => answered'[r] = "resolved")
           /\ child'[r] = "open" => child[r] = "open" /\ branching'[r] = branching[r]
           /\ branching'[r] \in {"copying", "creating", "created"} => branching'[r] = branching[r]
  BY <1>1, <1>2
<1> QED BY <1>1, <1>2, <1>3, StopsSafe

\* A parent that dies takes with it what was under way.
LEMMA DiesSafe ==
  ASSUME BranchInv, Branching!Dies
  PROVE  BranchInv'
<1>1. /\ Branching!Lands(line) /\ standing' = "gone" /\ line' = << >>
      /\ branching' = [r \in Branch |-> IF r \in Branching!Underway THEN "done" ELSE branching[r]]
      /\ answered' = [r \in Branch |-> IF answered[r] = "waits" THEN "none" ELSE answered[r]]
      /\ child' = [r \in Branch |-> IF child[r] = "open" THEN "closed" ELSE child[r]]
      /\ UNCHANGED <<adoption, restored, taken, inputs>>
  BY DEF Branching!Dies
<1>2. /\ branching \in [Branch -> {"unasked", "submitted", "pending", "copying", "creating", "created", "done"}]
      /\ child \in [Branch -> {"none", "open", "closed"}]
      /\ answered \in [Branch -> {"none", "waits", "resolved", "rejected"}]
  BY DEF BranchInv, Branching!BranchTypeOK
<1>3. /\ branching' \in [Branch -> {"unasked", "submitted", "pending", "copying", "creating", "created", "done"}]
      /\ child' \in [Branch -> {"none", "open", "closed"}]
      /\ answered' \in [Branch -> {"none", "waits", "resolved", "rejected"}]
      /\ \A r \in Branch :
           /\ answered'[r] # "waits" /\ (answered[r] = "resolved" => answered'[r] = "resolved")
           /\ child'[r] # "open"
           /\ branching'[r] \notin {"copying", "creating", "created"}
  BY <1>1, <1>2 DEF Branching!Underway
<1> QED BY <1>1, <1>3, StopsSafe

\* Input that is refused only leaves the line.
LEMMA RefusesSafe ==
  ASSUME BranchInv, Branching!Refuses
  PROVE  BranchInv'
<1>1. CASE Branching!Stops("failed")
  <2>1. Branching!Lands(line)
    BY DEF Branching!Refuses, Branching!Lands
  <2> QED BY <1>1, <2>1, ParentStopsSafe
<1>2. CASE ~Branching!Stops("failed")
  <2>1. /\ standing = "open" /\ line # << >> /\ line' = Tail(line) /\ Head(line) = "user" /\ turnRuns
        /\ UNCHANGED <<standing, journaled, turnRuns, adoption, restored, branching, taken, child, answered, inputs>>
    BY <1>2 DEF Branching!Refuses, Branching!Gates
  <2>2. /\ line' \in Seq(Branching!Submissions)
        /\ Cardinality(UsersOf(line)) = Cardinality(UsersOf(line')) + 1
        /\ Cardinality(UsersOf(line')) \in Nat
        /\ \A i, k \in DOMAIN line' : line'[i] = line'[k] /\ line'[i] \notin {"user", "adopt"} => i = k
        /\ \A i \in DOMAIN line' : line'[i] \in Branch => branching[line'[i]] = "submitted"
        /\ \A i \in DOMAIN line' : line'[i] = "end" => turnRuns
    BY <2>1, LineMoves
  <2>3. Branching!BranchTypeOK'
    BY <2>1, <2>2 DEF BranchInv, Branching!BranchTypeOK
  <2>4. TurnsInv'
    <3>1. TurnsInv /\ journaled \in Seq(Branching!Submissions) /\ inputs \in Nat
      BY SideAssumption DEF BranchInv, Branching!BranchTypeOK
    <3>2. Cardinality(UsersOf(journaled)) \in Nat
      BY <3>1, BeginningsAreInputs
    <3> QED BY <2>1, <2>2, <3>1, <3>2, TurnsCounted
  <2>5. LineInv'
    BY <2>1, <2>2 DEF BranchInv, LineInv
  <2>6. RequestsInv' /\ Branching!NoStrayBranches' /\ Branching!BranchesAtBoundary' /\ Branching!AdoptedFirst'
    <3>1. \A n : Branching!Begun(n)' = Branching!Begun(n)
      BY <2>1, BoundariesStay
    <3>2. RequestsInv'
      BY <2>1, <3>1 DEF BranchInv, RequestsInv, Branching!Underway
    <3>3. Branching!BranchesAtBoundary'
      BY <2>1, <3>1 DEF BranchInv, Branching!BranchesAtBoundary
    <3> QED BY <2>1, <3>2, <3>3 DEF BranchInv, Branching!NoStrayBranches, Branching!AdoptedFirst
  <2>7. AdoptingInv'
    BY <2>1 DEF BranchInv, AdoptingInv
  <2> QED BY <2>3, <2>4, <2>5, <2>6, <2>7 DEF BranchInv
<1> QED BY <1>1, <1>2

\* A publication goes on, of a journal that stays.
LEMMA PublicationSafe ==
  ASSUME BranchInv, NEW r \in Branch, branching[r] \in {"copying", "creating", "created"},
         NEW to \in {"creating", "created", "done"}, Branching!Advances(r, to),
         UNCHANGED <<standing, line, journaled, turnRuns, adoption, restored, taken, inputs>>,
         child' \in [Branch -> {"none", "open", "closed"}],
         answered' \in [Branch -> {"none", "waits", "resolved", "rejected"}],
         \A q \in Branch : q # r => child'[q] = child[q] /\ answered'[q] = answered[q],
         child'[r] = "open" => to \in {"created", "done"},
         child'[r] = "open" /\ to = "done" => answered'[r] = "resolved",
         to # "done" => answered'[r] = answered[r],
         to = "done" => answered'[r] # "waits"
  PROVE  BranchInv'
<1>1. /\ branching' = [branching EXCEPT ![r] = to]
      /\ branching \in [Branch -> {"unasked", "submitted", "pending", "copying", "creating", "created", "done"}]
      /\ branching'[r] = to /\ \A q \in Branch : q # r => branching'[q] = branching[q]
  BY DEF BranchInv, Branching!BranchTypeOK, Branching!Advances
<1>2. Branching!BranchTypeOK'
  BY <1>1 DEF BranchInv, Branching!BranchTypeOK
<1>3. TurnsInv'
  <2>1. TurnsInv
    BY DEF BranchInv
  <2> QED BY <2>1, TurnsCounted
<1>4. LineInv'
  <2>1. LineInv
    BY DEF BranchInv
  <2>2. \A i \in DOMAIN line : line[i] \in Branch => line[i] # r
    BY <2>1 DEF LineInv
  <2> QED BY <1>1, <2>1, <2>2 DEF LineInv
<1>5. \A n : Branching!Begun(n)' = Branching!Begun(n)
  BY BoundariesStay
<1>6. RequestsInv'
  <2> SUFFICES ASSUME NEW q \in Branch
               PROVE  /\ standing' = "open" /\ q \in Branching!Underway' => answered'[q] = "waits"
                      /\ answered'[q] = "waits" => standing' = "open" /\ q \in Branching!Underway'
                      /\ child'[q] = "open" => branching'[q] \in {"created", "done"}
                      /\ standing' = "open" /\ branching'[q] = "pending" =>
                           /\ turnRuns'
                           /\ \E i \in DOMAIN journaled' :
                                journaled'[i] = q /\ Branching!Begun(i)' = Branching!Turns(journaled') + 1
    BY DEF RequestsInv
  <2>1. /\ standing = "open" /\ q \in Branching!Underway => answered[q] = "waits"
        /\ answered[q] = "waits" => standing = "open" /\ q \in Branching!Underway
        /\ child[q] = "open" => branching[q] \in {"created", "done"}
        /\ standing = "open" /\ branching[q] = "pending" =>
             /\ turnRuns
             /\ \E i \in DOMAIN journaled :
                  journaled[i] = q /\ Branching!Begun(i) = Branching!Turns(journaled) + 1
    BY DEF BranchInv, RequestsInv
  <2>2. CASE q = r
    BY <1>1, <2>1, <2>2 DEF Branching!Underway
  <2>3. CASE q # r
    BY <1>1, <1>5, <2>1, <2>3 DEF Branching!Underway
  <2> QED BY <2>2, <2>3
<1>7. AdoptingInv' /\ Branching!AdoptedFirst'
  BY DEF BranchInv, AdoptingInv, Branching!AdoptedFirst
<1>8. Branching!NoStrayBranches'
  BY <1>1 DEF BranchInv, Branching!NoStrayBranches
<1>9. Branching!BranchesAtBoundary'
  <2> SUFFICES ASSUME NEW q \in Branch, branching'[q] \in {"copying", "creating", "created"}
               PROVE  \E i \in DOMAIN journaled' : journaled'[i] = q /\ taken'[q] = Branching!Begun(i)'
    BY DEF Branching!BranchesAtBoundary
  <2>1. branching[q] \in {"copying", "creating", "created"}
    BY <1>1
  <2>2. PICK i \in DOMAIN journaled : journaled[i] = q /\ taken[q] = Branching!Begun(i)
    BY <2>1 DEF BranchInv, Branching!BranchesAtBoundary
  <2> QED BY <1>5, <2>2
<1> QED BY <1>2, <1>3, <1>4, <1>6, <1>7, <1>8, <1>9 DEF BranchInv

\* A child is copied, created and published, or its request ends without one.
LEMMA PublicationsSafe ==
  ASSUME BranchInv, NEW r \in Branch, Branching!Copies(r) \/ Branching!Creates(r) \/ Branching!Publishes(r)
  PROVE  BranchInv'
<1> DEFINE rejected == [q \in Branch |-> IF q \in {r} /\ answered[q] = "waits" THEN "rejected" ELSE answered[q]]
<1>1. /\ child \in [Branch -> {"none", "open", "closed"}]
      /\ answered \in [Branch -> {"none", "waits", "resolved", "rejected"}]
  BY DEF BranchInv, Branching!BranchTypeOK
<1>2. /\ rejected \in [Branch -> {"none", "waits", "resolved", "rejected"}]
      /\ rejected[r] # "waits" /\ (rejected[r] = "resolved" <=> answered[r] = "resolved")
      /\ \A q \in Branch : q # r => rejected[q] = answered[q]
  BY <1>1
<1>3. rejected = Branching!Rejected({r})
  BY DEF Branching!Rejected
<1>4. /\ child[r] = "open" => branching[r] \in {"created", "done"}
      /\ standing = "open" /\ r \in Branching!Underway => answered[r] = "waits"
      /\ answered[r] = "waits" => standing = "open"
  BY DEF BranchInv, RequestsInv
<1> HIDE DEF rejected
<1>5. CASE Branching!Copies(r)
  <2>1. /\ branching[r] = "copying" /\ child' = child
        /\ UNCHANGED <<standing, line, journaled, turnRuns, adoption, restored, taken, inputs>>
        /\ \/ Branching!Advances(r, "creating") /\ answered' = answered
           \/ Branching!Advances(r, "done") /\ answered' = rejected
    BY <1>3, <1>5 DEF Branching!Copies
  <2>2. CASE Branching!Advances(r, "creating") /\ answered' = answered
    BY <1>1, <1>4, <2>1, <2>2, PublicationSafe
  <2>3. CASE Branching!Advances(r, "done") /\ answered' = rejected
    BY <1>1, <1>2, <1>4, <2>1, <2>3, PublicationSafe
  <2> QED BY <2>1, <2>2, <2>3
<1>6. CASE Branching!Creates(r)
  <2>1. /\ branching[r] = "creating"
        /\ UNCHANGED <<standing, line, journaled, turnRuns, adoption, restored, taken, inputs>>
        /\ \/ Branching!Advances(r, "created") /\ child' = [child EXCEPT ![r] = "open"] /\ answered' = answered
           \/ Branching!Advances(r, "done") /\ child' = [child EXCEPT ![r] = "closed"] /\ answered' = rejected
    BY <1>3, <1>6 DEF Branching!Creates
  <2>2. CASE Branching!Advances(r, "created") /\ child' = [child EXCEPT ![r] = "open"] /\ answered' = answered
    <3>1. /\ child' \in [Branch -> {"none", "open", "closed"}]
          /\ \A q \in Branch : q # r => child'[q] = child[q]
      BY <1>1, <2>2
    <3> QED BY <1>1, <2>1, <2>2, <3>1, PublicationSafe
  <2>3. CASE Branching!Advances(r, "done") /\ child' = [child EXCEPT ![r] = "closed"] /\ answered' = rejected
    <3>1. /\ child' \in [Branch -> {"none", "open", "closed"}] /\ child'[r] # "open"
          /\ \A q \in Branch : q # r => child'[q] = child[q]
      BY <1>1, <2>3
    <3> QED BY <1>2, <2>1, <2>3, <3>1, PublicationSafe
  <2> QED BY <2>1, <2>2, <2>3
<1>7. CASE Branching!Publishes(r)
  <2>1. /\ branching[r] = "created" /\ Branching!Advances(r, "done") /\ standing # "gone"
        /\ UNCHANGED <<standing, line, journaled, turnRuns, adoption, restored, taken, inputs>>
        /\ \/ /\ standing \notin {"closed", "failed"} /\ child' = child
              /\ answered' = [answered EXCEPT ![r] = IF @ = "waits" THEN "resolved" ELSE @]
           \/ child' = [child EXCEPT ![r] = "closed"] /\ answered' = rejected
    BY <1>3, <1>7 DEF Branching!Publishes, Branching!Publishable
  <2>2. CASE /\ standing \notin {"closed", "failed"} /\ child' = child
             /\ answered' = [answered EXCEPT ![r] = IF @ = "waits" THEN "resolved" ELSE @]
    <3>1. standing = "open"
      BY <2>1, <2>2 DEF BranchInv, Branching!BranchTypeOK
    <3>2. answered[r] = "waits"
      BY <1>4, <2>1, <3>1 DEF Branching!Underway
    <3>3. /\ answered' \in [Branch -> {"none", "waits", "resolved", "rejected"}] /\ answered'[r] = "resolved"
          /\ \A q \in Branch : q # r => answered'[q] = answered[q]
      BY <1>1, <2>2, <3>2
    <3> QED BY <1>1, <2>1, <2>2, <3>3, PublicationSafe
  <2>3. CASE child' = [child EXCEPT ![r] = "closed"] /\ answered' = rejected
    <3>1. /\ child' \in [Branch -> {"none", "open", "closed"}] /\ child'[r] # "open"
          /\ \A q \in Branch : q # r => child'[q] = child[q]
      BY <1>1, <2>3
    <3> QED BY <1>2, <2>1, <2>3, <3>1, PublicationSafe
  <2> QED BY <2>1, <2>2, <2>3
<1> QED BY <1>5, <1>6, <1>7

\* A session that is opened again ends the turn that ran, and drops what waited for it.
LEMMA RestoresSafe ==
  ASSUME BranchInv, NEW planned \in BOOLEAN, Branching!Restores(planned)
  PROVE  BranchInv'
<1>1. /\ standing # "open" /\ restored.times < MaxRestores
      /\ \A r \in Branch : branching[r] \notin {"copying", "creating", "created"}
      /\ standing' = "open" /\ turnRuns' = FALSE
      /\ journaled' = IF turnRuns THEN Append(journaled, "end") ELSE journaled
      /\ branching' = [r \in Branch |-> IF r \in Branching!Underway THEN "done" ELSE branching[r]]
      /\ adoption' = IF planned THEN "planned" ELSE "none"
      /\ restored' = [at |-> Len(journaled'), planned |-> planned, times |-> restored.times + 1]
      /\ UNCHANGED <<line, taken, child, answered, inputs>>
  BY DEF Branching!Restores
<1>2. /\ journaled \in Seq(Branching!Submissions) /\ turnRuns \in BOOLEAN /\ line = << >>
      /\ turnRuns <=> Running(journaled)
      /\ Cardinality(Beginnings(journaled, Len(journaled)))
           = Cardinality(EndsOf(journaled)) + (IF turnRuns THEN 1 ELSE 0)
      /\ Cardinality(UsersOf(journaled)) + Cardinality(UsersOf(line)) <= inputs
      /\ restored.times \in 0 .. MaxRestores
  BY <1>1, TurnsCounted DEF BranchInv, Branching!BranchTypeOK, LineInv
<1>3. UsersOf(line) = {} /\ Cardinality({}) = 0 /\ DOMAIN line = {}
  BY <1>2, NoInputs
<1>4. /\ journaled' \in Seq(Branching!Submissions)
      /\ turnRuns' <=> Running(journaled')
      /\ Cardinality(Beginnings(journaled', Len(journaled')))
           = Cardinality(EndsOf(journaled')) + (IF turnRuns' THEN 1 ELSE 0)
      /\ Cardinality(UsersOf(journaled')) = Cardinality(UsersOf(journaled))
  <2>1. CASE ~turnRuns
    BY <1>1, <1>2, <2>1
  <2>2. CASE turnRuns
    <3>1. /\ "end" \in Branching!Submissions /\ journaled' = Append(journaled, "end")
          /\ turnRuns' = Branching!RunsAfter("end") /\ "end" # "user"
      BY <1>1, <2>2 DEF Branching!Submissions, Branching!RunsAfter
    <3>2. /\ journaled' \in Seq(Branching!Submissions)
          /\ turnRuns' <=> Running(journaled')
          /\ Cardinality(Beginnings(journaled', Len(journaled')))
               = Cardinality(EndsOf(journaled')) + (IF turnRuns' THEN 1 ELSE 0)
          /\ Cardinality(UsersOf(journaled)) \in Nat
          /\ Cardinality(UsersOf(journaled')) = Cardinality(UsersOf(journaled)) + (IF "end" = "user" THEN 1 ELSE 0)
      BY <2>2, <3>1, JournalGrows
    <3> QED BY <3>1, <3>2
  <2> QED BY <2>1, <2>2
<1>5. Len(journaled') \in Nat
  BY <1>4
<1>6. Branching!BranchTypeOK'
  <2>1. restored' \in [at : 0 .. Len(journaled'), planned : BOOLEAN, times : 0 .. MaxRestores]
    BY <1>1, <1>2, <1>5, SideAssumption
  <2>2. branching' \in [Branch -> {"unasked", "submitted", "pending", "copying", "creating", "created", "done"}]
    BY <1>1 DEF BranchInv, Branching!BranchTypeOK
  <2> QED BY <1>1, <1>4, <2>1, <2>2 DEF BranchInv, Branching!BranchTypeOK
<1>7. TurnsInv'
  BY <1>1, <1>2, <1>3, <1>4, TurnsCounted
<1>8. LineInv'
  BY <1>1, <1>2 DEF LineInv
<1>9. \A r \in Branch : /\ branching'[r] \in {"unasked", "done"}
                        /\ answered'[r] # "waits"
                        /\ child'[r] = "open" => branching[r] \in {"created", "done"}
                        /\ branching[r] = "done" => branching'[r] = "done"
                        /\ child[r] = "open" /\ branching[r] = "done" => answered[r] = "resolved"
  BY <1>1 DEF BranchInv, Branching!BranchTypeOK, Branching!Underway, RequestsInv, Branching!NoStrayBranches
<1>10. RequestsInv' /\ Branching!NoStrayBranches' /\ Branching!BranchesAtBoundary'
  <2>1. \A r \in Branch : child'[r] = "open" => branching'[r] = "done" /\ answered'[r] = "resolved"
    BY <1>1, <1>9
  <2>2. \A r \in Branch : r \notin Branching!Underway'
    BY <1>9 DEF Branching!Underway
  <2> QED BY <1>9, <2>1, <2>2 DEF RequestsInv, Branching!NoStrayBranches, Branching!BranchesAtBoundary
<1>11. AdoptingInv' /\ Branching!AdoptedFirst'
  BY <1>1, <1>2, <1>5 DEF AdoptingInv, Branching!AdoptedFirst
<1> QED BY <1>6, <1>7, <1>8, <1>10, <1>11 DEF BranchInv

\* Nothing happens.
LEMMA BranchesRest ==
  ASSUME BranchInv, UNCHANGED bV
  PROVE  BranchInv'
<1>1. UNCHANGED <<standing, line, journaled, turnRuns, adoption, restored, branching, taken, child, answered, inputs>>
  BY DEF bV
<1>2. \A n : Branching!Begun(n)' = Branching!Begun(n)
  BY <1>1, BoundariesStay
<1>3. Branching!BranchTypeOK' /\ LineInv' /\ AdoptingInv' /\ Branching!NoStrayBranches' /\ Branching!AdoptedFirst'
  BY <1>1 DEF BranchInv, Branching!BranchTypeOK, LineInv, AdoptingInv, Branching!NoStrayBranches,
              Branching!AdoptedFirst
<1>4. TurnsInv'
  <2>1. TurnsInv
    BY DEF BranchInv
  <2> QED BY <1>1, <2>1, TurnsCounted
<1>5. RequestsInv'
  BY <1>1, <1>2 DEF BranchInv, RequestsInv, Branching!Underway
<1>6. Branching!BranchesAtBoundary'
  BY <1>1, <1>2 DEF BranchInv, Branching!BranchesAtBoundary
<1> QED BY <1>3, <1>4, <1>5, <1>6 DEF BranchInv

\* Every step keeps the invariant.
LEMMA BranchesNextSafe ==
  ASSUME BranchInv, [Branching!BranchNext]_bV
  PROVE  BranchInv'
<1>1. CASE UNCHANGED bV
  BY <1>1, BranchesRest
<1>2. CASE Branching!Inputs \/ Branching!TurnSettles \/ Branching!Commits \/ Branching!Refuses \/ Branching!Dies
  BY <1>2, InputsSafe, TurnSettlesSafe, CommitsSafe, RefusesSafe, DiesSafe
<1>3. CASE Branching!ParentStops
  <2>1. /\ Branching!Lands(line) /\ \E to \in {"closed", "failed"} : Branching!Stops(to)
    BY <1>3 DEF Branching!ParentStops
  <2> QED BY <2>1, ParentStopsSafe
<1>4. ASSUME NEW r \in Branch, \/ Branching!Branches(r) \/ Branching!Copies(r)
                               \/ Branching!Creates(r) \/ Branching!Publishes(r)
      PROVE  BranchInv'
  BY <1>4, BranchesSafe, PublicationsSafe
<1>5. ASSUME NEW planned \in BOOLEAN, Branching!Restores(planned) PROVE BranchInv'
  BY <1>5, RestoresSafe
<1> QED BY <1>1, <1>2, <1>3, <1>4, <1>5 DEF Branching!BranchNext

-----------------------------------------------------------------------------
\* The display

\* The parts of a text of two pieces.
LEMMA Parts ==
  /\ SubSeq(<<1, 2>>, 1, 0) = << >> /\ SubSeq(<<1, 2>>, 3, 2) = << >>
  /\ SubSeq(<<1, 2>>, 1, 1) = <<1>> /\ SubSeq(<<1, 2>>, 2, 2) = <<2>>
  /\ SubSeq(<<1, 2>>, 1, 2) = <<1, 2>>
<1> DEFINE s == <<1, 2>>
<1>1. s \in Seq({1, 2}) /\ Len(s) = 2 /\ s[1] = 1 /\ s[2] = 2
  OBVIOUS
<1> HIDE DEF s
<1>2. SubSeq(s, 1, 0) = << >> /\ SubSeq(s, 3, 2) = << >>
  BY SubSeqEmpty
<1>3. SubSeq(s, 1, 2) = s
  BY <1>1, SubSeqFull
<1>4. \A n \in {1, 2} : /\ SubSeq(s, n, n) \in Seq({1, 2}) /\ Len(SubSeq(s, n, n)) = 1
                        /\ SubSeq(s, n, n)[1] = n
  <2> SUFFICES ASSUME NEW n \in {1, 2}
               PROVE  /\ SubSeq(s, n, n) \in Seq({1, 2}) /\ Len(SubSeq(s, n, n)) = 1
                      /\ SubSeq(s, n, n)[1] = n
    OBVIOUS
  <2>1. n \in Int /\ \A i \in n .. n : s[i] \in {1, 2}
    BY <1>1
  <2>2. /\ SubSeq(s, n, n) \in Seq({1, 2})
        /\ Len(SubSeq(s, n, n)) = IF n <= n THEN n - n + 1 ELSE 0
        /\ \A i \in 1 .. n - n + 1 : SubSeq(s, n, n)[i] = s[n + i - 1]
    BY <2>1, SubSeqProperties
  <2> QED BY <1>1, <2>2
<1>5. \A n \in {1, 2} : SubSeq(s, n, n) = <<n>>
  <2> SUFFICES ASSUME NEW n \in {1, 2} PROVE SubSeq(s, n, n) = <<n>>
    OBVIOUS
  <2> DEFINE t == SubSeq(s, n, n)
  <2>1. t \in Seq({1, 2}) /\ Len(t) = 1 /\ t[1] = n
    BY <1>4
  <2> HIDE DEF t
  <2>2. t = <<n>>
    BY <2>1
  <2> QED BY <2>2 DEF t
<1> QED BY <1>2, <1>3, <1>5 DEF s

\* The pieces of a text are its beginnings.
LEMMA Texts ==
  /\ <<1>> # << >> /\ <<1, 2>> # << >> /\ Len(<<1>>) = 1 /\ Len(<<1, 2>>) = 2
  /\ <<1>> \in Seq({1, 2}) /\ <<1, 2>> \in Seq({1, 2})
  /\ << >> \o <<1, 2>> = <<1, 2>> /\ <<1>> \o << >> = <<1>> /\ <<1, 2>> \o << >> = <<1, 2>>
<1>1. Len(<<1>>) = 1 /\ Len(<<1, 2>>) = 2 /\ Len(<< >>) = 0
  OBVIOUS
<1>2. <<1>> # << >> /\ <<1, 2>> # << >>
  BY <1>1
<1>3. <<1>> \in Seq({1, 2}) /\ <<1, 2>> \in Seq({1, 2})
  OBVIOUS
<1> QED BY <1>1, <1>2, <1>3, ConcatEmptySeq

\* A text of two pieces from its parts, ...
LEMMA Joined == <<1>> \o <<2>> = <<1, 2>>
<1> DEFINE s == <<1>>
           t == <<2>>
           u == <<1, 2>>
<1>1. /\ s \in Seq({1, 2}) /\ t \in Seq({1, 2}) /\ u \in Seq({1, 2})
      /\ Len(s) = 1 /\ Len(t) = 1 /\ Len(u) = 2 /\ s[1] = 1 /\ t[1] = 2 /\ u[1] = 1 /\ u[2] = 2
  OBVIOUS
<1> HIDE DEF s, t, u
<1>2. /\ s \o t \in Seq({1, 2}) /\ Len(s \o t) = 1 + 1
      /\ \A i \in 1 .. 1 + 1 : (s \o t)[i] = IF i <= 1 THEN s[i] ELSE t[i - 1]
  <2>1. /\ s \o t \in Seq({1, 2}) /\ Len(s \o t) = Len(s) + Len(t)
        /\ \A i \in 1 .. Len(s) + Len(t) : (s \o t)[i] = IF i <= Len(s) THEN s[i] ELSE t[i - Len(s)]
    BY <1>1, ConcatProperties
  <2> QED BY <1>1, <2>1
<1>3. \A i \in 1 .. 2 : (s \o t)[i] = u[i]
  BY <1>1, <1>2
<1>4. s \o t = u
  BY <1>1, <1>2, <1>3, SeqEqual
<1> QED BY <1>4 DEF s, t, u

\* ... and those parts are the pieces of the whole one.
LEMMA PiecesAre == Display!Whole = <<1, 2>> /\ Pieces(0) = << >> /\ Pieces(1) = <<1>> /\ Pieces(2) = <<1, 2>>
BY Parts DEF Pieces, Display!Whole

\* How many updates an observation sends is a number.
LEMMA UpdatesCount ==
  ASSUME NEW n \in Nat, NEW S \in SUBSET Display!New(n), revision \in Nat
  PROVE  Display!Cardinality(S) \in Nat
<1>1. Display!Cardinality(S) = Cardinality(S)
  BY DEF Display!Cardinality, Cardinality
<1>2. IsFiniteSet((revision + 1) .. n)
  BY FS_Interval
<1>3. IsFiniteSet({records[i] : i \in (revision + 1) .. n})
  <2> DEFINE f == [i \in (revision + 1) .. n |-> records[i]]
             T == {records[i] : i \in (revision + 1) .. n}
  <2>1. f \in Surjection((revision + 1) .. n, T)
    BY DEF Surjection
  <2> HIDE DEF f
  <2> QED BY <1>2, <2>1, FS_Surjection
<1>4. IsFiniteSet(S)
  BY <1>3, FS_Subset DEF Display!New
<1> QED BY <1>1, <1>4, FS_CardinalityType

\* Nothing is shown at the start.
LEMMA DisplayStarts == Display!DisplayInit => DisplayInv
<1> SUFFICES ASSUME Display!DisplayInit PROVE DisplayInv
  OBVIOUS
<1>1. /\ stage = [c \in Completions |-> "none"] /\ emitted = [c \in Completions |-> 0]
      /\ plain \subseteq Completions /\ records = << >> /\ observing = << >>
      /\ streamed = [c \in Completions |-> << >>] /\ revision = 0
      /\ shown = [c \in Completions |-> << >>]
      /\ call = [t \in ToolCalls |-> [status |-> "none", at |-> 0]]
      /\ asking = [t \in ToolCalls |-> [phase |-> "none", at |-> 0]]
      /\ sent = 0 /\ written = 0 /\ turnEnds = [phase |-> "running", at |-> 0]
      /\ selected = 0 /\ projected = 0 /\ accounts = 0
      /\ reading = [at |-> 0, value |-> 0, out |-> FALSE] /\ readAt = 0 /\ used = 0
  BY DEF Display!DisplayInit, Display!NoRead
<1>2. /\ Len(records) = 0 /\ 0 \in 0 .. 0 /\ 0 \in 0 .. MaxSelections
      /\ << >> \in Seq({1, 2}) /\ << >> \in Seq(Completions) /\ << >> \in Seq([revision : Nat, policy : {0}])
  BY <1>1, SideAssumption
<1>3. Display!DisplayTypeOK
  BY <1>1, <1>2 DEF Display!DisplayTypeOK
<1>4. DisplayTypes
  BY <1>1, <1>2, <1>3 DEF DisplayTypes
<1>5. TextInv
  <2>1. \A c \in Completions : ~Observed(c)
    BY <1>1 DEF Observed
  <2>2. \A c \in Completions : CompletionInv(c)
    BY <1>1, <2>1, PiecesAre DEF CompletionInv
  <2> QED BY <1>1, <2>2 DEF TextInv
<1>6. CardInv /\ UsageInv
  BY <1>1, <1>2 DEF CardInv, UsageInv, Display!Usage
<1> QED BY <1>1, <1>4, <1>5, <1>6 DEF DisplayInv

\* What was shown stays, and with it what is said of it, ...
LEMMA TextStays ==
  ASSUME DisplayInv, UNCHANGED <<stage, emitted, plain, records, streamed, revision, shown, turnEnds>>,
         \A i \in DOMAIN observing' : observing'[i].revision \in 0 .. Len(records)
  PROVE  TextInv'
<1>1. TextInv
  BY DEF DisplayInv
<1>2. \A c \in Completions : CompletionInv(c)'
  BY <1>1 DEF TextInv, CompletionInv, Observed, Pieces, Display!Whole
<1> QED BY <1>1, <1>2 DEF TextInv

\* ... so do the cards while more is sent, ...
LEMMA CardsStay ==
  ASSUME DisplayInv, UNCHANGED <<call, asking>>, sent' \in Nat, sent <= sent', written' \in Nat, written <= written'
  PROVE  /\ CardInv'
         /\ call' \in [ToolCalls -> [status : {"none", "pending", "ended"}, at : 0 .. sent']]
         /\ asking' \in [ToolCalls -> [phase : {"none", "flushing", "out", "answered"}, at : 0 .. sent']]
<1>1. /\ CardInv
      /\ call \in [ToolCalls -> [status : {"none", "pending", "ended"}, at : 0 .. sent]]
      /\ asking \in [ToolCalls -> [phase : {"none", "flushing", "out", "answered"}, at : 0 .. sent]]
      /\ sent \in Nat /\ written \in 0 .. sent
  BY DEF DisplayInv, DisplayTypes, Display!DisplayTypeOK
<1>2. 0 .. sent \subseteq 0 .. sent'
  BY <1>1
<1>3. /\ call' \in [ToolCalls -> [status : {"none", "pending", "ended"}, at : 0 .. sent']]
      /\ asking' \in [ToolCalls -> [phase : {"none", "flushing", "out", "answered"}, at : 0 .. sent']]
  BY <1>1, <1>2
<1>4. \A t \in ToolCalls : call[t].at \in Nat /\ asking[t].at \in Nat
  BY <1>1
<1>5. CardInv'
  BY <1>1, <1>4 DEF CardInv
<1> QED BY <1>3, <1>5

\* ... and what is read of its usage.
LEMMA UsageStays ==
  ASSUME DisplayInv, UNCHANGED <<records, observing, selected, projected, accounts, reading, readAt, used>>
  PROVE  UsageInv'
BY DEF DisplayInv, UsageInv, Display!Usage

\* An observation shows what of each text was not streamed.
LEMMA ObservationShows ==
  ASSUME DisplayInv, NEW s \in [revision : Nat, policy : {0}], s.revision <= Len(records), Display!Observes(s),
         UNCHANGED <<stage, emitted, plain, records>>
  PROVE  /\ shown' \in [Completions -> Seq({1, 2})] /\ streamed' \in [Completions -> Seq({1, 2})]
         /\ revision' \in 0 .. Len(records) /\ sent' \in Nat /\ sent <= sent'
         /\ revision <= revision' /\ s.revision <= revision'
         /\ \A c \in Completions : CompletionInv(c)'
<1>1. /\ shown \in [Completions -> Seq({1, 2})] /\ streamed \in [Completions -> Seq({1, 2})]
      /\ revision \in 0 .. Len(records) /\ sent \in Nat /\ Len(records) \in Nat /\ s.revision \in Nat
      /\ emitted \in [Completions -> 0 .. 2]
      /\ records \in Seq(Completions) /\ DOMAIN records = 1 .. Len(records)
      /\ \A i, k \in DOMAIN records : records[i] = records[k] => i = k
      /\ \A c \in Completions : CompletionInv(c)
  BY DEF DisplayInv, DisplayTypes, Display!DisplayTypeOK, TextInv
<1>2. /\ shown' = [c \in Completions |-> IF c \in Display!New(s.revision) THEN shown[c] \o Display!Rest(c) ELSE shown[c]]
      /\ streamed' = [c \in Completions |-> IF c \in Display!New(s.revision) THEN << >> ELSE streamed[c]]
      /\ revision' = IF s.revision > revision THEN s.revision ELSE revision
  BY DEF Display!Observes, Display!Seen
<1>3. sent' \in Nat /\ sent <= sent'
  <2> DEFINE S == {c \in Display!New(s.revision) : Display!Rest(c) # << >>}
  <2>1. sent' = sent + Display!Cardinality(S) + (IF projected' # projected THEN 1 ELSE 0)
    BY DEF Display!Observes
  <2>2. Display!Cardinality(S) \in Nat
    BY <1>1, UpdatesCount
  <2> HIDE DEF S
  <2> QED BY <1>1, <2>1, <2>2
<1>4. revision' \in 0 .. Len(records) /\ revision <= revision' /\ s.revision <= revision'
  BY <1>1, <1>2
<1>5. ASSUME NEW c \in Completions, c \in Display!New(s.revision)
      PROVE  /\ Observed(c)' /\ stage[c] = "settled" /\ shown[c] = Pieces(emitted[c])
             /\ shown'[c] \in Seq({1, 2}) /\ Len(shown'[c]) <= 2
             /\ c \in plain => shown'[c] = Display!Whole
  <2>1. PICK i \in (revision + 1) .. s.revision : records[i] = c
    BY <1>5 DEF Display!New
  <2>2. i \in DOMAIN records /\ i \in 1 .. revision' /\ i \notin 1 .. revision
    BY <1>1, <1>4, <2>1
  <2>3. ~Observed(c) /\ Observed(c)'
    <3>1. Observed(c)'
      BY <2>1, <2>2 DEF Observed
    <3>2. ASSUME NEW k \in 1 .. revision, records[k] = c PROVE FALSE
      <4>1. k \in DOMAIN records
        BY <1>1
      <4> QED BY <1>1, <2>1, <2>2, <3>2, <4>1
    <3> QED BY <3>1, <3>2 DEF Observed
  <2>4. CompletionInv(c) /\ stage[c] = "settled"
    BY <1>1, <2>1, <2>2 DEF CompletionInv
  <2>5. shown[c] = Pieces(emitted[c]) /\ streamed[c] = Pieces(emitted[c])
    BY <2>3, <2>4 DEF CompletionInv
  <2>6. shown'[c] = shown[c] \o Display!Rest(c)
    BY <1>2, <1>5
  <2>7. CASE emitted[c] = 0
    <3>1. shown[c] = << >> /\ Display!Rest(c) = <<1, 2>>
      BY <2>5, <2>7, PiecesAre DEF Display!Rest
    <3>2. shown'[c] = <<1, 2>>
      BY <2>6, <3>1
    <3> QED BY <2>3, <2>4, <2>5, <3>2, PiecesAre
  <2>8. CASE emitted[c] = 1
    <3>1. shown[c] = <<1>> /\ streamed[c] = <<1>> /\ streamed[c] # << >> /\ Len(streamed[c]) = 1
      BY <2>5, <2>8, PiecesAre, Texts
    <3>2. SubSeq(<<1, 2>>, 2, 2) = <<2>>
      BY Parts
    <3>3. Display!Rest(c) = IF c \in plain THEN <<2>> ELSE << >>
      <4>1. Display!Rest(c) = IF c \in plain THEN SubSeq(<<1, 2>>, 1 + 1, 2) ELSE << >>
        BY <3>1, PiecesAre DEF Display!Rest
      <4>2. 1 + 1 = 2
        OBVIOUS
      <4> QED BY <3>2, <4>1, <4>2
    <3>4. shown'[c] = IF c \in plain THEN <<1, 2>> ELSE <<1>>
      BY <2>6, <3>1, <3>3, Texts, Joined
    <3>5. shown'[c] \in Seq({1, 2}) /\ Len(shown'[c]) <= 2 /\ (c \in plain => shown'[c] = <<1, 2>>)
      <4>1. CASE c \in plain
        BY <3>4, <4>1, Texts
      <4>2. CASE c \notin plain
        <5>1. shown'[c] = <<1>> /\ 1 <= 2
          BY <3>4, <4>2
        <5> QED BY <4>2, <5>1, Texts
      <4> QED BY <4>1, <4>2
    <3> QED BY <2>3, <2>4, <2>5, <3>5, PiecesAre
  <2>9. CASE emitted[c] = 2
    <3>1. shown[c] = <<1, 2>> /\ streamed[c] = <<1, 2>> /\ streamed[c] # << >> /\ Len(streamed[c]) = 2
      BY <2>5, <2>9, PiecesAre
    <3>2. SubSeq(<<1, 2>>, 3, 2) = << >>
      BY Parts
    <3>3. Display!Rest(c) = << >>
      BY <3>1, <3>2, PiecesAre DEF Display!Rest
    <3>4. shown'[c] = <<1, 2>>
      BY <2>6, <3>1, <3>3
    <3> QED BY <2>3, <2>4, <2>5, <3>4, PiecesAre
  <2> QED BY <1>1, <2>7, <2>8, <2>9
<1>6. ASSUME NEW c \in Completions, c \notin Display!New(s.revision)
      PROVE  /\ Observed(c)' <=> Observed(c)
             /\ shown'[c] = shown[c] /\ streamed'[c] = streamed[c]
  <2>1. \A i \in (revision + 1) .. s.revision : records[i] # c
    BY <1>6 DEF Display!New
  <2>2. (\E i \in 1 .. revision' : records[i] = c) <=> \E i \in 1 .. revision : records[i] = c
    <3>1. \A i \in 1 .. revision : i \in 1 .. revision'
      BY <1>1, <1>4
    <3>2. \A i \in 1 .. revision' : i \in 1 .. revision \/ i \in (revision + 1) .. s.revision
      BY <1>1, <1>2
    <3> QED BY <2>1, <3>1, <3>2
  <2> QED BY <1>2, <1>6, <2>2 DEF Observed
<1>7. ASSUME NEW c \in Completions PROVE CompletionInv(c)'
  <2>1. CompletionInv(c)
    BY <1>1
  <2>2. CASE c \in Display!New(s.revision)
    BY <1>5, <2>1, <2>2 DEF CompletionInv, Display!Whole
  <2>3. CASE c \notin Display!New(s.revision)
    BY <1>6, <2>1, <2>3 DEF CompletionInv, Pieces, Display!Whole
  <2> QED BY <2>2, <2>3
<1>8. shown' \in [Completions -> Seq({1, 2})] /\ streamed' \in [Completions -> Seq({1, 2})]
  <2>1. \A c \in Completions : shown'[c] \in Seq({1, 2})
    BY <1>1, <1>5, <1>6
  <2>2. DOMAIN shown' = Completions /\ shown' = [c \in Completions |-> shown'[c]]
    BY <1>2
  <2>3. streamed' \in [Completions -> Seq({1, 2})]
    BY <1>1, <1>2
  <2> QED BY <2>1, <2>2, <2>3
<1> QED BY <1>3, <1>4, <1>7, <1>8

\* It leaves nothing unread, and the policy shown as it is.
LEMMA ObservationReads ==
  ASSUME DisplayInv, NEW s, Display!Observes(s), UNCHANGED <<records, selected, accounts, used>>
  PROVE  /\ UsageInv' /\ readAt' \in Nat /\ reading' \in [at : Nat, value : Nat, out : BOOLEAN]
         /\ reading'.at <= Len(records) /\ readAt' <= Len(records) /\ projected' = selected
<1>1. /\ records \in Seq(Completions) /\ accounts \in Nat /\ readAt \in Nat /\ Len(records) \in Nat
      /\ reading \in [at : Nat, value : Nat, out : BOOLEAN] /\ reading.at <= Len(records) /\ readAt <= Len(records)
      /\ UsageInv
  BY DEF DisplayInv, DisplayTypes, Display!DisplayTypeOK
<1>2. /\ projected' = selected
      /\ IF Len(records) # readAt
           THEN /\ reading' = [at |-> Len(records), value |-> Len(records) + accounts, out |-> TRUE]
                /\ readAt' = Len(records)
           ELSE UNCHANGED <<reading, readAt>>
  BY DEF Display!Observes, Display!Projects, Display!Refreshes, Display!Rereads, Display!Usage
<1>3. readAt' = Len(records) /\ readAt' \in Nat /\ reading' \in [at : Nat, value : Nat, out : BOOLEAN]
      /\ reading'.at <= Len(records)
  <2> DEFINE n == Len(records)
  <2>1. n \in Nat /\ n + accounts \in Nat /\ n <= n
    BY <1>1
  <2>2. CASE n # readAt
    <3>1. reading' = [at |-> n, value |-> n + accounts, out |-> TRUE] /\ readAt' = n
      BY <1>2, <2>2
    <3> HIDE DEF n
    <3>2. reading'.at = n /\ reading' \in [at : Nat, value : Nat, out : BOOLEAN]
      BY <2>1, <3>1
    <3> QED BY <2>1, <3>1, <3>2 DEF n
  <2>3. CASE n = readAt
    BY <1>1, <1>2, <2>3
  <2> QED BY <2>2, <2>3
<1>4. UsageInv'
  BY <1>1, <1>2, <1>3 DEF UsageInv, Display!Usage
<1> QED BY <1>1, <1>2, <1>3, <1>4

\* What waits to be observed is of the journal as it is, and so is what joins it.
LEMMA SnapshotJoins ==
  ASSUME DisplayInv, NEW rs \in Seq(Completions), Len(records) <= Len(rs),
         observing' = Append(observing, Display!Snapshot(rs))
  PROVE  /\ observing' \in Seq([revision : Nat, policy : {0}]) /\ observing' # << >>
         /\ \A i \in DOMAIN observing' : observing'[i].revision \in 0 .. Len(rs)
<1>1. /\ observing \in Seq([revision : Nat, policy : {0}]) /\ Len(records) \in Nat /\ Len(rs) \in Nat
      /\ \A i \in DOMAIN observing : observing[i].revision \in 0 .. Len(records)
  BY DEF DisplayInv, DisplayTypes, TextInv
<1> DEFINE x == [revision |-> Len(rs), policy |-> 0]
<1>2. x \in [revision : Nat, policy : {0}] /\ x.revision = Len(rs)
  BY <1>1
<1>3. observing' = Append(observing, x)
  BY DEF Display!Snapshot
<1> HIDE DEF x
<1>4. \A i \in DOMAIN observing' : \/ i \in DOMAIN observing /\ observing'[i] = observing[i]
                                   \/ observing'[i] = x
  BY <1>1, <1>2, <1>3
<1>5. observing' \in Seq([revision : Nat, policy : {0}]) /\ observing' # << >>
  BY <1>1, <1>2, <1>3
<1> QED BY <1>1, <1>2, <1>4, <1>5

\* An observation shows what is left of the texts it reads.
LEMMA ObservedSafe ==
  ASSUME DisplayInv, Display!Observed
  PROVE  DisplayInv'
<1> DEFINE s == Head(observing)
<1>1. /\ observing # << >> /\ Display!Observes(s) /\ observing' = Tail(observing)
      /\ UNCHANGED <<stage, emitted, plain, records>> /\ UNCHANGED <<call, asking>>
      /\ UNCHANGED <<written, turnEnds, selected, accounts, used>>
  BY DEF Display!Observed, Display!callVars
<1>2. /\ observing \in Seq([revision : Nat, policy : {0}]) /\ Len(records) \in Nat
      /\ \A i \in DOMAIN observing : observing[i].revision \in 0 .. Len(records)
      /\ turnEnds.phase # "running" => revision = Len(records)
      /\ sent \in Nat /\ written \in 0 .. sent
  BY DEF DisplayInv, DisplayTypes, TextInv, Display!DisplayTypeOK
<1>3. /\ s \in [revision : Nat, policy : {0}] /\ s.revision <= Len(records)
      /\ Tail(observing) \in Seq([revision : Nat, policy : {0}])
      /\ \A i \in DOMAIN Tail(observing) : Tail(observing)[i].revision \in 0 .. Len(records)
  <2>1. /\ s = observing[1] /\ 1 \in DOMAIN observing /\ s \in [revision : Nat, policy : {0}]
        /\ Tail(observing) \in Seq([revision : Nat, policy : {0}])
        /\ \A i \in DOMAIN Tail(observing) : i + 1 \in DOMAIN observing /\ Tail(observing)[i] = observing[i + 1]
    BY <1>1, <1>2, HeadLeaves
  <2> QED BY <1>2, <2>1
<1> HIDE DEF s
<1>4. /\ shown' \in [Completions -> Seq({1, 2})] /\ streamed' \in [Completions -> Seq({1, 2})]
      /\ revision' \in 0 .. Len(records) /\ sent' \in Nat /\ sent <= sent' /\ revision <= revision'
      /\ \A c \in Completions : CompletionInv(c)'
  BY <1>1, <1>3, ObservationShows
<1>5. /\ UsageInv' /\ readAt' \in Nat /\ reading' \in [at : Nat, value : Nat, out : BOOLEAN]
      /\ reading'.at <= Len(records) /\ readAt' <= Len(records) /\ projected' = selected
  BY <1>1, ObservationReads
<1>6. /\ CardInv'
      /\ call' \in [ToolCalls -> [status : {"none", "pending", "ended"}, at : 0 .. sent']]
      /\ asking' \in [ToolCalls -> [phase : {"none", "flushing", "out", "answered"}, at : 0 .. sent']]
  BY <1>1, <1>2, <1>4, CardsStay
<1>7. TextInv'
  <2>1. turnEnds'.phase # "running" => revision' = Len(records)
    BY <1>1, <1>2, <1>4
  <2> QED BY <1>1, <1>3, <1>4, <2>1 DEF DisplayInv, TextInv
<1>8. Display!DisplayTypeOK'
  <2>1. written' \in 0 .. sent' /\ \A c \in Completions : streamed'[c] \in Seq({1, 2})
    BY <1>1, <1>2, <1>4
  <2>2. Display!DisplayTypeOK
    BY DEF DisplayInv, DisplayTypes
  <2> QED BY <1>1, <1>4, <1>5, <1>6, <2>1, <2>2 DEF Display!DisplayTypeOK
<1>9. DisplayTypes'
  BY <1>1, <1>3, <1>4, <1>5, <1>8 DEF DisplayInv, DisplayTypes
<1> QED BY <1>1, <1>5, <1>6, <1>7, <1>9 DEF DisplayInv

\* The end of the prompt observes the journal as it is.
LEMMA PromptFlushesSafe ==
  ASSUME DisplayInv, Display!PromptFlushes
  PROVE  DisplayInv'
<1> DEFINE s == [revision |-> Len(records), policy |-> 0]
<1>1. /\ Display!Observes(s) /\ turnEnds.phase = "running" /\ turnEnds' = [phase |-> "flushing", at |-> sent']
      /\ UNCHANGED <<stage, emitted, plain, records>> /\ UNCHANGED <<call, asking>>
      /\ UNCHANGED <<observing, written, selected, accounts, used>>
      /\ Display!TurnOver
  BY DEF Display!PromptFlushes, Display!LastLook, Display!Snapshot, Display!callVars
<1>2. /\ Len(records) \in Nat /\ sent \in Nat /\ written \in 0 .. sent /\ revision \in 0 .. Len(records)
      /\ stage \in [Completions -> {"none", "streaming", "settled", "failed"}]
  BY DEF DisplayInv, DisplayTypes, TextInv, Display!DisplayTypeOK
<1>3. s \in [revision : Nat, policy : {0}] /\ s.revision = Len(records) /\ s.revision <= Len(records)
  BY <1>2
<1> HIDE DEF s
<1>4. /\ shown' \in [Completions -> Seq({1, 2})] /\ streamed' \in [Completions -> Seq({1, 2})]
      /\ revision' \in 0 .. Len(records) /\ sent' \in Nat /\ sent <= sent' /\ s.revision <= revision'
      /\ \A c \in Completions : CompletionInv(c)'
  BY <1>1, <1>3, ObservationShows
<1>5. /\ UsageInv' /\ readAt' \in Nat /\ reading' \in [at : Nat, value : Nat, out : BOOLEAN]
      /\ reading'.at <= Len(records) /\ readAt' <= Len(records) /\ projected' = selected
  BY <1>1, ObservationReads
<1>6. /\ CardInv'
      /\ call' \in [ToolCalls -> [status : {"none", "pending", "ended"}, at : 0 .. sent']]
      /\ asking' \in [ToolCalls -> [phase : {"none", "flushing", "out", "answered"}, at : 0 .. sent']]
  BY <1>1, <1>2, <1>4, CardsStay
<1>7. TextInv'
  <2>1. revision' = Len(records)
    BY <1>2, <1>3, <1>4
  <2>2. /\ \A c \in Completions : stage[c] # "streaming"
        /\ \A c \in Completions : stage[c] = "none" => \E d \in Completions : d < c /\ stage[d] = "failed"
    <3>1. \A c \in Completions : \/ stage[c] \in {"settled", "failed"}
                                 \/ \E d \in Completions : d < c /\ stage[d] = "failed"
      BY <1>1 DEF Display!TurnOver
    <3>2. ASSUME NEW c \in Completions, stage[c] = "streaming" PROVE FALSE
      <4>1. \A d \in Completions : d < c => stage[d] = "settled"
        BY <3>2 DEF DisplayInv, TextInv, CompletionInv
      <4> QED BY <3>1, <3>2, <4>1
    <3> QED BY <3>1, <3>2
  <2> QED BY <1>1, <1>4, <2>1, <2>2 DEF DisplayInv, TextInv
<1>8. turnEnds' \in [phase : {"running", "flushing", "answered"}, at : Nat] /\ turnEnds'.phase = "flushing"
  BY <1>1, <1>4
<1>9. Display!DisplayTypeOK'
  <2>1. written' \in 0 .. sent' /\ \A c \in Completions : streamed'[c] \in Seq({1, 2})
    BY <1>1, <1>2, <1>4
  <2>2. Display!DisplayTypeOK
    BY DEF DisplayInv, DisplayTypes
  <2> QED BY <1>1, <1>4, <1>5, <1>6, <1>8, <2>1, <2>2 DEF Display!DisplayTypeOK
<1>10. DisplayTypes'
  BY <1>1, <1>4, <1>5, <1>8, <1>9 DEF DisplayInv, DisplayTypes
<1> QED BY <1>1, <1>5, <1>6, <1>7, <1>8, <1>10 DEF DisplayInv

\* The answer forgets what was streamed: all of it was shown.
LEMMA PromptAnswersSafe ==
  ASSUME DisplayInv, Display!PromptAnswers
  PROVE  DisplayInv'
<1>1. /\ turnEnds.phase = "flushing" /\ turnEnds' = [turnEnds EXCEPT !.phase = "answered"] /\ written >= turnEnds.at
      /\ streamed' = [c \in Completions |-> << >>]
      /\ UNCHANGED <<stage, emitted, plain, records, revision, shown, call, asking>>
      /\ UNCHANGED <<selected, projected, accounts, reading, readAt, used>>
      /\ UNCHANGED <<observing, sent, written>>
  BY DEF Display!PromptAnswers, Display!Flushed, Display!callVars, Display!currentVars
<1>2. /\ turnEnds \in [phase : {"running", "flushing", "answered"}, at : Nat] /\ sent \in Nat /\ written \in 0 .. sent
      /\ revision = Len(records)
      /\ \A c \in Completions : stage[c] # "streaming"
      /\ stage \in [Completions -> {"none", "streaming", "settled", "failed"}]
      /\ records \in Seq(Completions)
      /\ \A c \in Completions : CompletionInv(c)
  BY <1>1 DEF DisplayInv, DisplayTypes, TextInv, Display!DisplayTypeOK
<1>3. turnEnds' \in [phase : {"running", "flushing", "answered"}, at : Nat] /\ turnEnds'.at <= written
      /\ turnEnds'.phase = "answered"
  BY <1>1, <1>2
<1>4. streamed' \in [Completions -> Seq({1, 2})]
  BY <1>1
<1>5. CardInv' /\ UsageInv'
  BY <1>1, <1>2, CardsStay, UsageStays
<1>6. ASSUME NEW c \in Completions PROVE CompletionInv(c)'
  <2>1. CompletionInv(c) /\ (Observed(c)' <=> Observed(c)) /\ streamed'[c] = << >>
    BY <1>1, <1>2 DEF Observed
  <2>2. ~Observed(c) /\ stage[c] # "failed" => emitted[c] = 0
    <3>1. DOMAIN records = 1 .. revision
      BY <1>2
    <3> QED BY <1>2, <2>1, <3>1 DEF CompletionInv, Observed
  <2> QED BY <1>1, <2>1, <2>2, PiecesAre DEF CompletionInv, Pieces, Display!Whole
<1>7. TextInv'
  BY <1>1, <1>6 DEF DisplayInv, TextInv
<1>8. Display!DisplayTypeOK'
  BY <1>1, <1>2, <1>3, <1>4 DEF DisplayInv, DisplayTypes, Display!DisplayTypeOK
<1>9. DisplayTypes'
  BY <1>1, <1>2, <1>3, <1>4, <1>8 DEF DisplayInv, DisplayTypes
<1> QED BY <1>1, <1>3, <1>5, <1>7, <1>9 DEF DisplayInv

\* What the turn does with a completion leaves the others as they are.
LEMMA CompletionStays ==
  ASSUME NEW c \in Completions, CompletionInv(c), UNCHANGED <<plain, revision>>,
         stage'[c] = stage[c], emitted'[c] = emitted[c], streamed'[c] = streamed[c], shown'[c] = shown[c],
         \A d \in Completions : stage[d] = "settled" => stage'[d] = "settled",
         Observed(c)' <=> Observed(c),
         (\E i \in DOMAIN records' : records'[i] = c) <=> \E i \in DOMAIN records : records[i] = c
  PROVE  CompletionInv(c)'
BY DEF CompletionInv, Pieces, Display!Whole

\* A completion begins, once those before it have settled.
LEMMA BeginsSafe ==
  ASSUME DisplayInv, NEW c \in Completions, Display!Begins(c)
  PROVE  DisplayInv'
<1>1. /\ stage[c] = "none" /\ (\A d \in Completions : d < c => stage[d] = "settled")
      /\ stage' = [stage EXCEPT ![c] = "streaming"]
      /\ UNCHANGED <<emitted, plain, records, streamed, revision, shown, call, asking>>
      /\ UNCHANGED <<selected, projected, accounts, reading, readAt, used>>
      /\ UNCHANGED <<observing, sent, written, turnEnds>>
  BY DEF Display!Begins, Display!callVars, Display!currentVars
<1>2. /\ sent \in Nat /\ written \in 0 .. sent
      /\ stage \in [Completions -> {"none", "streaming", "settled", "failed"}]
      /\ \A d \in Completions : CompletionInv(d)
      /\ turnEnds.phase # "running" =>
           \A d \in Completions : stage[d] = "none" => \E e \in Completions : e < d /\ stage[e] = "failed"
  BY DEF DisplayInv, DisplayTypes, TextInv, Display!DisplayTypeOK
<1>3. /\ stage' \in [Completions -> {"none", "streaming", "settled", "failed"}] /\ stage'[c] = "streaming"
      /\ \A d \in Completions : d # c => stage'[d] = stage[d]
  BY <1>1, <1>2
<1>4. CardInv' /\ UsageInv'
  BY <1>1, <1>2, CardsStay, UsageStays
<1>5. turnEnds.phase = "running"
  <2>1. ~\E e \in Completions : e < c /\ stage[e] = "failed"
    BY <1>1
  <2> QED BY <1>1, <1>2, <2>1 DEF DisplayInv, DisplayTypes
<1>6. ASSUME NEW d \in Completions PROVE CompletionInv(d)'
  <2>1. Observed(d)' <=> Observed(d)
    BY <1>1 DEF Observed
  <2>2. CASE d = c
    BY <1>1, <1>2, <1>3, <2>1, <2>2 DEF CompletionInv, Pieces, Display!Whole
  <2>3. CASE d # c
    BY <1>1, <1>2, <1>3, <2>1, <2>3, CompletionStays
  <2> QED BY <2>2, <2>3
<1>7. TextInv'
  BY <1>1, <1>5, <1>6 DEF DisplayInv, TextInv
<1>8. DisplayTypes'
  BY <1>1, <1>3 DEF DisplayInv, DisplayTypes, Display!DisplayTypeOK
<1> QED BY <1>1, <1>4, <1>7, <1>8 DEF DisplayInv

\* A text streamed piece by piece.
LEMMA Appended == Append(<< >>, 1) = <<1>> /\ Append(<<1>>, 2) = <<1, 2>>
<1>1. Append(<< >>, 1) = << >> \o <<1>> /\ Append(<<1>>, 2) = <<1>> \o <<2>>
  <2>1. << >> \in Seq({1, 2}) /\ <<1>> \in Seq({1, 2})
    BY Texts
  <2> QED BY <2>1, AppendIsConcat
<1>2. << >> \o <<1>> = <<1>>
  BY Texts, ConcatEmptySeq
<1> QED BY <1>1, <1>2, Joined

\* A piece is streamed and shown.
LEMMA StreamsSafe ==
  ASSUME DisplayInv, NEW c \in Completions, Display!Streams(c)
  PROVE  DisplayInv'
<1>1. /\ stage[c] = "streaming" /\ emitted[c] < 2 /\ emitted' = [emitted EXCEPT ![c] = emitted[c] + 1]
      /\ streamed' = [streamed EXCEPT ![c] = Append(streamed[c], emitted'[c])]
      /\ shown' = [shown EXCEPT ![c] = Append(shown[c], emitted'[c])] /\ sent' = sent + 1
      /\ UNCHANGED <<stage, plain, records, revision, call, asking>>
      /\ UNCHANGED <<selected, projected, accounts, reading, readAt, used>>
      /\ UNCHANGED <<observing, written, turnEnds>>
  BY DEF Display!Streams, Display!callVars, Display!currentVars, Display!Whole
<1>2. /\ sent \in Nat /\ written \in 0 .. sent /\ emitted \in [Completions -> 0 .. 2]
      /\ shown \in [Completions -> Seq({1, 2})] /\ streamed \in [Completions -> Seq({1, 2})]
      /\ \A d \in Completions : CompletionInv(d)
      /\ DOMAIN records = 1 .. Len(records) /\ revision \in 0 .. Len(records) /\ Len(records) \in Nat
  <2>1. records \in Seq(Completions) /\ revision \in 0 .. Len(records) /\ TextInv
    BY DEF DisplayInv, DisplayTypes, Display!DisplayTypeOK
  <2>2. DOMAIN records = 1 .. Len(records) /\ Len(records) \in Nat
    BY <2>1
  <2>3. \A d \in Completions : CompletionInv(d)
    BY <2>1 DEF TextInv
  <2> QED BY <2>1, <2>2, <2>3 DEF DisplayInv, DisplayTypes, Display!DisplayTypeOK
<1>3. /\ emitted'[c] = emitted[c] + 1 /\ emitted[c] \in {0, 1} /\ emitted' \in [Completions -> 0 .. 2]
      /\ streamed'[c] = Append(streamed[c], emitted[c] + 1) /\ shown'[c] = Append(shown[c], emitted[c] + 1)
      /\ \A d \in Completions : d # c => /\ emitted'[d] = emitted[d] /\ streamed'[d] = streamed[d]
                                         /\ shown'[d] = shown[d]
  BY <1>1, <1>2
<1>4. /\ shown' \in [Completions -> Seq({1, 2})] /\ streamed' \in [Completions -> Seq({1, 2})]
  BY <1>1, <1>2, <1>3
<1>5. /\ sent' \in Nat /\ sent <= sent' /\ written \in 0 .. sent' /\ written \in Nat /\ written <= written
  BY <1>1, <1>2
<1>6. /\ CardInv' /\ UsageInv'
      /\ call' \in [ToolCalls -> [status : {"none", "pending", "ended"}, at : 0 .. sent']]
      /\ asking' \in [ToolCalls -> [phase : {"none", "flushing", "out", "answered"}, at : 0 .. sent']]
  BY <1>1, <1>5, CardsStay, UsageStays
<1>7. ASSUME NEW d \in Completions PROVE CompletionInv(d)'
  <2>1. Observed(d)' <=> Observed(d)
    BY <1>1 DEF Observed
  <2>2. CASE d = c
    <3>1. ~Observed(c)
      <4>1. \A i \in DOMAIN records : records[i] # c
        BY <1>1, <1>2 DEF CompletionInv
      <4>2. \A i \in 1 .. revision : i \in DOMAIN records
        BY <1>2
      <4> QED BY <4>1, <4>2 DEF Observed
    <3>2. shown[c] = Pieces(emitted[c]) /\ streamed[c] = Pieces(emitted[c])
      BY <1>1, <1>2, <3>1 DEF CompletionInv
    <3>3. Append(<< >>, 1) = <<1>> /\ Append(<<1>>, 2) = <<1, 2>>
      BY Appended
    <3>4. Append(Pieces(emitted[c]), emitted[c] + 1) = Pieces(emitted[c] + 1)
      <4>1. CASE emitted[c] = 0
        BY <3>3, <4>1, PiecesAre
      <4>2. CASE emitted[c] = 1
        <5>1. emitted[c] + 1 = 2
          BY <4>2
        <5> QED BY <3>3, <4>2, <5>1, PiecesAre
      <4> QED BY <1>3, <4>1, <4>2
    <3>5. shown'[c] = Pieces(emitted'[c]) /\ streamed'[c] = Pieces(emitted'[c])
      BY <1>3, <3>2, <3>4
    <3> QED BY <1>1, <1>2, <2>1, <2>2, <3>1, <3>5 DEF CompletionInv, Pieces, Display!Whole
  <2>3. CASE d # c
    BY <1>1, <1>2, <1>3, <2>1, <2>3, CompletionStays
  <2> QED BY <2>2, <2>3
<1>8. TextInv'
  BY <1>1, <1>7 DEF DisplayInv, TextInv
<1>9. DisplayTypes'
  BY <1>1, <1>2, <1>3, <1>4, <1>5, <1>6 DEF DisplayInv, DisplayTypes, Display!DisplayTypeOK
<1> QED BY <1>1, <1>6, <1>8, <1>9 DEF DisplayInv

\* A completion that ends is journaled, and its record waits to be observed.
LEMMA SettlesSafe ==
  ASSUME DisplayInv, NEW c \in Completions, Display!Settles(c)
  PROVE  DisplayInv'
<1>1. /\ stage[c] = "streaming" /\ stage' = [stage EXCEPT ![c] = "settled"]
      /\ records' = Append(records, c) /\ observing' = Append(observing, Display!Snapshot(records'))
      /\ UNCHANGED <<emitted, plain, streamed, revision, shown, call, asking>>
      /\ UNCHANGED <<selected, projected, accounts, reading, readAt, used>>
      /\ UNCHANGED <<sent, written, turnEnds>>
  BY DEF Display!Settles, Display!callVars, Display!currentVars
<1>2. /\ sent \in Nat /\ written \in 0 .. sent /\ records \in Seq(Completions) /\ Len(records) \in Nat
      /\ stage \in [Completions -> {"none", "streaming", "settled", "failed"}]
      /\ revision \in 0 .. Len(records) /\ reading \in [at : Nat, value : Nat, out : BOOLEAN] /\ readAt \in Nat
      /\ reading.at <= Len(records) /\ readAt <= Len(records)
  <2>1. records \in Seq(Completions)
    BY DEF DisplayInv, DisplayTypes
  <2> QED BY <2>1 DEF DisplayInv, DisplayTypes, Display!DisplayTypeOK
<1>3. /\ \A d \in Completions : CompletionInv(d)
      /\ \A i, k \in DOMAIN records : records[i] = records[k] => i = k
      /\ turnEnds.phase # "running" => \A d \in Completions : stage[d] # "streaming"
  BY DEF DisplayInv, TextInv
<1>4. /\ stage' \in [Completions -> {"none", "streaming", "settled", "failed"}] /\ stage'[c] = "settled"
      /\ \A d \in Completions : d # c => stage'[d] = stage[d]
  BY <1>1, <1>2
<1>5. /\ records' \in Seq(Completions) /\ Len(records') = Len(records) + 1 /\ Len(records) <= Len(records')
      /\ \A i \in DOMAIN records : i \in DOMAIN records' /\ records'[i] = records[i]
      /\ \A i \in DOMAIN records' : i \in DOMAIN records \/ (i = Len(records') /\ records'[i] = c)
      /\ Len(records') \in DOMAIN records' /\ records'[Len(records')] = c
      /\ DOMAIN records = 1 .. Len(records)
  BY <1>1, <1>2
<1>6. \A i \in DOMAIN records : records[i] # c
  BY <1>1, <1>3 DEF CompletionInv
<1>7. /\ observing' \in Seq([revision : Nat, policy : {0}]) /\ observing' # << >>
      /\ \A i \in DOMAIN observing' : observing'[i].revision \in 0 .. Len(records')
  BY <1>1, <1>5, SnapshotJoins
<1>8. CardInv'
  BY <1>1, <1>2, CardsStay
<1>9. UsageInv'
  <2>1. readAt # Len(records')
    BY <1>2, <1>5
  <2> QED BY <1>1, <1>7, <2>1 DEF DisplayInv, UsageInv
<1>10. turnEnds.phase = "running"
  BY <1>1, <1>3
<1>11. \A d \in Completions : Observed(d)' <=> Observed(d)
  <2>1. \A i \in 1 .. revision : i \in DOMAIN records /\ records'[i] = records[i]
    BY <1>2, <1>5
  <2> QED BY <1>1, <2>1 DEF Observed
<1>12. ASSUME NEW d \in Completions PROVE CompletionInv(d)'
  <2>1. CASE d = c
    <3>1. /\ \E i \in DOMAIN records' : records'[i] = c
          /\ \A e \in Completions : e < c => stage[e] = "settled"
      BY <1>1, <1>3, <1>5 DEF CompletionInv
    <3>2. \A e \in Completions : e < c => stage'[e] = "settled"
      BY <1>1, <1>4, <3>1
    <3> QED BY <1>1, <1>3, <1>4, <1>11, <2>1, <3>1, <3>2 DEF CompletionInv, Pieces, Display!Whole
  <2>2. CASE d # c
    <3>1. (\E i \in DOMAIN records' : records'[i] = d) <=> \E i \in DOMAIN records : records[i] = d
      BY <1>5, <2>2
    <3>2. \A e \in Completions : stage[e] = "settled" => stage'[e] = "settled"
      BY <1>1, <1>4
    <3> QED BY <1>1, <1>3, <1>4, <1>11, <2>2, <3>1, <3>2, CompletionStays
  <2> QED BY <2>1, <2>2
<1>13. \A i, k \in DOMAIN records' : records'[i] = records'[k] => i = k
  BY <1>3, <1>5, <1>6
<1>14. TextInv'
  BY <1>1, <1>7, <1>10, <1>12, <1>13 DEF TextInv
<1>15. Display!DisplayTypeOK'
  <2>1. Display!DisplayTypeOK
    BY DEF DisplayInv, DisplayTypes
  <2>2. revision \in 0 .. Len(records') /\ reading.at <= Len(records') /\ readAt <= Len(records')
    BY <1>2, <1>5
  <2> QED BY <1>1, <1>4, <2>1, <2>2 DEF Display!DisplayTypeOK
<1>16. DisplayTypes'
  BY <1>1, <1>5, <1>7, <1>15 DEF DisplayInv, DisplayTypes
<1> QED BY <1>1, <1>8, <1>9, <1>14, <1>16 DEF DisplayInv

\* A completion that fails leaves what was shown, and no record.
LEMMA FailsSafe ==
  ASSUME DisplayInv, NEW c \in Completions, Display!Fails(c)
  PROVE  DisplayInv'
<1>1. /\ stage[c] = "streaming" /\ stage' = [stage EXCEPT ![c] = "failed"]
      /\ streamed' = [streamed EXCEPT ![c] = << >>]
      /\ observing' = Append(observing, Display!Snapshot(records))
      /\ UNCHANGED <<emitted, plain, records, revision, shown, call, asking>>
      /\ UNCHANGED <<selected, projected, accounts, reading, readAt, used>>
      /\ UNCHANGED <<sent, written, turnEnds>>
  BY DEF Display!Fails, Display!callVars, Display!currentVars
<1>2. /\ sent \in Nat /\ written \in 0 .. sent /\ records \in Seq(Completions) /\ Len(records) \in Nat
      /\ stage \in [Completions -> {"none", "streaming", "settled", "failed"}]
      /\ streamed \in [Completions -> Seq({1, 2})] /\ revision \in 0 .. Len(records)
      /\ DOMAIN records = 1 .. Len(records)
  <2>1. records \in Seq(Completions)
    BY DEF DisplayInv, DisplayTypes
  <2> QED BY <2>1 DEF DisplayInv, DisplayTypes, Display!DisplayTypeOK
<1>3. /\ \A d \in Completions : CompletionInv(d)
      /\ turnEnds.phase # "running" => \A d \in Completions : stage[d] # "streaming"
  BY DEF DisplayInv, TextInv
<1>4. /\ stage' \in [Completions -> {"none", "streaming", "settled", "failed"}] /\ stage'[c] = "failed"
      /\ streamed' \in [Completions -> Seq({1, 2})]
      /\ \A d \in Completions : d # c => stage'[d] = stage[d] /\ streamed'[d] = streamed[d]
  BY <1>1, <1>2
<1>5. ~Observed(c)
  <2>1. \A i \in DOMAIN records : records[i] # c
    BY <1>1, <1>3 DEF CompletionInv
  <2>2. \A i \in 1 .. revision : i \in DOMAIN records
    BY <1>2
  <2> QED BY <2>1, <2>2 DEF Observed
<1>6. /\ observing' \in Seq([revision : Nat, policy : {0}]) /\ observing' # << >>
      /\ \A i \in DOMAIN observing' : observing'[i].revision \in 0 .. Len(records)
  <2>1. Len(records) <= Len(records)
    BY <1>2
  <2> QED BY <1>1, <1>2, <2>1, SnapshotJoins
<1>7. CardInv'
  BY <1>1, <1>2, CardsStay
<1>8. UsageInv'
  BY <1>1, <1>6 DEF DisplayInv, UsageInv, Display!Usage
<1>9. turnEnds.phase = "running"
  BY <1>1, <1>3
<1>10. \A d \in Completions : Observed(d)' <=> Observed(d)
  BY <1>1 DEF Observed
<1>11. ASSUME NEW d \in Completions PROVE CompletionInv(d)'
  <2>1. CASE d = c
    <3>1. \A e \in Completions : e < c => stage'[e] = "settled"
      <4>1. \A e \in Completions : e < c => stage[e] = "settled" /\ e # c
        BY <1>1, <1>3 DEF CompletionInv
      <4> QED BY <1>4, <4>1
    <3> QED BY <1>1, <1>3, <1>4, <1>5, <1>10, <2>1, <3>1 DEF CompletionInv, Pieces, Display!Whole
  <2>2. CASE d # c
    <3>1. \A e \in Completions : stage[e] = "settled" => stage'[e] = "settled"
      BY <1>1, <1>4
    <3> QED BY <1>1, <1>3, <1>4, <1>10, <2>2, <3>1, CompletionStays
  <2> QED BY <2>1, <2>2
<1>12. TextInv'
  BY <1>1, <1>6, <1>9, <1>11 DEF DisplayInv, TextInv
<1>13. Display!DisplayTypeOK'
  <2>1. Display!DisplayTypeOK
    BY DEF DisplayInv, DisplayTypes
  <2> QED BY <1>1, <1>4, <2>1 DEF Display!DisplayTypeOK
<1>14. DisplayTypes'
  BY <1>1, <1>4, <1>6, <1>13 DEF DisplayInv, DisplayTypes
<1> QED BY <1>1, <1>7, <1>8, <1>12, <1>14 DEF DisplayInv

\* Cards open, ask and end while the texts stay.
LEMMA CardsSafe ==
  ASSUME DisplayInv, UNCHANGED <<stage, emitted, plain, records, streamed, revision, shown>>,
         UNCHANGED <<selected, projected, accounts, reading, readAt, used>>,
         UNCHANGED <<observing, turnEnds>>, CardInv', sent' \in Nat, written' \in 0 .. sent', written <= written',
         call' \in [ToolCalls -> [status : {"none", "pending", "ended"}, at : 0 .. sent']],
         asking' \in [ToolCalls -> [phase : {"none", "flushing", "out", "answered"}, at : 0 .. sent']]
  PROVE  DisplayInv'
<1>1. TextInv'
  <2>1. \A i \in DOMAIN observing' : observing'[i].revision \in 0 .. Len(records)
    BY DEF DisplayInv, TextInv
  <2> QED BY <2>1, TextStays
<1>2. UsageInv'
  BY UsageStays
<1>3. DisplayTypes'
  BY DEF DisplayInv, DisplayTypes, Display!DisplayTypeOK
<1>4. turnEnds'.phase = "answered" => turnEnds'.at <= written'
  <2>1. turnEnds.at \in Nat /\ written \in Nat /\ written' \in Nat
    BY DEF DisplayInv, DisplayTypes, Display!DisplayTypeOK
  <2> QED BY <2>1 DEF DisplayInv
<1> QED BY <1>1, <1>2, <1>3, <1>4 DEF DisplayInv

\* Calls open and end, permissions are asked and answered: only updates are added.
LEMMA CardStepsSafe ==
  ASSUME DisplayInv, NEW t \in ToolCalls,
         \/ Display!CardOpens(t) \/ Display!CardEnds(t) \/ Display!Asks(t) \/ Display!AskedOut(t) \/ Display!AskEnds(t)
  PROVE  DisplayInv'
<1>1. /\ sent \in Nat /\ written \in 0 .. sent /\ written \in Nat /\ written <= written /\ sent + 1 \in Nat
      /\ call \in [ToolCalls -> [status : {"none", "pending", "ended"}, at : 0 .. sent]]
      /\ asking \in [ToolCalls -> [phase : {"none", "flushing", "out", "answered"}, at : 0 .. sent]]
      /\ \A q \in ToolCalls : /\ call[q].at \in Nat /\ asking[q].at \in Nat
                              /\ call[q].at <= sent /\ asking[q].at <= sent
      /\ CardInv
  <2>1. /\ sent \in Nat /\ written \in 0 .. sent
        /\ call \in [ToolCalls -> [status : {"none", "pending", "ended"}, at : 0 .. sent]]
        /\ asking \in [ToolCalls -> [phase : {"none", "flushing", "out", "answered"}, at : 0 .. sent]]
    BY DEF DisplayInv, DisplayTypes, Display!DisplayTypeOK
  <2>2. \A q \in ToolCalls : call[q].at \in 0 .. sent /\ asking[q].at \in 0 .. sent
    BY <2>1
  <2> QED BY <2>1, <2>2 DEF DisplayInv
<1>2. 0 .. sent \subseteq 0 .. sent + 1 /\ written \in 0 .. sent + 1 /\ sent + 1 \in 0 .. sent + 1 /\ sent + 1 # 0
      /\ \A x \in 0 .. sent : x <= sent + 1
  BY <1>1
<1>3. CASE Display!CardOpens(t)
  <2>1. /\ call[t].status = "none" /\ sent' = sent + 1
        /\ call' = [call EXCEPT ![t] = [status |-> "pending", at |-> sent + 1]]
        /\ UNCHANGED <<stage, emitted, plain, records, streamed, revision, shown>>
        /\ UNCHANGED <<selected, projected, accounts, reading, readAt, used>>
        /\ UNCHANGED <<observing, turnEnds>> /\ UNCHANGED <<asking, written>>
    BY <1>3 DEF Display!CardOpens, Display!textVars, Display!currentVars
  <2>2. /\ call'[t].status = "pending" /\ call'[t].at = sent + 1
        /\ \A q \in ToolCalls : q # t => call'[q] = call[q]
        /\ call' \in [ToolCalls -> [status : {"none", "pending", "ended"}, at : 0 .. sent']]
        /\ asking' \in [ToolCalls -> [phase : {"none", "flushing", "out", "answered"}, at : 0 .. sent']]
    <3>1. [status |-> "pending", at |-> sent + 1] \in [status : {"none", "pending", "ended"}, at : 0 .. sent + 1]
      BY <1>2
    <3>2. call \in [ToolCalls -> [status : {"none", "pending", "ended"}, at : 0 .. sent + 1]]
      BY <1>1, <1>2
    <3>3. asking \in [ToolCalls -> [phase : {"none", "flushing", "out", "answered"}, at : 0 .. sent + 1]]
      BY <1>1, <1>2
    <3> QED BY <1>1, <2>1, <3>1, <3>2, <3>3
  <2>3. CardInv'
    <3>1. asking[t].phase = "none"
      BY <1>1, <2>1 DEF CardInv
    <3> QED BY <1>1, <1>2, <2>1, <2>2, <3>1 DEF CardInv
  <2> QED BY <1>1, <1>2, <2>1, <2>2, <2>3, CardsSafe
<1>4. CASE Display!CardEnds(t)
  <2>1. /\ call[t].status = "pending" /\ sent' = sent + 1 /\ call' = [call EXCEPT ![t].status = "ended"]
        /\ UNCHANGED <<stage, emitted, plain, records, streamed, revision, shown>>
        /\ UNCHANGED <<selected, projected, accounts, reading, readAt, used>>
        /\ UNCHANGED <<observing, turnEnds>> /\ UNCHANGED <<asking, written>>
    BY <1>4 DEF Display!CardEnds, Display!textVars, Display!currentVars
  <2>2. /\ call'[t].status = "ended" /\ call'[t].at = call[t].at
        /\ \A q \in ToolCalls : q # t => call'[q] = call[q]
        /\ call' \in [ToolCalls -> [status : {"none", "pending", "ended"}, at : 0 .. sent']]
        /\ asking' \in [ToolCalls -> [phase : {"none", "flushing", "out", "answered"}, at : 0 .. sent']]
    <3>1. [call[t] EXCEPT !.status = "ended"] \in [status : {"none", "pending", "ended"}, at : 0 .. sent]
      BY <1>1
    <3>2. call' \in [ToolCalls -> [status : {"none", "pending", "ended"}, at : 0 .. sent]]
      BY <1>1, <2>1, <3>1
    <3>3. call' \in [ToolCalls -> [status : {"none", "pending", "ended"}, at : 0 .. sent + 1]]
      BY <1>2, <3>2
    <3>4. asking \in [ToolCalls -> [phase : {"none", "flushing", "out", "answered"}, at : 0 .. sent + 1]]
      BY <1>1, <1>2
    <3> QED BY <1>1, <2>1, <3>3, <3>4
  <2>3. CardInv'
    BY <1>1, <2>1, <2>2 DEF CardInv
  <2> QED BY <1>1, <1>2, <2>1, <2>2, <2>3, CardsSafe
<1>5. CASE Display!Asks(t)
  <2>1. /\ call[t].status = "pending" /\ asking[t].phase = "none"
        /\ asking' = [asking EXCEPT ![t] = [phase |-> "flushing", at |-> sent]]
        /\ UNCHANGED <<stage, emitted, plain, records, streamed, revision, shown>>
        /\ UNCHANGED <<selected, projected, accounts, reading, readAt, used>>
        /\ UNCHANGED <<observing, turnEnds>> /\ UNCHANGED <<call, sent, written>>
    BY <1>5 DEF Display!Asks, Display!textVars, Display!currentVars
  <2>2. /\ asking'[t].phase = "flushing" /\ asking'[t].at = sent
        /\ \A q \in ToolCalls : q # t => asking'[q] = asking[q]
        /\ asking' \in [ToolCalls -> [phase : {"none", "flushing", "out", "answered"}, at : 0 .. sent']]
    <3>1. [phase |-> "flushing", at |-> sent] \in [phase : {"none", "flushing", "out", "answered"}, at : 0 .. sent]
      BY <1>1
    <3> QED BY <1>1, <2>1, <3>1
  <2>3. CardInv'
    BY <1>1, <2>1, <2>2 DEF CardInv
  <2> QED BY <1>1, <2>1, <2>2, <2>3, CardsSafe
<1>6. CASE Display!AskedOut(t)
  <2>1. /\ asking[t].phase = "flushing" /\ written >= asking[t].at
        /\ asking' = [asking EXCEPT ![t].phase = "out"]
        /\ UNCHANGED <<stage, emitted, plain, records, streamed, revision, shown>>
        /\ UNCHANGED <<selected, projected, accounts, reading, readAt, used>>
        /\ UNCHANGED <<observing, turnEnds>> /\ UNCHANGED <<call, sent, written>>
    BY <1>6 DEF Display!AskedOut, Display!Flushed, Display!textVars, Display!currentVars
  <2>2. /\ asking'[t].phase = "out" /\ asking'[t].at = asking[t].at
        /\ \A q \in ToolCalls : q # t => asking'[q] = asking[q]
        /\ asking' \in [ToolCalls -> [phase : {"none", "flushing", "out", "answered"}, at : 0 .. sent']]
    BY <1>1, <2>1
  <2>3. CardInv'
    BY <1>1, <2>1, <2>2 DEF CardInv
  <2> QED BY <1>1, <2>1, <2>2, <2>3, CardsSafe
<1>7. CASE Display!AskEnds(t)
  <2>1. /\ asking[t].phase \in {"flushing", "out"}
        /\ asking' = [asking EXCEPT ![t].phase = "answered"]
        /\ UNCHANGED <<stage, emitted, plain, records, streamed, revision, shown>>
        /\ UNCHANGED <<selected, projected, accounts, reading, readAt, used>>
        /\ UNCHANGED <<observing, turnEnds>> /\ UNCHANGED <<call, sent, written>>
    BY <1>7 DEF Display!AskEnds, Display!textVars, Display!currentVars
  <2>2. /\ asking'[t].phase = "answered" /\ asking'[t].at = asking[t].at
        /\ \A q \in ToolCalls : q # t => asking'[q] = asking[q]
        /\ asking' \in [ToolCalls -> [phase : {"none", "flushing", "out", "answered"}, at : 0 .. sent']]
    BY <1>1, <2>1
  <2>3. CardInv'
    BY <1>1, <2>1, <2>2 DEF CardInv
  <2> QED BY <1>1, <2>1, <2>2, <2>3, CardsSafe
<1> QED BY <1>3, <1>4, <1>5, <1>6, <1>7

\* An update reaches the client.
LEMMA WrittenSafe ==
  ASSUME DisplayInv, Display!Written
  PROVE  DisplayInv'
<1>1. /\ written < sent /\ written' = written + 1
      /\ UNCHANGED <<stage, emitted, plain, records, streamed, revision, shown>>
      /\ UNCHANGED <<selected, projected, accounts, reading, readAt, used>>
      /\ UNCHANGED <<observing, turnEnds>> /\ UNCHANGED <<call, asking, sent>>
  BY DEF Display!Written, Display!textVars, Display!callVars, Display!currentVars
<1>2. sent \in Nat /\ written \in 0 .. sent
  BY DEF DisplayInv, DisplayTypes, Display!DisplayTypeOK
<1>3. /\ sent' \in Nat /\ sent <= sent' /\ written' \in 0 .. sent' /\ written' \in Nat /\ written <= written'
  BY <1>1, <1>2
<1>4. /\ CardInv'
      /\ call' \in [ToolCalls -> [status : {"none", "pending", "ended"}, at : 0 .. sent']]
      /\ asking' \in [ToolCalls -> [phase : {"none", "flushing", "out", "answered"}, at : 0 .. sent']]
  BY <1>1, <1>3, CardsStay
<1> QED BY <1>1, <1>3, <1>4, CardsSafe

\* The policy selected, and the usage read, while texts and cards stay.
LEMMA CurrentSafe ==
  ASSUME DisplayInv, UNCHANGED <<stage, emitted, plain, records, streamed, revision, shown, turnEnds>>,
         UNCHANGED <<call, asking, written>>, UsageInv',
         sent' \in Nat, sent <= sent', selected' \in 0 .. MaxSelections, projected' \in 0 .. MaxSelections,
         accounts' \in Nat, used' \in Nat, readAt' \in Nat, reading' \in [at : Nat, value : Nat, out : BOOLEAN],
         reading'.at <= Len(records), readAt' <= Len(records),
         observing' \in Seq([revision : Nat, policy : {0}]),
         \A i \in DOMAIN observing' : observing'[i].revision \in 0 .. Len(records)
  PROVE  DisplayInv'
<1>1. TextInv'
  BY TextStays
<1>2. sent \in Nat /\ written \in 0 .. sent /\ written \in Nat /\ written <= written
  BY DEF DisplayInv, DisplayTypes, Display!DisplayTypeOK
<1>3. /\ CardInv'
      /\ call' \in [ToolCalls -> [status : {"none", "pending", "ended"}, at : 0 .. sent']]
      /\ asking' \in [ToolCalls -> [phase : {"none", "flushing", "out", "answered"}, at : 0 .. sent']]
  BY <1>2, CardsStay
<1>4. written' \in 0 .. sent'
  BY <1>2
<1>5. Display!DisplayTypeOK'
  <2>1. Display!DisplayTypeOK
    BY DEF DisplayInv, DisplayTypes
  <2> QED BY <1>3, <1>4, <2>1 DEF Display!DisplayTypeOK
<1>6. DisplayTypes'
  BY <1>5 DEF DisplayInv, DisplayTypes
<1> QED BY <1>1, <1>3, <1>6 DEF DisplayInv

\* The selection changes, or a read of the usage ends, with a later look due where it must.
LEMMA CurrentStepsSafe ==
  ASSUME DisplayInv, Display!AccountsChange \/ Display!UsageRead \/ \E v \in 1 .. MaxSelections : Display!Selects(v)
  PROVE  DisplayInv'
<1>1. /\ sent \in Nat /\ selected \in 0 .. MaxSelections /\ projected \in 0 .. MaxSelections /\ accounts \in Nat
      /\ used \in Nat /\ readAt \in Nat /\ reading \in [at : Nat, value : Nat, out : BOOLEAN]
      /\ reading.at <= Len(records) /\ readAt <= Len(records) /\ records \in Seq(Completions)
      /\ observing \in Seq([revision : Nat, policy : {0}])
      /\ \A i \in DOMAIN observing : observing[i].revision \in 0 .. Len(records)
      /\ UsageInv
  BY DEF DisplayInv, DisplayTypes, TextInv, Display!DisplayTypeOK
<1>2. Len(records) \in Nat /\ Len(records) <= Len(records) /\ sent <= sent /\ sent + 1 \in Nat /\ sent <= sent + 1
  BY <1>1
<1>3. ASSUME NEW v \in 1 .. MaxSelections, Display!Selects(v) PROVE DisplayInv'
  <2>1. /\ selected' = v /\ observing' = Append(observing, Display!Snapshot(records))
        /\ UNCHANGED <<stage, emitted, plain, records, streamed, revision, shown, turnEnds>>
        /\ UNCHANGED <<call, asking, written>> /\ UNCHANGED <<projected, accounts, reading, readAt, used, sent>>
    BY <1>3 DEF Display!Selects, Display!textVars, Display!callVars
  <2>2. /\ observing' \in Seq([revision : Nat, policy : {0}]) /\ observing' # << >>
        /\ \A i \in DOMAIN observing' : observing'[i].revision \in 0 .. Len(records)
    BY <1>1, <1>2, <2>1, SnapshotJoins
  <2>3. UsageInv'
    BY <1>1, <2>1, <2>2 DEF UsageInv, Display!Usage
  <2>4. selected' \in 0 .. MaxSelections
    BY <2>1, SideAssumption
  <2> QED BY <1>1, <1>2, <2>1, <2>2, <2>3, <2>4, CurrentSafe
<1>4. CASE Display!AccountsChange
  <2> DEFINE n == Len(records)
             m == n + accounts + 1
  <2>1. /\ accounts' = accounts + 1 /\ reading' = [at |-> n, value |-> m, out |-> TRUE] /\ readAt' = n
        /\ UNCHANGED <<stage, emitted, plain, records, streamed, revision, shown, turnEnds>>
        /\ UNCHANGED <<call, asking, written>> /\ UNCHANGED <<selected, projected, used, observing, sent>>
    BY <1>4 DEF Display!AccountsChange, Display!Refreshes, Display!Rereads, Display!Usage, Display!textVars,
                Display!callVars
  <2>2. n \in Nat /\ m \in Nat /\ n <= n /\ accounts + 1 \in Nat /\ n + (accounts + 1) = m
    BY <1>1, <1>2
  <2>5. n = Len(records) /\ Display!Usage(n)' = n + accounts'
    BY <2>1 DEF Display!Usage
  <2> HIDE DEF n, m
  <2>3. /\ reading' \in [at : Nat, value : Nat, out : BOOLEAN] /\ reading'.at = n /\ reading'.value = m
        /\ reading'.out = TRUE
    BY <2>1, <2>2
  <2>4. UsageInv'
    BY <1>1, <2>1, <2>2, <2>3, <2>5 DEF UsageInv, Display!Usage
  <2> QED BY <1>1, <1>2, <2>1, <2>2, <2>3, <2>4, <2>5, CurrentSafe
<1>5. CASE Display!UsageRead
  <2>1. /\ reading.out /\ reading' = [at |-> 0, value |-> 0, out |-> FALSE]
        /\ IF reading.at = Len(records) /\ reading.value # used
             THEN used' = reading.value /\ sent' = sent + 1
             ELSE UNCHANGED <<used, sent>>
        /\ UNCHANGED <<stage, emitted, plain, records, streamed, revision, shown, turnEnds>>
        /\ UNCHANGED <<call, asking, written>> /\ UNCHANGED <<selected, projected, accounts, readAt, observing>>
    BY <1>5 DEF Display!UsageRead, Display!Current, Display!NoRead, Display!textVars, Display!callVars
  <2>2. /\ reading' \in [at : Nat, value : Nat, out : BOOLEAN] /\ reading'.at = 0 /\ reading'.out = FALSE
        /\ used' \in Nat /\ sent' \in Nat /\ sent <= sent'
    BY <1>1, <1>2, <2>1
  <2>3. reading.at = Len(records) => used' = reading.value
    BY <2>1
  <2>4. UsageInv'
    BY <1>1, <2>1, <2>2, <2>3 DEF UsageInv, Display!Usage
  <2>5. reading'.at <= Len(records)
    BY <1>2, <2>2
  <2> QED BY <1>1, <1>2, <2>1, <2>2, <2>4, <2>5, CurrentSafe
<1> QED BY <1>3, <1>4, <1>5

\* Every step keeps the invariant.
LEMMA DisplayNextSafe ==
  ASSUME DisplayInv, [Display!DisplayNext]_dV
  PROVE  DisplayInv'
<1>1. CASE UNCHANGED dV
  <2>1. /\ UNCHANGED <<stage, emitted, plain, records, streamed, revision, shown, turnEnds>>
        /\ UNCHANGED <<call, asking, written>> /\ UNCHANGED <<sent, selected, projected, accounts, used, readAt>>
        /\ UNCHANGED <<reading, observing>>
    BY <1>1 DEF dV
  <2>2. UsageInv'
    BY <2>1, UsageStays
  <2>3. /\ sent \in Nat /\ selected \in 0 .. MaxSelections /\ projected \in 0 .. MaxSelections /\ accounts \in Nat
        /\ used \in Nat /\ readAt \in Nat /\ reading \in [at : Nat, value : Nat, out : BOOLEAN]
        /\ reading.at <= Len(records) /\ readAt <= Len(records) /\ sent <= sent
        /\ observing \in Seq([revision : Nat, policy : {0}])
        /\ \A i \in DOMAIN observing : observing[i].revision \in 0 .. Len(records)
    BY DEF DisplayInv, DisplayTypes, TextInv, Display!DisplayTypeOK
  <2> QED BY <2>1, <2>2, <2>3, CurrentSafe
<1>2. CASE Display!Observed \/ Display!Written \/ Display!PromptFlushes \/ Display!PromptAnswers
  BY <1>2, ObservedSafe, WrittenSafe, PromptFlushesSafe, PromptAnswersSafe
<1>3. CASE Display!AccountsChange \/ Display!UsageRead \/ \E v \in 1 .. MaxSelections : Display!Selects(v)
  BY <1>3, CurrentStepsSafe
<1>4. ASSUME NEW c \in Completions,
             Display!Begins(c) \/ Display!Streams(c) \/ Display!Settles(c) \/ Display!Fails(c)
      PROVE  DisplayInv'
  BY <1>4, BeginsSafe, StreamsSafe, SettlesSafe, FailsSafe
<1>5. ASSUME NEW t \in ToolCalls,
             \/ Display!CardOpens(t) \/ Display!CardEnds(t) \/ Display!Asks(t) \/ Display!AskedOut(t)
             \/ Display!AskEnds(t)
      PROVE  DisplayInv'
  BY <1>5, CardStepsSafe
<1> QED BY <1>1, <1>2, <1>3, <1>4, <1>5 DEF Display!DisplayNext

\* The client has each text once and whole when its prompt is answered, and what is current
\* when nothing is under way.
LEMMA DisplayHolds ==
  ASSUME DisplayInv
  PROVE  /\ Display!DisplayTypeOK
         /\ Display!TextIsShownOnce /\ Display!AskedAfterShown /\ Display!DisplayIsCurrent
<1>1. /\ Display!DisplayTypeOK /\ TextInv /\ CardInv /\ UsageInv /\ sent \in Nat /\ records \in Seq(Completions)
      /\ turnEnds.phase = "answered" => turnEnds.at <= written
  BY DEF DisplayInv, DisplayTypes
<1>2. Display!TextIsShownOnce
  <2> SUFFICES ASSUME NEW c \in Completions
               PROVE  /\ c \in plain => Display!IsPrefix(shown[c], Display!Whole)
                      /\ c \notin plain => Len(shown[c]) <= Len(Display!Whole)
                      /\ turnEnds.phase = "answered" /\ stage[c] = "settled" /\ c \in plain => shown[c] = Display!Whole
    BY DEF Display!TextIsShownOnce
  <2>1. CompletionInv(c) /\ emitted[c] \in 0 .. 2
    BY <1>1 DEF TextInv, Display!DisplayTypeOK
  <2>2. \/ Observed(c) /\ Len(shown[c]) <= 2 /\ (c \in plain => shown[c] = <<1, 2>>)
        \/ shown[c] \in {<< >>, <<1>>, <<1, 2>>}
    <3>1. emitted[c] \in {0, 1, 2}
      BY <2>1
    <3> QED BY <2>1, <3>1, PiecesAre DEF CompletionInv
  <2>3. Len(<< >>) = 0 /\ Len(<<1>>) = 1 /\ Len(<<1, 2>>) = 2 /\ Display!Whole = <<1, 2>>
    BY PiecesAre
  <2>4. c \in plain => Display!IsPrefix(shown[c], Display!Whole)
    <3>1. \A s \in {<< >>, <<1>>, <<1, 2>>} : Display!IsPrefix(s, <<1, 2>>)
      <4>1. Display!IsPrefix(<< >>, <<1, 2>>)
        BY <2>3, SubSeqEmpty DEF Display!IsPrefix
      <4>2. Display!IsPrefix(<<1>>, <<1, 2>>)
        <5>1. SubSeq(<<1>>, 1, 1) = <<1>>
          BY <2>3, Texts, SubSeqFull
        <5> QED BY <2>3, <5>1, Parts DEF Display!IsPrefix
      <4>3. Display!IsPrefix(<<1, 2>>, <<1, 2>>)
        BY <2>3 DEF Display!IsPrefix
      <4> QED BY <4>1, <4>2, <4>3
    <3> QED BY <2>2, <2>3, <3>1
  <2>5. Len(shown[c]) <= 2
    <3>1. 0 <= 2 /\ 1 <= 2 /\ 2 <= 2
      OBVIOUS
    <3> QED BY <2>2, <2>3, <3>1
  <2>6. turnEnds.phase = "answered" /\ stage[c] = "settled" => Observed(c)
    <3>1. turnEnds.phase = "answered" => revision = Len(records)
      BY <1>1 DEF TextInv
    <3>2. DOMAIN records = 1 .. Len(records)
      BY <1>1
    <3> QED BY <2>1, <3>1, <3>2 DEF CompletionInv, Observed
  <2>7. turnEnds.phase = "answered" /\ stage[c] = "settled" /\ c \in plain => shown[c] = Display!Whole
    BY <2>1, <2>6 DEF CompletionInv
  <2> QED BY <2>3, <2>4, <2>5, <2>7
<1>3. Display!AskedAfterShown
  <2>1. \A t \in ToolCalls : call[t].at \in Nat /\ asking[t].at \in Nat
    BY <1>1 DEF Display!DisplayTypeOK
  <2>2. written \in Nat
    BY <1>1 DEF Display!DisplayTypeOK
  <2> QED BY <1>1, <2>1, <2>2 DEF CardInv, Display!AskedAfterShown
<1>4. Display!DisplayIsCurrent
  BY <1>1 DEF UsageInv, Display!DisplayIsCurrent
<1> QED BY <1>1, <1>2, <1>3, <1>4

-----------------------------------------------------------------------------
\* The store

\* Nothing is deleted, written or listed at the start.
LEMMA StorageStarts == Store!StorageInit => StorageInv
<1> SUFFICES ASSUME Store!StorageInit PROVE StorageInv
  OBVIOUS
<1>1. PICK old \in SUBSET Stored :
        /\ batches = [s \in Stored |-> IF s \in old THEN <<Store!First>> ELSE << >>]
        /\ rows = {<<"info", s>> : s \in old}
  BY DEF Store!StorageInit
<1>2. /\ deleted = {} /\ removal = 0 /\ cursors = << >> /\ Len(cursors) = 0
      /\ writer = [w \in Writers |-> Store!NoWrite] /\ listing = [l \in Listings |-> Store!Idle]
  BY DEF Store!StorageInit
<1>3. <<Store!First>> \in Seq(Store!Batches) /\ Len(<<Store!First>>) = 1 /\ <<Store!First>>[1].expected = 0
  BY DEF Store!First, Store!Batches
<1>4. \A s \in Stored : /\ batches[s] \in Seq(Store!Batches) /\ Len(batches[s]) <= 1 /\ Len(batches[s]) \in Nat
                        /\ \A i \in DOMAIN batches[s] : i = 1 /\ batches[s][i].expected = 0
  <2> SUFFICES ASSUME NEW s \in Stored
               PROVE  /\ batches[s] \in Seq(Store!Batches) /\ Len(batches[s]) <= 1 /\ Len(batches[s]) \in Nat
                      /\ \A i \in DOMAIN batches[s] : i = 1 /\ batches[s][i].expected = 0
    OBVIOUS
  <2>1. CASE s \in old
    BY <1>1, <1>3, <2>1
  <2>2. CASE s \notin old
    <3>1. batches[s] = << >>
      BY <1>1, <2>2
    <3> QED BY <3>1
  <2> QED BY <2>1, <2>2
<1>5. /\ \A w \in Writers : writer[w] = Store!NoWrite
      /\ \A l \in Listings : listing[l] = Store!Idle
  BY <1>2
<1>6. /\ Store!NoWrite \in Store!Appending /\ Store!NoWrite.expected = 0 /\ Store!NoWrite.answer = "none"
      /\ Store!Idle \in Store!Shown /\ Store!Idle.phase = "idle" /\ Store!Idle.stays = {}
      /\ Store!Idle.seen = << >>
  BY DEF Store!NoWrite, Store!Appending, Store!Idle, Store!Shown
<1>7. Store!StorageTypeOK
  <2>1. batches \in [Stored -> Seq(Store!Batches)] /\ \A s \in Stored : Store!Revision(s) <= MaxBatches
    BY <1>1, <1>4, SideAssumption DEF Store!Revision
  <2>2. writer \in [Writers -> Store!Appending] /\ listing \in [Listings -> Store!Shown]
    BY <1>2, <1>6
  <2>3. rows \subseteq Tables \X Stored
    <3>1. \A s \in old : <<"info", s>> \in Tables \X Stored
      BY SideAssumption
    <3> QED BY <1>1, <3>1, Zenon
  <2>4. cursors \in Seq([after : Stored, owner : Listings]) /\ Len(cursors) <= MaxCursors
    BY <1>2, SideAssumption
  <2>5. deleted \subseteq Stored /\ removal \in Stored \cup {0}
    BY <1>2
  <2> QED BY <2>1, <2>2, <2>3, <2>4, <2>5, Zenon DEF Store!StorageTypeOK
<1>8. Store!DeletedStays
  BY <1>2 DEF Store!DeletedStays
<1>9. Store!AppendsOnce
  BY <1>4, <1>5, <1>6 DEF Store!AppendsOnce
<1>10. Store!ListedOnce /\ ListingInv
  BY <1>5, <1>6 DEF Store!ListedOnce, ListingInv
<1> QED BY <1>5, <1>6, <1>7, <1>8, <1>9, <1>10, SideAssumption DEF StorageInv

\* What appends and beside tables change leaves the listings as they are.
LEMMA ListingsStay ==
  ASSUME StorageInv, UNCHANGED <<listing, cursors>>, Store!Known \subseteq Store!Known'
  PROVE  ListingInv' /\ Store!ListedOnce'
<1>1. ListingInv'
  BY DEF StorageInv, ListingInv, Store!Mine, Upto
<1>2. Store!ListedOnce'
  BY DEF StorageInv, Store!ListedOnce
<1> QED BY <1>1, <1>2

\* An append that is asked, lost, asked again, or answered and done with.
LEMMA AskingSafe ==
  ASSUME StorageInv, NEW w \in Writers, NEW r \in Store!Appending,
         writer' = [writer EXCEPT ![w] = r], r.answer # "committed", r.expected < MaxBatches,
         UNCHANGED <<batches, deleted, rows, removal, cursors, listing>>
  PROVE  StorageInv'
<1>1. /\ writer \in [Writers -> Store!Appending]
      /\ \A v \in Writers : writer'[v] = IF v = w THEN r ELSE writer[v]
  BY DEF StorageInv, Store!StorageTypeOK
<1>2. writer' \in [Writers -> Store!Appending]
  BY <1>1
<1>3. Store!StorageTypeOK'
  BY <1>2 DEF StorageInv, Store!StorageTypeOK, Store!Revision
<1>4. Store!AppendsOnce' /\ Store!DeletedStays'
  BY <1>1 DEF StorageInv, Store!AppendsOnce, Store!DeletedStays
<1>5. \A v \in Writers : writer'[v].expected < MaxBatches
  BY <1>1 DEF StorageInv
<1>6. ListingInv' /\ Store!ListedOnce'
  BY ListingsStay DEF Store!Known
<1> QED BY <1>3, <1>4, <1>5, <1>6 DEF StorageInv

\* An append that has run is stored at the place it was made for, or already was.
LEMMA AppendsSafe ==
  ASSUME StorageInv, NEW w \in Writers, NEW lost \in BOOLEAN, Store!Appends(w, lost)
  PROVE  StorageInv'
<1> DEFINE s == WritesTo[w]
           b == [append |-> writer[w].append, body |-> writer[w].body, expected |-> writer[w].expected]
           n == Len(batches[s])
<1>1. /\ s \in Stored /\ batches[s] \in Seq(Store!Batches) /\ n \in Nat /\ n <= MaxBatches
      /\ batches \in [Stored -> Seq(Store!Batches)] /\ writer \in [Writers -> Store!Appending]
      /\ writer[w] \in Store!Appending /\ b \in Store!Batches /\ writer[w].expected < MaxBatches
      /\ writer[w].expected \in Nat /\ MaxBatches \in Nat
  <2>1. /\ s \in Stored /\ batches \in [Stored -> Seq(Store!Batches)] /\ writer \in [Writers -> Store!Appending]
        /\ n <= MaxBatches /\ writer[w].expected < MaxBatches /\ MaxBatches \in Nat
    BY SideAssumption DEF StorageInv, Store!StorageTypeOK, Store!Revision
  <2>2. writer[w] \in Store!Appending /\ batches[s] \in Seq(Store!Batches)
    BY <2>1
  <2>3. n \in Nat
    BY <2>2
  <2>4. b \in Store!Batches /\ writer[w].expected \in Nat
    BY <2>2 DEF Store!Appending, Store!Batches
  <2> QED BY <2>1, <2>2, <2>3, <2>4
<1>2. /\ \A i, k \in DOMAIN batches[s] : batches[s][i].append = batches[s][k].append => i = k
      /\ \A i \in DOMAIN batches[s] : batches[s][i].expected = i - 1
  BY <1>1 DEF StorageInv, Store!AppendsOnce
<1>3. /\ writer' \in [Writers -> Store!Appending] /\ \A v \in Writers : v # w => writer'[v] = writer[v]
      /\ writer'[w].append = writer[w].append /\ writer'[w].body = writer[w].body
      /\ writer'[w].expected = writer[w].expected
      /\ UNCHANGED <<deleted, removal, cursors, listing>>
  <2> DEFINE answer == IF lost THEN "indeterminate"
                        ELSE IF Store!Outcome(w) = "inserted" THEN "committed" ELSE Store!Outcome(w)
             told == IF ~lost /\ Store!Outcome(w) = "inserted" THEN Store!Revision(WritesTo[w]) + 1
             ELSE IF ~lost /\ Store!Outcome(w) = "committed"
               THEN CHOOSE i \in Store!Place(WritesTo[w], writer[w].append) : TRUE
             ELSE 0
  <2>1. Store!Outcome(w) \in {"rejected", "committed", "inserted", "conflict"}
    BY DEF Store!Outcome
  <2>2. Store!Outcome(w) = "committed" => \E i \in Store!Place(s, writer[w].append) : TRUE
    BY DEF Store!Outcome
  <2>3. Store!Place(s, writer[w].append) \subseteq Nat
    BY <1>1 DEF Store!Place
  <2>4. answer \in {"none", "committed", "rejected", "conflict", "indeterminate"} /\ told \in Nat
    BY <1>1, <2>1, <2>2, <2>3 DEF Store!Revision
  <2>5. writer' = [writer EXCEPT ![w].phase = "answered", ![w].answer = answer, ![w].revision = told]
    BY DEF Store!Appends
  <2> HIDE DEF answer, told
  <2>6. UNCHANGED <<deleted, removal, cursors, listing>>
    BY DEF Store!Appends
  <2> QED BY <1>1, <2>4, <2>5, <2>6 DEF Store!Appending
<1>4. CASE Store!Outcome(w) = "inserted"
  <2>1. /\ s \notin deleted /\ Store!Place(s, writer[w].append) = {} /\ n = writer[w].expected
    BY <1>4 DEF Store!Outcome, Store!Gone, Store!Repeated, Store!Revision
  <2>2. /\ batches' = [batches EXCEPT ![s] = Append(batches[s], b)] /\ rows' = rows \cup {<<"info", s>>}
        /\ writer'[w].answer = "committed" => writer'[w].revision = n + 1
    BY <1>1, <1>4 DEF Store!Appends, Store!Inserts, Store!Revision
  <2> DEFINE t == Append(batches[s], b)
  <2>3. /\ t \in Seq(Store!Batches) /\ Len(t) = n + 1 /\ DOMAIN t = 1 .. n + 1 /\ t[n + 1] = b
        /\ \A i \in 1 .. n : t[i] = batches[s][i] /\ i \in DOMAIN batches[s]
        /\ t # << >>
    BY <1>1, AppendProperties
  <2>4. /\ batches' \in [Stored -> Seq(Store!Batches)] /\ batches'[s] = t
        /\ \A r \in Stored : r # s => batches'[r] = batches[r]
    BY <1>1, <2>2, <2>3
  <2> HIDE DEF t
  <2>5. /\ \A i, k \in DOMAIN t : t[i].append = t[k].append => i = k
        /\ \A i \in DOMAIN t : t[i].expected = i - 1
    <3>1. \A i \in 1 .. n : batches[s][i].append # b.append
      BY <1>1, <2>1 DEF Store!Place
    <3>2. b.append = writer[w].append /\ b.expected = n
      BY <2>1
    <3> HIDE DEF b
    <3>3. DOMAIN batches[s] = 1 .. n
      BY <1>1
    <3>4. \A i \in 1 .. n + 1 : i \in 1 .. n \/ i = n + 1
      BY <1>1
    <3> HIDE DEF n
    <3>5. \A i \in DOMAIN t : \/ i \in 1 .. n /\ i \in DOMAIN batches[s] /\ t[i] = batches[s][i]
                              \/ i = n + 1 /\ t[i] = b
      BY <2>3, <3>4
    <3>7. \A i, k \in DOMAIN t : t[i].append = t[k].append => i = k
      BY <1>2, <3>1, <3>5
    <3>8. \A i \in DOMAIN t : t[i].expected = i - 1
      BY <1>1, <1>2, <3>2, <3>5
    <3> QED BY <3>7, <3>8
  <2>6. Store!StorageTypeOK'
    <3>1. \A r \in Stored : Len(batches'[r]) <= MaxBatches
      <4>1. \A r \in Stored : Len(batches[r]) <= MaxBatches
        BY DEF StorageInv, Store!StorageTypeOK, Store!Revision
      <4>2. n + 1 <= MaxBatches
        BY <1>1, <2>1
      <4> QED BY <2>3, <2>4, <4>1, <4>2
    <3>2. rows' \subseteq Tables \X Stored
      BY <1>1, <2>2, SideAssumption DEF StorageInv, Store!StorageTypeOK
    <3> QED BY <1>3, <2>4, <3>1, <3>2 DEF StorageInv, Store!StorageTypeOK, Store!Revision
  <2>7. Store!DeletedStays'
    BY <1>3, <2>1, <2>2, <2>4 DEF StorageInv, Store!StorageTypeOK, Store!DeletedStays
  <2>8. Store!AppendsOnce'
    <3>1. ASSUME NEW v \in Writers, writer'[v].answer = "committed", WritesTo[v] \notin deleted
          PROVE  /\ writer'[v].revision \in DOMAIN batches'[WritesTo[v]]
                 /\ batches'[WritesTo[v]][writer'[v].revision].append = writer'[v].append
                 /\ batches'[WritesTo[v]][writer'[v].revision].body = writer'[v].body
      <4>1. CASE v = w
        BY <1>1, <1>3, <2>2, <2>3, <2>4, <3>1, <4>1
      <4>2. CASE v # w
        <5>1. /\ writer[v].revision \in DOMAIN batches[WritesTo[v]] /\ WritesTo[v] \in Stored
              /\ batches[WritesTo[v]][writer[v].revision].append = writer[v].append
              /\ batches[WritesTo[v]][writer[v].revision].body = writer[v].body
              /\ writer'[v] = writer[v]
          BY <1>3, <3>1, <4>2, SideAssumption DEF StorageInv, Store!AppendsOnce
        <5>2. CASE WritesTo[v] = s
          BY <1>1, <2>3, <2>4, <5>1, <5>2
        <5>3. CASE WritesTo[v] # s
          BY <2>4, <5>1, <5>3
        <5> QED BY <5>2, <5>3
      <4> QED BY <4>1, <4>2
    <3>2. \A r \in Stored :
            /\ \A i, k \in DOMAIN batches'[r] : batches'[r][i].append = batches'[r][k].append => i = k
            /\ \A i \in DOMAIN batches'[r] : batches'[r][i].expected = i - 1
      BY <2>4, <2>5 DEF StorageInv, Store!AppendsOnce
    <3> QED BY <1>3, <3>1, <3>2 DEF Store!AppendsOnce
  <2>9. Store!Known \subseteq Store!Known'
    BY <2>3, <2>4 DEF Store!Known
  <2>10. ListingInv' /\ Store!ListedOnce'
    BY <1>3, <2>9, ListingsStay
  <2>11. \A v \in Writers : writer'[v].expected < MaxBatches
    BY <1>3 DEF StorageInv
  <2> QED BY <2>6, <2>7, <2>8, <2>10, <2>11 DEF StorageInv
<1>5. CASE Store!Outcome(w) # "inserted"
  <2>1. /\ UNCHANGED <<batches, rows>>
        /\ writer'[w].answer = "committed" =>
             Store!Outcome(w) = "committed" /\ writer'[w].revision = CHOOSE i \in Store!Place(s, writer[w].append) : TRUE
    BY <1>1, <1>5 DEF Store!Appends
  <2>2. ASSUME writer'[w].answer = "committed"
        PROVE  /\ writer'[w].revision \in DOMAIN batches[s]
               /\ batches[s][writer'[w].revision].append = writer[w].append
               /\ batches[s][writer'[w].revision].body = writer[w].body
    <3>1. PICK i \in Store!Place(s, writer[w].append) : batches[s][i].body = writer[w].body
      BY <2>1, <2>2 DEF Store!Outcome
    <3>2. writer'[w].revision \in Store!Place(s, writer[w].append)
      BY <2>1, <2>2, <3>1
    <3>3. writer'[w].revision = i
      BY <1>2, <3>1, <3>2 DEF Store!Place
    <3> QED BY <3>1, <3>3 DEF Store!Place
  <2>3. Store!StorageTypeOK'
    BY <1>3, <2>1 DEF StorageInv, Store!StorageTypeOK, Store!Revision
  <2>4. Store!AppendsOnce' /\ Store!DeletedStays'
    BY <1>3, <2>1, <2>2 DEF StorageInv, Store!AppendsOnce, Store!DeletedStays
  <2>5. ListingInv' /\ Store!ListedOnce'
    BY <1>3, <2>1, ListingsStay DEF Store!Known
  <2>6. \A v \in Writers : writer'[v].expected < MaxBatches
    BY <1>3 DEF StorageInv
  <2> QED BY <2>3, <2>4, <2>5, <2>6 DEF StorageInv
<1> QED BY <1>4, <1>5

\* A session that is deleted leaves no batch and no row, and no listing owes it.
LEMMA RemovesSafe ==
  ASSUME StorageInv, NEW s \in Stored, NEW keeps \in BOOLEAN, Store!Removes(s, keeps),
         removal' \in Stored \cup {0}
  PROVE  StorageInv'
<1>1. /\ deleted' = deleted \cup {s} /\ batches' = [batches EXCEPT ![s] = << >>]
      /\ rows' = {r \in rows : r[2] # s} /\ cursors' = (IF keeps THEN cursors ELSE << >>)
      /\ listing' = [l \in Listings |-> [listing[l] EXCEPT !.stays = listing[l].stays \ {s}]] /\ writer' = writer
  BY DEF Store!Removes
<1>2. /\ batches \in [Stored -> Seq(Store!Batches)] /\ listing \in [Listings -> Store!Shown]
      /\ << >> \in Seq(Store!Batches)
  BY DEF StorageInv, Store!StorageTypeOK
<1>3. /\ batches' \in [Stored -> Seq(Store!Batches)] /\ batches'[s] = << >>
      /\ \A r \in Stored : r # s => batches'[r] = batches[r]
  BY <1>1, <1>2
<1>4. \A l \in Listings : /\ listing'[l] \in Store!Shown /\ listing'[l].phase = listing[l].phase
                          /\ listing'[l].seen = listing[l].seen
                          /\ listing'[l].stays = listing[l].stays \ {s}
  BY <1>1, <1>2 DEF Store!Shown
<1>5. Store!StorageTypeOK'
  <2>1. Len(<< >>) = 0 /\ MaxBatches \in Nat /\ MaxCursors \in Nat
    BY SideAssumption
  <2>2. \A r \in Stored : Len(batches'[r]) <= MaxBatches
    <3>1. \A r \in Stored : Len(batches[r]) <= MaxBatches
      BY DEF StorageInv, Store!StorageTypeOK, Store!Revision
    <3>2. Len(batches'[s]) <= MaxBatches
      BY <1>3, <2>1
    <3> QED BY <1>3, <3>1, <3>2
  <2>3. cursors' \in Seq([after : Stored, owner : Listings]) /\ Len(cursors') <= MaxCursors
    BY <1>1, <2>1 DEF StorageInv, Store!StorageTypeOK
  <2>4. listing' \in [Listings -> Store!Shown]
    BY <1>1, <1>4
  <2>5. rows' \subseteq Tables \X Stored /\ deleted' \subseteq Stored
    BY <1>1 DEF StorageInv, Store!StorageTypeOK
  <2> QED BY <1>1, <1>3, <2>2, <2>3, <2>4, <2>5 DEF StorageInv, Store!StorageTypeOK, Store!Revision
<1>6. Store!DeletedStays'
  BY <1>1, <1>3 DEF StorageInv, Store!StorageTypeOK, Store!DeletedStays
<1>7. Store!AppendsOnce'
  BY <1>1, <1>3, SideAssumption DEF StorageInv, Store!AppendsOnce
<1>8. Store!ListedOnce'
  BY <1>4 DEF StorageInv, Store!ListedOnce
<1>9. ListingInv'
  <2>1. \A l \in Listings : listing'[l].stays \subseteq Store!Known'
    BY <1>3, <1>4 DEF StorageInv, ListingInv, Store!Known
  <2>2. ASSUME NEW l \in Listings, listing'[l].phase = "paging", NEW i \in Store!Mine(l)',
               \A k \in Store!Mine(l)' : k <= i
        PROVE  Upto(l, cursors[i].after)'
    <3>1. cursors' = cursors
      BY <1>1, <2>2 DEF Store!Mine
    <3>2. Upto(l, cursors[i].after)
      BY <1>4, <2>2, <3>1 DEF StorageInv, ListingInv, Store!Mine
    <3> QED BY <1>4, <3>1, <3>2 DEF Upto
  <2> QED BY <2>1, <2>2 DEF ListingInv
<1> QED BY <1>1, <1>5, <1>6, <1>7, <1>8, <1>9 DEF StorageInv

\* The store's count of its sessions is the library's.
LEMMA StoreTally == \A S : Store!Cardinality(S) = Cardinality(S)
BY DEF Store!Cardinality, Cardinality

\* A page has the first of the sessions after another, and the last of it is before all
\* that it leaves.
LEMMA PagesAreFirst ==
  ASSUME NEW n
  PROVE  /\ Store!Page(n) \subseteq Store!After(n) /\ Store!After(n) \subseteq Stored
         /\ ~Store!More(n) => Store!Page(n) = Store!After(n)
         /\ Store!More(n) =>
              /\ Store!NextAfter(n) \in Store!Page(n)
              /\ \A s \in Store!Page(n) : s <= Store!NextAfter(n)
              /\ \A s \in Store!After(n) : s <= Store!NextAfter(n) => s \in Store!Page(n)
<1> DEFINE A == Store!After(n)
           P == Store!Page(n)
           Before(s) == {r \in A : r <= s}
<1>1. A \subseteq Stored /\ Stored \subseteq Nat /\ IsFiniteSet(A) /\ PageSize \in Nat \ {0}
  <2>1. A \subseteq Stored
    BY DEF Store!After, Store!Known
  <2> QED BY <2>1, SideAssumption, FS_Subset
<1>0. \A s \in A : s \in Nat
  BY <1>1
<1>2. P = {s \in A : Cardinality(Before(s)) <= PageSize} /\ (Store!More(n) <=> Cardinality(A) > PageSize)
  BY StoreTally DEF Store!Page, Store!More
<1> HIDE DEF A, P
<1>3. \A s : IsFiniteSet(Before(s)) /\ Cardinality(Before(s)) \in Nat /\ Cardinality(Before(s)) <= Cardinality(A)
  BY <1>1, FS_Subset, FS_CardinalityType
<1>4. Cardinality(A) \in Nat
  BY <1>1, FS_CardinalityType
<1>5. ASSUME ~Store!More(n) PROVE P = A
  <2>1. Cardinality(A) <= PageSize
    BY <1>1, <1>2, <1>4, <1>5
  <2>2. \A s \in A : Cardinality(Before(s)) <= PageSize
    BY <1>1, <1>3, <1>4, <2>1
  <2> QED BY <1>2, <2>2
<1>6. \A s, r \in A : s <= r => Before(s) \subseteq Before(r)
  BY <1>0
<1>7. \A s, r \in A : s <= r => Cardinality(Before(s)) <= Cardinality(Before(r))
  BY <1>3, <1>6, FS_Subset
<1>8. \A s, r \in A : s < r => Cardinality(Before(s)) < Cardinality(Before(r))
  <2> SUFFICES ASSUME NEW s \in A, NEW r \in A, s < r
               PROVE  Cardinality(Before(s)) < Cardinality(Before(r))
    OBVIOUS
  <2>1. Before(s) \subseteq Before(r) /\ r \in Before(r) /\ r \notin Before(s)
    BY <1>0
  <2>2. Cardinality(Before(s)) <= Cardinality(Before(r)) /\ Cardinality(Before(s)) # Cardinality(Before(r))
    BY <1>3, <2>1, FS_Subset
  <2> QED BY <1>3, <2>2
<1>9. ASSUME Store!More(n) PROVE P # {}
  <2>1. A # {} /\ A \in SUBSET Nat
    BY <1>1, <1>0, <1>2, <1>4, <1>9, FS_EmptySet
  <2>2. PICK s \in A : \A r \in A : s <= r
    BY <2>1, Least
  <2>3. Before(s) = {s}
    BY <1>0, <2>2
  <2>4. Cardinality(Before(s)) = 1
    BY <2>3, FS_Singleton
  <2> QED BY <1>1, <1>2, <2>4
<1> DEFINE L == Store!NextAfter(n)
<1>10. ASSUME Store!More(n) PROVE L \in P /\ \A s \in P : s <= L
  <2> DEFINE Room == {PageSize - Cardinality(Before(s)) : s \in P}
  <2>1. Room \in SUBSET Nat /\ Room # {}
    <3>1. \A s \in P : PageSize - Cardinality(Before(s)) \in Nat
      <4>1. \A s \in P : Cardinality(Before(s)) <= PageSize
        BY <1>2
      <4>2. PageSize \in Nat /\ \A s : Cardinality(Before(s)) \in Nat
        BY <1>1, <1>3
      <4> HIDE DEF Before
      <4> QED BY <4>1, <4>2
    <3>2. P # {}
      BY <1>9, <1>10
    <3> QED BY <3>1, <3>2
  <2>2. PICK m \in Room : \A k \in Room : m <= k
    BY <2>1, Least
  <2>3. PICK s \in P : m = PageSize - Cardinality(Before(s))
    BY <2>2
  <2>4. ASSUME NEW r \in P PROVE r <= s
    <3>1. r \in A /\ s \in A /\ r \in Nat /\ s \in Nat
      BY <1>1, <1>2, <2>4
    <3>2. PageSize - Cardinality(Before(s)) <= PageSize - Cardinality(Before(r))
      BY <2>2, <2>3, <2>4
    <3>3. Cardinality(Before(s)) \in Nat /\ Cardinality(Before(r)) \in Nat /\ PageSize \in Nat
      BY <1>1, <1>3
    <3>4. ~(Cardinality(Before(s)) < Cardinality(Before(r)))
      <4> HIDE DEF Before
      <4> QED BY <3>2, <3>3
    <3> QED BY <1>8, <3>1, <3>4
  <2>5. \E x \in P : \A r \in P : r <= x
    BY <2>4
  <2>6. L = CHOOSE x \in P : \A r \in P : r <= x
    BY DEF Store!NextAfter, P
  <2> QED BY <2>5, <2>6
<1>11. ASSUME Store!More(n), NEW s \in A, s <= L PROVE s \in P
  <2>1. L \in A /\ Cardinality(Before(L)) <= PageSize
    BY <1>2, <1>10, <1>11
  <2>2. Cardinality(Before(s)) <= Cardinality(Before(L))
    BY <1>7, <1>11, <2>1
  <2>3. Cardinality(Before(s)) <= PageSize
    BY <1>1, <1>3, <2>1, <2>2
  <2> QED BY <1>2, <1>11, <2>3
<1>12. P \subseteq A
  BY <1>2
<1> QED BY <1>1, <1>5, <1>10, <1>11, <1>12 DEF A, P

\* A page that follows those up to n shows none of theirs again, and what stays up to its
\* own last.
LEMMA PagesFollow ==
  ASSUME StorageInv, NEW l \in Listings, NEW n \in Nat, NEW seen \in Seq(SUBSET Stored),
         NEW stays \in SUBSET Store!Known, Store!Shows(l, n, seen, stays),
         \A i, k \in DOMAIN seen : i # k => seen[i] \cap seen[k] = {},
         \A i \in DOMAIN seen : \A s \in seen[i] : s <= n,
         \A s \in stays : s <= n => \E i \in DOMAIN seen : s \in seen[i]
  PROVE  StorageInv'
<1> DEFINE P == Store!Page(n)
           A == Store!After(n)
           N == Store!NextAfter(n)
           whole == Append(seen, P)
           page == [phase |-> IF Store!More(n) THEN "paging" ELSE "done", seen |-> whole, stays |-> stays]
           c == [after |-> N, owner |-> l]
           next == Append(cursors, c)
<1>1. /\ listing' = [listing EXCEPT ![l] = page]
      /\ cursors' = IF Store!More(n) THEN Store!Keep(next) ELSE cursors
      /\ UNCHANGED <<batches, deleted, rows, writer, removal>>
  BY DEF Store!Shows
<1>2. /\ P \subseteq A /\ A \subseteq Stored /\ Stored \subseteq Nat
      /\ ~Store!More(n) => P = A
      /\ Store!More(n) => N \in P /\ (\A s \in P : s <= N) /\ \A s \in A : s <= N => s \in P
      /\ \A s \in A : s > n
      /\ \A s \in Store!Known : s > n => s \in A
  BY PagesAreFirst, SideAssumption DEF Store!After
<1>3. /\ whole \in Seq(SUBSET Stored) /\ Len(seen) \in Nat /\ DOMAIN whole = 1 .. Len(seen) + 1
      /\ whole[Len(seen) + 1] = P /\ DOMAIN seen = 1 .. Len(seen)
      /\ \A i \in DOMAIN seen : whole[i] = seen[i] /\ i \in DOMAIN whole
      /\ \A i \in DOMAIN whole : i \in DOMAIN seen \/ i = Len(seen) + 1
  <2>1. P \in SUBSET Stored
    BY <1>2
  <2> HIDE DEF P
  <2> QED BY <2>1, AppendProperties
<1> HIDE DEF P, A, N, whole
<1>4. \A i, k \in DOMAIN whole : i # k => whole[i] \cap whole[k] = {}
  <2>1. \A i \in DOMAIN seen : seen[i] \cap P = {}
    <3> SUFFICES ASSUME NEW i \in DOMAIN seen, NEW s \in seen[i], s \in P PROVE FALSE
      OBVIOUS
    <3>1. s > n /\ s <= n /\ s \in Nat
      BY <1>2
    <3> QED BY <3>1
  <2> QED BY <1>3, <2>1
<1>5. ASSUME NEW s \in stays, s <= n \/ s \in P PROVE \E i \in DOMAIN whole : s \in whole[i]
  BY <1>3, <1>5
<1>6. \A s \in stays : s \in Nat /\ (s > n => s \in A)
  BY <1>2 DEF Store!Known
<1>7. ~Store!More(n) => \A s \in stays : \E i \in DOMAIN whole : s \in whole[i]
  BY <1>2, <1>5, <1>6
<1>8. Store!More(n) => /\ \A i \in DOMAIN whole : \A s \in whole[i] : s <= N
                       /\ \A s \in stays : s <= N => \E i \in DOMAIN whole : s \in whole[i]
  <2>1. ASSUME Store!More(n) PROVE N \in Nat /\ N > n
    BY <1>2, <2>1
  <2>2. ASSUME Store!More(n), NEW i \in DOMAIN whole, NEW s \in whole[i] PROVE s <= N
    <3>1. CASE i \in DOMAIN seen
      <4>1. s <= n /\ s \in Stored
        BY <1>3, <2>2, <3>1, ElementOfSeq
      <4> QED BY <1>2, <2>1, <2>2, <4>1
    <3>2. CASE i = Len(seen) + 1
      BY <1>2, <1>3, <2>2, <3>2
    <3> QED BY <1>3, <3>1, <3>2
  <2>3. ASSUME Store!More(n), NEW s \in stays, s <= N PROVE \E i \in DOMAIN whole : s \in whole[i]
    <3>1. s <= n \/ s > n
      BY <1>6, <2>3
    <3> QED BY <1>2, <1>5, <1>6, <2>3, <3>1
  <2> QED BY <2>2, <2>3
<1>9. /\ listing \in [Listings -> Store!Shown] /\ cursors \in Seq([after : Stored, owner : Listings])
      /\ Len(cursors) <= MaxCursors /\ MaxCursors \in Nat /\ Len(cursors) \in Nat
  BY SideAssumption DEF StorageInv, Store!StorageTypeOK
<1>10. page \in Store!Shown
  BY <1>2, <1>3 DEF Store!Shown, Store!Known
<1>11. /\ listing' \in [Listings -> Store!Shown] /\ listing'[l] = page
       /\ \A m \in Listings : m # l => listing'[m] = listing[m]
  BY <1>1, <1>9, <1>10
<1>12. c \in [after : Stored, owner : Listings] <=> N \in Stored
  OBVIOUS
<1>13. ASSUME Store!More(n)
       PROVE  \E d \in {0, 1} :
                /\ cursors' \in Seq([after : Stored, owner : Listings]) /\ Len(cursors') <= MaxCursors
                /\ Len(cursors') = Len(cursors) + 1 - d
                /\ \A i \in DOMAIN cursors' : i + d \in DOMAIN next /\ cursors'[i] = next[i + d]
  <2>1. /\ next \in Seq([after : Stored, owner : Listings]) /\ Len(next) = Len(cursors) + 1 /\ next # << >>
    <3>1. c \in [after : Stored, owner : Listings]
      BY <1>2, <1>12, <1>13
    <3> DEFINE T == [after : Stored, owner : Listings]
    <3>2. cursors \in Seq(T) /\ c \in T
      BY <1>9, <3>1
    <3> HIDE DEF c, T
    <3>3. Append(cursors, c) \in Seq(T) /\ Len(Append(cursors, c)) = Len(cursors) + 1 /\ Append(cursors, c) # << >>
      BY <3>2, AppendProperties
    <3> QED BY <3>3 DEF T
  <2> HIDE DEF next
  <2>2. CASE Len(next) > MaxCursors
    <3>1. cursors' = Tail(next)
      BY <1>1, <1>13, <2>2 DEF Store!Keep
    <3>2. /\ Tail(next) \in Seq([after : Stored, owner : Listings]) /\ Len(Tail(next)) = Len(next) - 1
          /\ \A i \in DOMAIN Tail(next) : i + 1 \in DOMAIN next /\ Tail(next)[i] = next[i + 1]
      BY <2>1
    <3> QED BY <1>9, <2>1, <3>1, <3>2
  <2>3. CASE ~(Len(next) > MaxCursors)
    <3>1. cursors' = next
      BY <1>1, <1>13, <2>3 DEF Store!Keep
    <3>2. \A i \in DOMAIN next : i + 0 = i
      BY <2>1
    <3>3. Len(next) <= MaxCursors /\ Len(next) = Len(cursors) + 1 - 0
      BY <1>9, <2>1, <2>3
    <3> QED BY <2>1, <3>1, <3>2, <3>3
  <2> QED BY <2>2, <2>3
<1>14. /\ next[Len(cursors) + 1] = c /\ DOMAIN next = 1 .. Len(cursors) + 1
       /\ \A i \in DOMAIN cursors : next[i] = cursors[i] /\ i \in 1 .. Len(cursors)
  BY <1>9
<1>15. cursors' \in Seq([after : Stored, owner : Listings]) /\ Len(cursors') <= MaxCursors
  <2>1. CASE Store!More(n)
    BY <1>13, <2>1
  <2>2. CASE ~Store!More(n)
    BY <1>1, <1>9, <2>2
  <2> QED BY <2>1, <2>2
<1> HIDE DEF next
<1>16. Store!StorageTypeOK'
  BY <1>1, <1>11, <1>15 DEF StorageInv, Store!StorageTypeOK, Store!Revision
<1>17. Store!DeletedStays' /\ Store!AppendsOnce' /\ \A w \in Writers : writer'[w].expected < MaxBatches
  BY <1>1 DEF StorageInv, Store!DeletedStays, Store!AppendsOnce
<1>18. Store!ListedOnce'
  <2>1. page.phase = (IF Store!More(n) THEN "paging" ELSE "done") /\ page.seen = whole /\ page.stays = stays
    OBVIOUS
  <2> HIDE DEF page
  <2> SUFFICES ASSUME NEW m \in Listings
               PROVE  LET given == listing'[m].seen
                      IN  /\ \A i, k \in DOMAIN given : i # k => given[i] \cap given[k] = {}
                          /\ listing'[m].phase = "done" =>
                               \A s \in listing'[m].stays : \E i \in DOMAIN given : s \in given[i]
    BY DEF Store!ListedOnce
  <2>2. CASE m = l
    BY <1>4, <1>7, <1>11, <2>1, <2>2
  <2>3. CASE m # l
    BY <1>11, <2>3 DEF StorageInv, Store!ListedOnce
  <2> QED BY <2>2, <2>3
<1>19. ListingInv'
  <2>1. page.phase = (IF Store!More(n) THEN "paging" ELSE "done") /\ page.seen = whole /\ page.stays = stays
    OBVIOUS
  <2> HIDE DEF page
  <2>2. \A m \in Listings : listing'[m].stays \subseteq Store!Known'
    <3>1. Store!Known' = Store!Known
      BY <1>1 DEF Store!Known
    <3> QED BY <1>11, <2>1, <3>1 DEF StorageInv, ListingInv
  <2>3. ASSUME NEW m \in Listings, listing'[m].phase = "paging", NEW i \in Store!Mine(m)',
               \A k \in Store!Mine(m)' : k <= i
        PROVE  Upto(m, cursors[i].after)'
    <3>1. i \in DOMAIN cursors' /\ cursors'[i].owner = m
          /\ \A k \in DOMAIN cursors' : cursors'[k].owner = m => k <= i
      BY <2>3 DEF Store!Mine
    <3>2. CASE m # l
      <4>1. CASE ~Store!More(n)
        <5>1. cursors' = cursors /\ listing'[m] = listing[m]
          BY <1>1, <1>11, <3>2, <4>1
        <5>2. Upto(m, cursors[i].after)
          BY <2>3, <3>1, <5>1 DEF StorageInv, ListingInv, Store!Mine
        <5> QED BY <5>1, <5>2 DEF Upto
      <4>2. CASE Store!More(n)
        <5>1. PICK d \in {0, 1} :
                /\ Len(cursors') = Len(cursors) + 1 - d /\ Len(cursors') \in Nat
                /\ DOMAIN cursors' = 1 .. Len(cursors')
                /\ \A k \in DOMAIN cursors' : k + d \in DOMAIN next /\ cursors'[k] = next[k + d]
          BY <1>13, <4>2
        <5>2. c.owner = l
          OBVIOUS
        <5>3. i + d # Len(cursors) + 1 /\ i + d \in 1 .. Len(cursors) + 1
          BY <1>14, <3>1, <3>2, <5>1, <5>2
        <5>4. i + d \in DOMAIN cursors /\ cursors[i + d] = cursors'[i]
          <6>1. i + d \in DOMAIN cursors
            BY <1>9, <5>3
          <6> QED BY <1>14, <3>1, <5>1, <6>1
        <5>5. ASSUME NEW k \in DOMAIN cursors, cursors[k].owner = m PROVE k <= i + d
          <6>1. k \in 1 .. Len(cursors) /\ i \in Nat /\ i >= 1
            BY <1>14, <3>1, <5>1
          <6>2. CASE k = d
            BY <6>1, <6>2
          <6>3. CASE k # d
            <7>1. k - d \in DOMAIN cursors' /\ (k - d) + d = k
              BY <1>9, <5>1, <6>1, <6>3
            <7>2. cursors'[k - d].owner = m
              BY <1>14, <5>1, <5>5, <7>1
            <7> QED BY <3>1, <6>1, <7>1, <7>2
          <6> QED BY <6>2, <6>3
        <5>6. Upto(m, cursors[i + d].after)
          BY <1>11, <2>3, <3>1, <3>2, <5>4, <5>5 DEF StorageInv, ListingInv, Store!Mine
        <5> QED BY <1>11, <3>2, <5>4, <5>6 DEF Upto
      <4> QED BY <4>1, <4>2
    <3>3. CASE m = l
      <4>1. Store!More(n)
        BY <1>11, <2>1, <2>3, <3>3
      <4>2. PICK d \in {0, 1} :
              /\ Len(cursors') = Len(cursors) + 1 - d /\ Len(cursors') \in Nat
              /\ DOMAIN cursors' = 1 .. Len(cursors')
              /\ \A k \in DOMAIN cursors' : k + d \in DOMAIN next /\ cursors'[k] = next[k + d]
        BY <1>13, <4>1
      <4>3. Len(cursors') \in DOMAIN cursors' /\ Len(cursors') + d = Len(cursors) + 1
        BY <1>9, <3>1, <4>2
      <4>4. cursors'[Len(cursors')] = c
        BY <1>14, <4>2, <4>3
      <4>5. i = Len(cursors') /\ cursors'[i].after = N
        <5>1. c.owner = l /\ c.after = N
          OBVIOUS
        <5>2. Len(cursors') <= i /\ i \in 1 .. Len(cursors')
          BY <3>1, <3>3, <4>2, <4>3, <4>4, <5>1
        <5> QED BY <4>2, <4>4, <5>1, <5>2
      <4> QED BY <1>8, <1>11, <2>1, <3>3, <4>1, <4>5 DEF Upto
    <3> QED BY <3>2, <3>3
  <2> QED BY <2>2, <2>3 DEF ListingInv
<1> QED BY <1>16, <1>17, <1>18, <1>19 DEF StorageInv

\* Every step keeps the invariant.
LEMMA StorageNextSafe ==
  ASSUME StorageInv, [Store!StorageNext]_sV
  PROVE  StorageInv'
<1>1. CASE UNCHANGED sV
  BY <1>1 DEF sV, StorageInv, Store!StorageTypeOK, Store!Revision, Store!DeletedStays, Store!AppendsOnce,
              Store!ListedOnce, ListingInv, Store!Known, Store!Mine, Upto
<1>2. ASSUME NEW w \in Writers, NEW a \in AppendIds, NEW body \in AppendIds, Store!Begins(w, a, body)
      PROVE  StorageInv'
  <2> DEFINE r == [Store!NoWrite EXCEPT !.phase = "asked", !.append = a, !.body = body,
                                        !.expected = Store!Revision(WritesTo[w])]
  <2>1. a \in Nat /\ body \in Nat /\ Store!Revision(WritesTo[w]) \in Nat
    BY SideAssumption DEF StorageInv, Store!StorageTypeOK, Store!Revision
  <2>2. r \in Store!Appending /\ r.answer = "none" /\ r.expected = Store!Revision(WritesTo[w])
    BY <2>1 DEF Store!NoWrite, Store!Appending
  <2>3. r.expected < MaxBatches /\ writer' = [writer EXCEPT ![w] = r]
        /\ UNCHANGED <<batches, deleted, rows, removal, cursors, listing>>
    BY <1>2, <2>2 DEF Store!Begins
  <2> QED BY <2>2, <2>3, AskingSafe
<1>3. ASSUME NEW w \in Writers, NEW lost \in BOOLEAN, Store!Appends(w, lost) PROVE StorageInv'
  BY <1>3, AppendsSafe
<1>4. ASSUME NEW w \in Writers, Store!Misses(w) \/ Store!Retries(w) \/ Store!GoesOn(w) PROVE StorageInv'
  <2>1. /\ writer \in [Writers -> Store!Appending] /\ writer[w] \in Store!Appending
        /\ writer[w].expected < MaxBatches
    BY DEF StorageInv, Store!StorageTypeOK
  <2>2. PICK r : /\ writer' = [writer EXCEPT ![w] = r] /\ r \in Store!Appending /\ r.answer # "committed"
                 /\ r.expected \in {writer[w].expected, 0}
    <3>1. CASE Store!Misses(w)
      <4> DEFINE r == [writer[w] EXCEPT !.phase = "answered", !.answer = "indeterminate"]
      <4>1. writer' = [writer EXCEPT ![w] = r]
        BY <2>1, <3>1 DEF Store!Misses
      <4>2. r \in Store!Appending /\ r.answer = "indeterminate" /\ r.expected = writer[w].expected
        BY <2>1 DEF Store!Appending
      <4> QED BY <4>1, <4>2
    <3>2. CASE Store!Retries(w)
      <4> DEFINE r == [writer[w] EXCEPT !.phase = "asked", !.answer = "none"]
      <4>1. writer' = [writer EXCEPT ![w] = r]
        BY <2>1, <3>2 DEF Store!Retries
      <4>2. r \in Store!Appending /\ r.answer = "none" /\ r.expected = writer[w].expected
        BY <2>1 DEF Store!Appending
      <4> QED BY <4>1, <4>2
    <3>3. CASE Store!GoesOn(w)
      <4>1. writer' = [writer EXCEPT ![w] = Store!NoWrite]
        BY <3>3 DEF Store!GoesOn
      <4>2. Store!NoWrite \in Store!Appending /\ Store!NoWrite.answer = "none" /\ Store!NoWrite.expected = 0
        BY DEF Store!NoWrite, Store!Appending
      <4> QED BY <4>1, <4>2
    <3> QED BY <1>4, <3>1, <3>2, <3>3
  <2>3. UNCHANGED <<batches, deleted, rows, removal, cursors, listing>> /\ r.expected < MaxBatches
    BY <1>4, <2>1, <2>2, SideAssumption DEF Store!Misses, Store!Retries, Store!GoesOn
  <2> QED BY <2>2, <2>3, AskingSafe
<1>5. ASSUME NEW s \in Stored, NEW table \in Tables, Store!Puts(s, table) PROVE StorageInv'
  <2>1. /\ s \notin deleted /\ rows' = rows \cup {<<table, s>>}
        /\ UNCHANGED <<batches, deleted, writer, removal, cursors, listing>>
    BY <1>5 DEF Store!Puts, Store!Gone
  <2>2. Store!StorageTypeOK'
    BY <2>1 DEF StorageInv, Store!StorageTypeOK, Store!Revision
  <2>3. Store!DeletedStays' /\ Store!AppendsOnce' /\ \A w \in Writers : writer'[w].expected < MaxBatches
    BY <2>1 DEF StorageInv, Store!DeletedStays, Store!AppendsOnce
  <2> QED BY <2>1, <2>2, <2>3, ListingsStay DEF StorageInv, Store!Known
<1>6. ASSUME NEW s \in Stored, Store!Finds(s) PROVE StorageInv'
  <2>1. removal' = s /\ UNCHANGED <<batches, deleted, rows, writer, cursors, listing>>
    BY <1>6 DEF Store!Finds
  <2>2. Store!StorageTypeOK'
    BY <2>1 DEF StorageInv, Store!StorageTypeOK, Store!Revision
  <2>3. Store!DeletedStays' /\ Store!AppendsOnce' /\ \A w \in Writers : writer'[w].expected < MaxBatches
    BY <2>1 DEF StorageInv, Store!DeletedStays, Store!AppendsOnce
  <2> QED BY <2>1, <2>2, <2>3, ListingsStay DEF StorageInv, Store!Known
<1>7. ASSUME NEW s \in Stored, Store!DeletesElsewhere(s) PROVE StorageInv'
  BY <1>7, RemovesSafe DEF Store!DeletesElsewhere, StorageInv, Store!StorageTypeOK
<1>8. CASE Store!Deletes
  BY <1>8, RemovesSafe DEF Store!Deletes, StorageInv, Store!StorageTypeOK
<1>9. ASSUME NEW l \in Listings, Store!Lists(l) PROVE StorageInv'
  <2>1. Store!Shows(l, 0, << >>, Store!Known)
    BY <1>9 DEF Store!Lists
  <2>2. << >> \in Seq(SUBSET Stored) /\ DOMAIN << >> = {} /\ Store!Known \in SUBSET Store!Known
    OBVIOUS
  <2>3. \A s \in Store!Known : ~(s <= 0)
    BY SideAssumption DEF Store!Known
  <2> QED BY <2>1, <2>2, <2>3, PagesFollow
<1>10. ASSUME NEW l \in Listings, Store!Continues(l) PROVE StorageInv'
  <2>1. PICK i \in Store!Mine(l) :
          /\ listing[l].phase = "paging" /\ \A k \in Store!Mine(l) : k <= i
          /\ Store!Shows(l, cursors[i].after, listing[l].seen, listing[l].stays)
    BY <1>10 DEF Store!Continues
  <2>2. cursors[i].after \in Nat
    <3>1. cursors \in Seq([after : Stored, owner : Listings]) /\ i \in DOMAIN cursors
      BY DEF StorageInv, Store!StorageTypeOK, Store!Mine
    <3>2. cursors[i] \in [after : Stored, owner : Listings]
      <4> DEFINE T == [after : Stored, owner : Listings]
      <4>1. cursors \in Seq(T)
        BY <3>1
      <4> HIDE DEF T
      <4>2. cursors[i] \in T
        BY <3>1, <4>1
      <4> QED BY <4>2 DEF T
    <3> QED BY <3>2, SideAssumption
  <2>3. listing[l].seen \in Seq(SUBSET Stored) /\ listing[l].stays \in SUBSET Store!Known
    BY DEF StorageInv, Store!StorageTypeOK, Store!Shown, ListingInv
  <2>4. Upto(l, cursors[i].after)
    BY <2>1 DEF StorageInv, ListingInv
  <2>5. \A k, m \in DOMAIN listing[l].seen : k # m => listing[l].seen[k] \cap listing[l].seen[m] = {}
    BY DEF StorageInv, Store!ListedOnce
  <2> QED BY <2>1, <2>2, <2>3, <2>4, <2>5, PagesFollow DEF Upto
<1>11. ASSUME NEW l \in Listings, Store!Expired(l) PROVE StorageInv'
  <2>1. /\ listing' = [listing EXCEPT ![l] = Store!Idle] /\ UNCHANGED <<batches, deleted, rows, writer, removal, cursors>>
    BY <1>11 DEF Store!Expired
  <2>2. /\ listing \in [Listings -> Store!Shown] /\ Store!Idle \in Store!Shown
        /\ Store!Idle.phase = "idle" /\ Store!Idle.stays = {} /\ Store!Idle.seen = << >>
    BY DEF StorageInv, Store!StorageTypeOK, Store!Idle, Store!Shown
  <2>3. /\ listing' \in [Listings -> Store!Shown]
        /\ \A m \in Listings : listing'[m] = IF m = l THEN Store!Idle ELSE listing[m]
    BY <2>1, <2>2
  <2>4. Store!StorageTypeOK'
    BY <2>1, <2>3 DEF StorageInv, Store!StorageTypeOK, Store!Revision
  <2>5. Store!DeletedStays' /\ Store!AppendsOnce' /\ \A w \in Writers : writer'[w].expected < MaxBatches
    BY <2>1 DEF StorageInv, Store!DeletedStays, Store!AppendsOnce
  <2>6. Store!ListedOnce'
    BY <2>2, <2>3 DEF StorageInv, Store!ListedOnce
  <2>7. ListingInv'
    BY <2>1, <2>2, <2>3 DEF StorageInv, ListingInv, Store!Known, Store!Mine, Upto
  <2> QED BY <2>4, <2>5, <2>6, <2>7 DEF StorageInv
<1> QED BY <1>1, <1>2, <1>3, <1>4, <1>5, <1>6, <1>7, <1>8, <1>9, <1>10, <1>11 DEF Store!StorageNext

-----------------------------------------------------------------------------
\* The whole

SideInv == BranchInv /\ DisplayInv /\ StorageInv /\ PermissionInv /\ TerminalInv /\ FileInv

\* The inductive invariants of all parts hold: what a branch, a text, an append, a listing,
\* a question, a terminal or a file has come to, and what is still under way for it, go
\* together.
THEOREM SideSafe == SideSpec => []SideInv
<1>1. SideInit => SideInv
  BY BranchesStart, DisplayStarts, StorageStarts, PermissionsStart, TerminalsStart, FilesStart DEF SideInit, SideInv
<1>2. SideInv /\ [UNCHANGED part /\ SideNext]_<<part, sideVars>> => SideInv'
  <2>1. ASSUME SideInv, [UNCHANGED part /\ SideNext]_<<part, sideVars>>
        PROVE  /\ [Branching!BranchNext]_bV /\ [Display!DisplayNext]_dV /\ [Store!StorageNext]_sV
               /\ [Permissions!PermissionNext]_mV /\ [Terminals!TerminalNext]_tV /\ [Files!FileNext]_fV
    BY <2>1 DEF SideNext, sideVars
  <2> QED BY <2>1, BranchesNextSafe, DisplayNextSafe, StorageNextSafe, PermissionsNextSafe, TerminalsNextSafe,
             FilesNextSafe
          DEF SideInv
<1> QED BY <1>1, <1>2, PTL DEF SideSpec

\* No child of a branch is left without its caller and no caller without an answer, a branch
\* is of whole turns, and no input is journaled under a registry before its adoption.
THEOREM BranchesStayWhole == SideSpec => []BranchesAreWhole
<1>1. SideInv => BranchesAreWhole
  BY DEF SideInv, BranchInv, BranchesAreWhole
<1> QED BY <1>1, SideSafe, PTL

\* A text is shown once and whole, a permission is asked after its call was shown, and what
\* is shown of the configuration and usage settles at the current one.
THEOREM DisplayFollows == SideSpec => []DisplayFollowsJournal
<1>1. SideInv => DisplayFollowsJournal
  BY DisplayHolds DEF SideInv, DisplayFollowsJournal
<1> QED BY <1>1, SideSafe, PTL

\* A deleted session stays deleted, an append is stored once however often it is asked, and
\* a client that lists page by page is shown every session that was there, once.
THEOREM StoreIsKept == SideSpec => []StoreKeepsItsWord
<1>1. SideInv => StoreKeepsItsWord
  BY DEF SideInv, StorageInv, StoreKeepsItsWord
<1> QED BY <1>1, SideSafe, PTL

\* A request is put to the user for the turn that made it only, a confirmed write is on
\* disk, and a process that runs can be named until it is killed.
THEOREM HandlersKeepFaith == SideSpec => []HandlersKeepTheirWord
<1>1. SideInv => HandlersKeepTheirWord
  BY DEF SideInv, PermissionInv, TerminalInv, FileInv, HandlersKeepTheirWord
<1> QED BY <1>1, SideSafe, PTL
=============================================================================

----------------------------- MODULE AcpStorage ------------------------------
(***************************************************************************)
(* The sessions a workspace keeps in SQLite (workspace-persistence.ts) and  *)
(* their listing (workspace-directory.ts).  Every operation is a            *)
(* transaction; what interleaves are the operations of several runtimes and *)
(* processes, answers that get lost, and the pages of a listing.            *)
(***************************************************************************)
EXTENDS Integers, Sequences, FiniteSets

CONSTANTS
  Stored,     \* sessions, numbered in the order of their workspace and ID
  Writers,    \* runtimes that append, each to one session
  Listings,   \* clients that list page by page
  WritesTo,   \* the session of each writer
  AppendIds,  \* append IDs a runtime may use, and contents it may give them
  Tables,     \* what is kept beside the batches, session_info among it
  PageSize,   \* sessions of a page: 50
  MaxCursors, \* cursors kept: 32
  MaxBatches  \* bound: batches of a session

VARIABLES
  batches,  \* batches: of each session, in the order of their revisions
  deleted,  \* deleted_sessions
  rows,     \* session_info, session_scope, session_config, blobs
  writer,   \* an append: asked, and what its answer said
  removal,  \* a delete of the directory: the session it has found
  cursors,  \* pages that can be continued, the oldest first
  listing   \* the pages a client has been shown

storageVars == <<batches, deleted, rows, writer, removal, cursors, listing>>

NoPage  == [after |-> 0, owner |-> 0]
Idle    == [phase |-> "idle", seen |-> << >>, stays |-> {}]
NoWrite == [phase |-> "idle", append |-> 0, body |-> 0, expected |-> 0, answer |-> "none",
            revision |-> 0]

\* Some sessions were stored before.
First == [append |-> 1, body |-> 1, expected |-> 0]

StorageInit ==
  /\ \E old \in SUBSET Stored :
       /\ batches = [s \in Stored |-> IF s \in old THEN <<First>> ELSE << >>]
       /\ rows = {<<"info", s>> : s \in old}
  /\ deleted = {}
  /\ writer = [w \in Writers |-> NoWrite] /\ removal = 0
  /\ cursors = << >> /\ listing = [l \in Listings |-> Idle]

Revision(s) == Len(batches[s])
Known       == {s \in Stored : batches[s] # << >>}
Place(s, a) == {i \in DOMAIN batches[s] : batches[s][i].append = a}

-----------------------------------------------------------------------------
\* An append: its ID may be one that another runtime of the session uses too, with
\* the same content or with other content, and its revision is what it loaded.
Begins(w, a, body) ==
  /\ writer[w].phase = "idle" /\ Revision(WritesTo[w]) < MaxBatches
  /\ writer' = [writer EXCEPT ![w] = [NoWrite EXCEPT !.phase = "asked", !.append = a,
                                        !.body = body, !.expected = Revision(WritesTo[w])]]
  /\ UNCHANGED <<batches, deleted, rows, removal, cursors, listing>>

\* Mutant: a deleted session is only one that has no batches.
Gone_Empty(s) == FALSE

Gone(s) == s \in deleted

Repeated(s, a) == Place(s, a) # {}

\* The transaction's outcome, in the order of its checks.
Outcome(w) ==
  LET s == WritesTo[w]  a == writer[w].append
  IN  CASE Gone(s)                        -> "rejected"
        [] ~Gone(s) /\ Repeated(s, a)     ->
             IF \E i \in Place(s, a) : batches[s][i].body = writer[w].body
                                       /\ batches[s][i].expected = writer[w].expected
               THEN "committed" ELSE "rejected"
        [] ~Gone(s) /\ ~Repeated(s, a)    ->
             IF Revision(s) = writer[w].expected THEN "inserted" ELSE "conflict"

Inserts(w) ==
  LET s == WritesTo[w]
  IN  /\ batches' = [batches EXCEPT ![s] =
                       Append(@, [append |-> writer[w].append, body |-> writer[w].body,
                                  expected |-> writer[w].expected])]
      /\ rows' = rows \cup {<<"info", s>>}

\* append runs, and its answer arrives or is lost.
Appends(w, lost) ==
  /\ writer[w].phase = "asked"
  /\ IF Outcome(w) = "inserted" THEN Inserts(w) ELSE UNCHANGED <<batches, rows>>
  /\ writer' =
       [writer EXCEPT
          ![w].phase = "answered",
          ![w].answer = IF lost THEN "indeterminate"
                        ELSE IF Outcome(w) = "inserted" THEN "committed" ELSE Outcome(w),
          ![w].revision =
             IF ~lost /\ Outcome(w) = "inserted" THEN Revision(WritesTo[w]) + 1
             ELSE IF ~lost /\ Outcome(w) = "committed"
               THEN CHOOSE i \in Place(WritesTo[w], writer[w].append) : TRUE
             ELSE 0]
  /\ UNCHANGED <<deleted, removal, cursors, listing>>

\* The transaction did not run: the store could not be opened, or was busy.
Misses(w) ==
  /\ writer[w].phase = "asked"
  /\ writer' = [writer EXCEPT ![w].phase = "answered", ![w].answer = "indeterminate"]
  /\ UNCHANGED <<batches, deleted, rows, removal, cursors, listing>>

\* What the runtime does next is its own: it asks again, or goes on.
Retries(w) ==
  /\ writer[w].answer = "indeterminate"
  /\ writer' = [writer EXCEPT ![w].phase = "asked", ![w].answer = "none"]
  /\ UNCHANGED <<batches, deleted, rows, removal, cursors, listing>>

GoesOn(w) ==
  /\ writer[w].answer \in {"committed", "conflict"}
  /\ writer' = [writer EXCEPT ![w] = NoWrite]
  /\ UNCHANGED <<batches, deleted, rows, removal, cursors, listing>>

\* putBlob and putConfig need no journal, setScope does.
Puts(s, table) ==
  /\ table # "info" /\ ~Gone(s) /\ (table = "scope" => s \in Known)
  /\ rows' = rows \cup {<<table, s>>}
  /\ UNCHANGED <<batches, deleted, writer, removal, cursors, listing>>

-----------------------------------------------------------------------------
\* session/delete: the directory looks for the session, and removes what it found.
Finds(s) ==
  /\ removal = 0 /\ s \in Known /\ removal' = s
  /\ UNCHANGED <<batches, deleted, rows, writer, cursors, listing>>

\* Another process deletes it: this one's cursors stay.
Removes(s, keeps) ==
  /\ deleted' = deleted \cup {s}
  /\ batches' = [batches EXCEPT ![s] = << >>]
  /\ rows' = {r \in rows : r[2] # s}
  /\ cursors' = IF keeps THEN cursors ELSE << >>
  /\ listing' = [l \in Listings |-> [listing[l] EXCEPT !.stays = @ \ {s}]]
  /\ UNCHANGED writer

Deletes == removal # 0 /\ Removes(removal, FALSE) /\ removal' = 0

DeletesElsewhere(s) == s \in Known /\ Removes(s, TRUE) /\ UNCHANGED removal

-----------------------------------------------------------------------------
\* list: the first sessions after the last one shown, and a cursor if there are more.
After(n) == {s \in Known : s > n}
Page(n)  == {s \in After(n) : Cardinality({r \in After(n) : r <= s}) <= PageSize}
More(n)  == Cardinality(After(n)) > PageSize

NextAfter(n) == CHOOSE s \in Page(n) : \A r \in Page(n) : r <= s

Keep(cs)  == IF Len(cs) > MaxCursors THEN Tail(cs) ELSE cs

Shows(l, n, seen, stays) ==
  /\ listing' = [listing EXCEPT ![l] = [phase |-> IF More(n) THEN "paging" ELSE "done",
                                        seen |-> Append(seen, Page(n)), stays |-> stays]]
  /\ cursors' = IF More(n) THEN Keep(Append(cursors, [after |-> NextAfter(n), owner |-> l]))
                ELSE cursors
  /\ UNCHANGED <<batches, deleted, rows, writer, removal>>

Lists(l) == listing[l].phase = "idle" /\ Shows(l, 0, << >>, Known)

\* The client goes on with the cursor it was given last, if that is still kept.
Mine(l) == {i \in DOMAIN cursors : cursors[i].owner = l}

Continues(l) ==
  /\ listing[l].phase = "paging" /\ Mine(l) # {}
  /\ \E i \in Mine(l) :
       /\ \A j \in Mine(l) : j <= i
       /\ Shows(l, cursors[i].after, listing[l].seen, listing[l].stays)

Expired(l) ==
  /\ listing[l].phase = "paging" /\ Mine(l) = {}
  /\ listing' = [listing EXCEPT ![l] = Idle]
  /\ UNCHANGED <<batches, deleted, rows, writer, removal, cursors>>

StorageNext ==
  \/ \E w \in Writers :
       \/ \E a, body \in AppendIds : Begins(w, a, body)
       \/ (\E lost \in BOOLEAN : Appends(w, lost)) \/ Misses(w) \/ Retries(w) \/ GoesOn(w)
  \/ \E s \in Stored : \/ \E table \in Tables : Puts(s, table)
                       \/ Finds(s) \/ DeletesElsewhere(s)
  \/ Deletes
  \/ \E l \in Listings : Lists(l) \/ Continues(l) \/ Expired(l)

StorageSpec == StorageInit /\ [][StorageNext]_storageVars

-----------------------------------------------------------------------------
Batches == [append : Nat, body : Nat, expected : Nat]
Appending == [phase : {"idle", "asked", "answered"}, append : Nat, body : Nat, expected : Nat,
              answer : {"none", "committed", "rejected", "conflict", "indeterminate"},
              revision : Nat]
Shown == [phase : {"idle", "paging", "done"}, seen : Seq(SUBSET Stored), stays : SUBSET Stored]

StorageTypeOK ==
  /\ batches \in [Stored -> Seq(Batches)] /\ \A s \in Stored : Revision(s) <= MaxBatches
  /\ deleted \subseteq Stored /\ rows \subseteq Tables \X Stored /\ removal \in Stored \cup {0}
  /\ writer \in [Writers -> Appending] /\ listing \in [Listings -> Shown]
  /\ cursors \in Seq([after : Stored, owner : Listings]) /\ Len(cursors) <= MaxCursors

\* Nothing of a deleted session comes back, however late a runtime that still has it
\* appends, selects a configuration or stores a blob.
DeletedStays ==
  \A s \in deleted : batches[s] = << >> /\ \A r \in rows : r[2] # s

\* An append is stored once: asked again after a lost answer it is told the revision
\* it got, and the journal has one batch per ID, each made for its place.
AppendsOnce ==
  /\ \A s \in Stored :
       /\ \A i, k \in DOMAIN batches[s] : batches[s][i].append = batches[s][k].append => i = k
       /\ \A i \in DOMAIN batches[s] : batches[s][i].expected = i - 1
  /\ \A w \in Writers :
       LET s == WritesTo[w]
       IN  writer[w].answer = "committed" /\ s \notin deleted =>
             /\ writer[w].revision \in DOMAIN batches[s]
             /\ batches[s][writer[w].revision].append = writer[w].append
             /\ batches[s][writer[w].revision].body = writer[w].body

\* Page by page a client is shown every session that was there all the time, and
\* none twice, though sessions come and go between its pages.
ListedOnce ==
  \A l \in Listings :
    LET pages == listing[l].seen
    IN  /\ \A i, k \in DOMAIN pages : i # k => pages[i] \cap pages[k] = {}
        /\ listing[l].phase = "done" =>
             \A s \in listing[l].stays : \E i \in DOMAIN pages : s \in pages[i]
=============================================================================

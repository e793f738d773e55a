---------------------------- MODULE WorkspaceFiles ----------------------------
(***************************************************************************)
(* The adapter's write_file tool (acp/workspace-tools.ts): calls of one      *)
(* batch write one path, on the disk (workspace-files.ts) or through the     *)
(* editor (client-files.ts), while other programs save, replace and remove   *)
(* it.  Each call reports what it overwrote, for a diff.  Which paths are    *)
(* allowed, sizes and encodings are left out.                                *)
(***************************************************************************)
EXTENDS Integers, Sequences

CONSTANTS Calls,
          TextLength, \* call -> the length of what it writes
          MaxEdits    \* bound: what other programs do

None   == 0  \* no file
Others == 0  \* the writer of what no call wrote

VARIABLES
  port,  \* "disk", "editor", or "editor, write only": what the client offers
  path,  \* the file the path names; files are numbered as they are made
  files, \* their contents: the writer of each piece
  call,  \* the calls
  made   \* edits by others, counted

writeVars == <<port, path, files, call, made>>

Unknown == [kind |-> "unavailable", text |-> << >>]
Absent  == [kind |-> "absent", text |-> << >>]
Text(t) == [kind |-> "text", text |-> t]

\* A call: its place, its file, the prior contents it will report and those it really
\* overwrote; whether others changed the path since either was seen, or since its last
\* look; whether it was cancelled, and before that last look.
NoCall == [at |-> "run", file |-> None, before |-> Unknown, lost |-> Unknown,
           stale |-> FALSE, crossed |-> FALSE, aborted |-> FALSE, early |-> FALSE]

WriteInit ==
  /\ port \in {"disk", "editor", "editor, write only"}
  /\ files = << <<Others>> >> /\ path \in IF port = "disk" THEN {None, 1} ELSE {1}
  /\ call = [c \in Calls |-> NoCall] /\ made = 0

Over(c)   == call[c].at \in {"done", "failed"}
Full(c)   == [k \in 1..TextLength[c] |-> c]
\* Bytes are written from the start: what lies behind them stays.
Onto(c, t) == [k \in 1..(IF Len(t) > TextLength[c] THEN Len(t) ELSE TextLength[c]) |->
                IF k <= TextLength[c] THEN c ELSE t[k]]

Moves(c, r) == call' = [call EXCEPT ![c] = r] /\ UNCHANGED <<path, files, port, made>>
Fails(c)    == Moves(c, [call[c] EXCEPT !.at = "failed"])

\* The others' calls see the path change under them.
Seen(c, r) == [d \in Calls |-> IF d = c THEN r
                               ELSE [call[d] EXCEPT !.stale = TRUE, !.crossed = TRUE]]

-----------------------------------------------------------------------------
(* On the disk (write).                                                     *)

Opens(c) ==
  /\ port = "disk" /\ call[c].at = "run"
  /\ IF call[c].aborted THEN Fails(c)
     ELSE Moves(c, IF path = None THEN [call[c] EXCEPT !.at = "absent"]
                   ELSE [call[c] EXCEPT !.at = "open", !.file = path])

\* Made exclusively: somebody else's file is not taken for a new one.
Creates(c) ==
  /\ call[c].at = "absent"
  /\ IF path # None THEN Fails(c)
     ELSE /\ files' = Append(files, << >>) /\ path' = Len(files) + 1
          /\ call' = Seen(c, [call[c] EXCEPT !.at = "baseline", !.file = path',
                                             !.before = Absent])
          /\ UNCHANGED <<port, made>>

\* The opened file's path is checked again, for a link or a removal.
Checks(c) ==
  /\ call[c].at = "open"
  /\ IF path = None THEN Fails(c) ELSE Moves(c, [call[c] EXCEPT !.at = "checked"])

\* The diff's baseline is read by a handle of its own; a failure is reported instead of
\* it, a cancellation ends the call.
Baseline(c) ==
  /\ call[c].at = "checked"
  /\ IF call[c].aborted THEN Fails(c)
     ELSE Moves(c, [call[c] EXCEPT !.at = "baseline", !.stale = FALSE,
                                   !.before = IF path = call[c].file THEN Text(files[path])
                                              ELSE Unknown])

\* The last look, before anything is lost: lstat names the file that was opened.
Same(c) == path = call[c].file

LooksAgain(c) ==
  /\ call[c].at = "baseline"
  /\ IF Same(c) THEN Moves(c, [call[c] EXCEPT !.at = "same", !.crossed = FALSE])
     ELSE Fails(c)

Truncates(c) ==
  /\ call[c].at = "same"
  /\ IF call[c].aborted THEN Fails(c)
     ELSE /\ files' = [files EXCEPT ![call[c].file] = << >>]
          /\ call' = Seen(c, [call[c] EXCEPT !.at = "truncated",
                                             !.lost = Text(files[call[c].file])])
          /\ UNCHANGED <<port, path, made>>

Writes(c) ==
  /\ call[c].at = "truncated"
  /\ IF call[c].aborted THEN Fails(c)
     ELSE /\ files' = [files EXCEPT ![call[c].file] = Onto(c, @)]
          /\ call' = Seen(c, [call[c] EXCEPT !.at = "done"])
          /\ UNCHANGED <<port, path, made>>

-----------------------------------------------------------------------------
(* Through the editor.                                                      *)

\* A client that cannot read leaves the prior contents unknown.
AsksBaseline(c) ==
  /\ port # "disk" /\ call[c].at = "run"
  /\ IF call[c].aborted THEN Fails(c)
     ELSE IF port = "editor" THEN Moves(c, [call[c] EXCEPT !.at = "reading"])
     ELSE Moves(c, [call[c] EXCEPT !.at = "asked", !.crossed = FALSE])

\* The editor read its buffer, or could not; a call cancelled by now asks nothing more.
BaselineAnswered(c) ==
  /\ call[c].at = "reading"
  /\ \/ Moves(c, [call[c] EXCEPT !.at = "answered", !.stale = FALSE,
                                   !.before = Text(files[path])])
     \/ Moves(c, [call[c] EXCEPT !.at = "answered"])

AsksWrite(c) ==
  /\ call[c].at = "answered"
  /\ IF call[c].aborted THEN Fails(c)
     ELSE Moves(c, [call[c] EXCEPT !.at = "asked", !.crossed = FALSE])

\* The editor writes: also what nobody waits for any more.
EditorWrites(c) ==
  /\ call[c].at \in {"asked", "left"}
  /\ files' = [files EXCEPT ![path] = Full(c)]
  /\ call' = Seen(c, [call[c] EXCEPT !.at = IF @ = "asked" THEN "written" ELSE "failed",
                                     !.lost = Text(files[path])])
  /\ UNCHANGED <<port, path, made>>

EditorRefuses(c) == call[c].at \in {"asked", "left"} /\ Fails(c)

Confirms(c) == call[c].at = "written" /\ Moves(c, [call[c] EXCEPT !.at = "done"])

\* waitForBoundary: a cancelled call, or one of more than a minute, waits no longer.
GivesUp(c) ==
  /\ call[c].at \in {"reading", "asked", "written"}
  /\ Moves(c, [call[c] EXCEPT !.at = IF @ = "asked" THEN "left" ELSE "failed"])

-----------------------------------------------------------------------------
Aborts(c) ==
  /\ ~Over(c) /\ ~call[c].aborted /\ call[c].at # "left"
  /\ Moves(c, [call[c] EXCEPT !.aborted = TRUE,
         !.early = call[c].at \in {"run", "absent", "open", "checked", "baseline", "reading",
                                   "answered"}])

\* Another program, or the user: the file is saved, replaced by another, removed.
OthersEdit ==
  /\ made < MaxEdits /\ made' = made + 1
  /\ \/ path # None /\ files' = [files EXCEPT ![path] = <<Others>>] /\ UNCHANGED path
     \/ port = "disk" /\ files' = Append(files, <<Others>>) /\ path' = Len(files')
     \/ port = "disk" /\ path # None /\ path' = None /\ UNCHANGED files
  /\ call' = Seen(None, NoCall) /\ UNCHANGED port

WriteNext ==
  \/ OthersEdit
  \/ \E c \in Calls :
       \/ Opens(c) \/ Creates(c) \/ Checks(c) \/ Baseline(c) \/ LooksAgain(c)
       \/ Truncates(c) \/ Writes(c) \/ Aborts(c)
       \/ AsksBaseline(c) \/ BaselineAnswered(c) \/ AsksWrite(c) \/ EditorWrites(c)
       \/ EditorRefuses(c) \/ Confirms(c) \/ GivesUp(c)

WriteSpec == WriteInit /\ [][WriteNext]_writeVars

-----------------------------------------------------------------------------
FilesTypeOK ==
  /\ path \in 0..Len(files)
  /\ \A c \in Calls : call[c].file \in 0..Len(files) /\ call[c].before.kind \in
                        {"text", "absent", "unavailable"}

\* A call that reports success wrote the file the path names, whole, unless somebody
\* else wrote it since the call's last look (write's lstat).
WrittenIsThere ==
  \A c \in Calls : call[c].at = "done" /\ ~call[c].crossed =>
    path # None /\ files[path] = Full(c)

\* The diff shows what the write really overwrote, unless somebody else wrote between the
\* baseline and the write; a file called new was empty (FileWriteResult.before).
DiffIsTrue ==
  \A c \in Calls : call[c].at = "done" /\ ~call[c].stale /\ call[c].before # Unknown =>
    call[c].lost.text = call[c].before.text

\* A call cancelled before its last look (write's throwIfAborted) overwrites nothing; a
\* file it had made stays behind, empty.
CancelledOverwritesNothing ==
  \A c \in Calls : call[c].early =>
    /\ call[c].lost = Unknown
    /\ \A f \in DOMAIN files : \A k \in DOMAIN files[f] : files[f][k] # c
=============================================================================

----------------------------- MODULE EditorFiles -----------------------------
(***************************************************************************)
(* Writes of an agent into one file through the editor                      *)
(* (handlers/FileSystemHandler.ts): they go through the document, which the *)
(* user may be editing, other writes too, and programs outside may change   *)
(* the file.                                                                *)
(***************************************************************************)
EXTENDS Integers

CONSTANTS Writes,  \* fs/write_text_file requests; each writes a text of its own
          MaxEdits \* bound: edits of the user and of programs outside

VARIABLES
  file,     \* what the disk has
  document, \* the editor's document of it
  write,    \* each request
  saved,    \* texts the disk has had
  edits     \* edits of others, counted

fileVars == <<file, document, write, saved, edits>>

Missing == -1
Foreign == 0  \* any text that no write asked for
Texts   == Writes \cup {Foreign}

NoWrite == [phase |-> "none", edit |-> "none", seen |-> Foreign]

FileInit ==
  /\ file \in {Missing, Foreign} /\ saved = {}
  /\ document = [open |-> FALSE, text |-> Foreign, dirty |-> FALSE, version |-> 0]
  /\ write = [w \in Writes |-> NoWrite] /\ edits = 0

Goes(w, phase) == write' = [write EXCEPT ![w].phase = phase]

\* The edit covers the document as it is when the edit is made.
Replaces(w) == [write EXCEPT ![w] = [phase |-> "applying", edit |-> "replace",
                                     seen |-> document.version]]

Begins(w) ==
  /\ write[w].phase = "none"
  /\ IF document.open THEN write' = Replaces(w) ELSE Goes(w, "stat")
  /\ UNCHANGED <<file, document, saved, edits>>

\* A missing file gets its folder; others than "not found" fail.
Stats(w) ==
  /\ write[w].phase = "stat"
  /\ IF file = Missing
       THEN write' = [write EXCEPT ![w] = [phase |-> "applying", edit |-> "create", seen |-> Foreign]]
       ELSE Goes(w, "opening")
  /\ UNCHANGED <<file, document, saved, edits>>

Opened == IF document.open THEN document
          ELSE [document EXCEPT !.open = TRUE, !.text = file, !.dirty = FALSE]

Opens(w) ==
  /\ write[w].phase = "opening" /\ file # Missing
  /\ document' = Opened /\ write' = Replaces(w)
  /\ UNCHANGED <<file, saved, edits>>

\* The text that an edit gives a document that was changed after the edit was made
\* is neither.
Applied(w) == IF write[w].seen = document.version THEN w ELSE Foreign

Edited(text) == [open |-> TRUE, text |-> text, dirty |-> TRUE, version |-> document.version + 1]

\* A file that exists by now is not created again.
Applies(w) ==
  /\ write[w].phase = "applying"
  /\ IF write[w].edit = "create"
       THEN /\ file = Missing /\ file' = Foreign
            /\ document' = Edited(IF document.open THEN Foreign ELSE w)
       ELSE UNCHANGED file /\ document' = Edited(Applied(w))
  /\ Goes(w, "saving")
  /\ UNCHANGED <<saved, edits>>

\* A save may change the text first, by what the user has configured for saves.
Saves(w, text) ==
  /\ write[w].phase = "saving" /\ text \in {document.text, Foreign}
  /\ document' = [document EXCEPT !.text = text, !.dirty = FALSE]
  /\ file' = text /\ saved' = saved \cup {text} /\ Goes(w, "verifying")
  /\ UNCHANGED edits

Verified(w) == ~document.dirty /\ document.text = w

Verifies(w) ==
  /\ write[w].phase = "verifying"
  /\ Goes(w, IF Verified(w) THEN "confirmed" ELSE "failed")
  /\ UNCHANGED <<file, document, saved, edits>>

\* Every wait of the request may end in an error.
WriteFails(w) ==
  /\ write[w].phase \in {"stat", "opening", "applying", "saving"} /\ Goes(w, "failed")
  /\ UNCHANGED <<file, document, saved, edits>>

-----------------------------------------------------------------------------
\* Others: the user types, undoes to the file's text, or saves; a program writes
\* the file, and the editor reloads a document that is not dirty.
UserTypes ==
  /\ document.open /\ edits < MaxEdits /\ edits' = edits + 1
  /\ \E text \in Texts \cup {document.text} : document' = Edited(text)
  /\ UNCHANGED <<file, write, saved>>

UserSaves ==
  /\ document.dirty
  /\ document' = [document EXCEPT !.dirty = FALSE]
  /\ file' = document.text /\ saved' = saved \cup {document.text}
  /\ UNCHANGED <<write, edits>>

FileChanges ==
  /\ edits < MaxEdits /\ edits' = edits + 1 /\ file' \in {Foreign, Missing}
  /\ UNCHANGED <<document, write, saved>>

Reloads ==
  /\ document.open /\ ~document.dirty /\ file # Missing /\ document.text # file
  /\ document' = [document EXCEPT !.text = file, !.version = @ + 1]
  /\ UNCHANGED <<file, write, saved, edits>>

FileNext ==
  \/ \E w \in Writes : \/ Begins(w) \/ Stats(w) \/ Opens(w) \/ Applies(w) \/ Verifies(w)
                       \/ WriteFails(w) \/ \E text \in Texts : Saves(w, text)
  \/ UserTypes \/ UserSaves \/ FileChanges \/ Reloads

FileSpec == FileInit /\ [][FileNext]_fileVars

-----------------------------------------------------------------------------
FileTypeOK ==
  /\ file \in Texts \cup {Missing} /\ saved \subseteq Texts
  /\ document \in [open : BOOLEAN, text : Texts, dirty : BOOLEAN, version : Nat]
  /\ write \in [Writes -> [phase : {"none", "stat", "opening", "applying", "saving", "verifying",
                                    "confirmed", "failed"},
                           edit : {"none", "create", "replace"}, seen : Nat]]

\* A write the agent is told of reached the disk, whole, though the user, another
\* write or a formatter changed the document between its edit and its save.
ConfirmedIsSaved == \A w \in Writes : write[w].phase = "confirmed" => w \in saved
=============================================================================

------------------------------ MODULE MCScenes ------------------------------
(***************************************************************************)
(* A session in three scenes: storage that misbehaves while another process *)
(* writes too, inputs that queue around a restart, and selections around    *)
(* turns with tools.  A behaviour picks its scene once, is one of the       *)
(* session's own, and each scene bounds what its clients ask for.           *)
(***************************************************************************)
EXTENDS MCSession

VARIABLE scene

\* How often clients have asked for something of a kind.
Asked(kind) == Cardinality({id \in sent : id[1] = kind})
\* Users, and selections, differ by nothing but their names: they ask in a fixed order.
InOrder(kind, names) ==
  \A i \in 2..Len(names) : <<kind, names[i]>> \in sent => <<kind, names[i - 1]>> \in sent
Closing     == \E i \in DOMAIN mailbox : mailbox[i].type = "close"
UsesTools   == \E i \in DOMAIN mailbox :
  /\ mailbox[i].type = "submit" /\ mailbox[i].input.kind = "child"
  /\ mailbox[i].input.result # "end"

\* Two users and a system change, two storage faults, a foreign batch, a close.
StorageScene ==
  /\ Asked("user") <= 2 /\ Asked("abort") = 0 /\ Asked("select") = 0
  /\ phase = "down" => answers[CreateId] \notin {"none", "accepted"}
  /\ restores = 0 /\ ~UsesTools

\* Four requests of three users, a selection, a system change and an abort; one restart.
QueueScene ==
  /\ Cardinality(sent) <= 4 /\ Asked("user") + Asked("select") <= 3 /\ Asked("select") <= 1
  /\ \A i \in DOMAIN mailbox : mailbox[i].type = "select" => mailbox[i].patch \in OffPatch
  /\ faults = 0 /\ foreign = 0 /\ ~Closing /\ ~UsesTools

\* Two users and three selections, or two of which the writing of one may fail; tools.
SelectionScene ==
  /\ Asked("user") <= 2 /\ Asked("system") = 0 /\ Asked("abort") = 0
  /\ durable.pendingInputs = << >>
  /\ Asked("select") + faults <= 3 /\ faults <= 1
  /\ foreign = 0 /\ restores = 0 /\ phase # "down" /\ ~Closing

\* Of its faults, only one in writing a selection; the third selection meets the first user.
StepsOf(s) == s = "selections" =>
  /\ faults' # faults => storing' # storing
  /\ <<"select", c3>> \in sent' \ sent => Asked("user") <= 1

Scenes == {"storage", "queue", "selections"}

InScene ==
  /\ InOrder("user", <<u1, u2, u3>>) /\ InOrder("select", <<c1, c2, c3>>)
  /\ CASE scene = "storage"    -> StorageScene
       [] scene = "queue"      -> QueueScene
       [] scene = "selections" -> SelectionScene

sceneVars == <<vars, scene>>

ScenesSpec ==
  /\ Init /\ scene \in Scenes
  /\ [][Next /\ UNCHANGED scene /\ InScene' /\ StepsOf(scene)]_sceneVars
==============================================================================

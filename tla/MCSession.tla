------------------------------ MODULE MCSession ------------------------------
(***************************************************************************)
(* Small instances of a session for TLC.                                   *)
(***************************************************************************)
EXTENDS SessionInvariant

CONSTANTS u1, u2, u3, s1, a1, c1, c2, c3, m1, m2

OneUser  == {u1}
TwoUsers == {u1, u2}
ThreeUsers == {u1, u2, u3}
NoOne    == {}
OneSystem == {s1}
OneAbort  == {a1}
OneSelect == {c1}
TwoSelects == {c1, c2}
ThreeSelects == {c1, c2, c3}

Permissions    == {"off", "ask"}
AskPermissions == {"ask"}
OneModel  == {m1}
TwoModels == {m1, m2}

AskFirst == [perm |-> "ask", model |-> m1]

\* Patches that switch the permission mode, and one that switches the model.
OffPatch     == {[perm |-> "off", model |-> None]}
OffOrModel   == OffPatch \cup {[perm |-> None, model |-> m2]}
PermPatches  == {[perm |-> p, model |-> None] : p \in Permissions}
==============================================================================

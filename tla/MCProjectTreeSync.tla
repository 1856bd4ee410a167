------------------------- MODULE MCProjectTreeSync -------------------------
(* Small instances of ProjectTreeSync for TLC. *)
EXTENDS ProjectTreeSync

\* Creations by site 1 in the order of the names.
Made(e, n, p) ==
  [kind |-> "create", id |-> [counter |-> e, site |-> 1], entry |-> e, name |-> n, parent |-> p]

\* A folder.
OneFolder == <<Made(1, "a", NoParent)>>

\* Two folders beside each other.
TwoFolders == <<Made(1, "a", NoParent), Made(2, "b", NoParent)>>

\* A folder in a folder, with a file.
NestedFolders == <<Made(1, "a", NoParent), Made(2, "b", 1), Made(3, "c", 2)>>
=============================================================================

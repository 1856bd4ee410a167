---------------------------- MODULE ProjectTree ----------------------------
(***************************************************************************)
(* The tree of files and folders of a room as a set of operations          *)
(* (client/src/crdt/ProjectTree.ts), and how the server reads the same     *)
(* operations (Application/Projects/ProjectTreeStateService.cs).           *)
(*                                                                         *)
(* Every operation writes registers of one entry: a creation its existence,*)
(* name and parent, a rename its name, a move its parent, a deletion its   *)
(* tombstone.  Of the writes of a register the one with the greatest       *)
(* identifier counts.  Identifiers of entries and sites are strings in the *)
(* code that are compared; here they are numbers.  Whether an entry is a   *)
(* folder never changes and is a property of its identifier.  Names that   *)
(* differ in case only are one name.                                       *)
(***************************************************************************)
EXTENDS Naturals, FiniteSets, FiniteSetsExt, SequencesExt

CONSTANTS
  Site,        \* the site identifiers of tabs
  SeedSite,    \* "syncode-seed", the site of fromEntries' creations
  Entry,       \* the identifiers of files and folders
  Folder,      \* those of folders
  Name         \* the names of entries

\* Tabs have hexadecimal site identifiers, which "syncode-seed" follows.
ASSUME ProjectTreeAssumption ==
  /\ Site \subseteq Nat /\ SeedSite \in Nat
  /\ \A s \in Site : s < SeedSite
  /\ Entry \subseteq Nat \ {0} /\ Folder \subseteq Entry

NoParent == 0     \* parentId = null
Parent == Folder \cup {NoParent}

OpId == [counter : Nat \ {0}, site : Site \cup {SeedSite}]

ProjectTreeOperation ==
  [kind : {"create"}, id : OpId, entry : Entry, name : Name, parent : Parent]
    \cup [kind : {"rename"}, id : OpId, entry : Entry, name : Name]
    \cup [kind : {"move"}, id : OpId, entry : Entry, parent : Parent]
    \cup [kind : {"delete"}, id : OpId, entry : Entry]

\* compareCrdtIds(a, b) > 0
Greater(a, b) ==
  \/ a.counter > b.counter
  \/ a.counter = b.counter /\ a.site > b.site

\* The clock of a tree that has just been built from ops.
Clock(ops) == Max({o.id.counter : o \in ops} \cup {0})

-----------------------------------------------------------------------------
(* The registers.                                                          *)

Writes(ops, e, kinds) == {o \in ops : o.entry = e /\ o.kind \in kinds}

\* selectRegister over all writes of a register.
Latest(writes) == CHOOSE o \in writes : \A p \in writes : ~Greater(p.id, o.id)

CreateOp(ops, e) == Latest(Writes(ops, e, {"create"}))
NameOp(ops, e) == Latest(Writes(ops, e, {"create", "rename"}))
ParentOp(ops, e) == Latest(Writes(ops, e, {"create", "move"}))

Created(ops) == {e \in Entry : Writes(ops, e, {"create"}) # {}}
Deleted(ops) == {e \in Entry : Writes(ops, e, {"delete"}) # {}}

\* createVisibleEntries
Listed(ops) == Created(ops) \ Deleted(ops)
Parents(ops) == [e \in Listed(ops) |-> ParentOp(ops, e).parent]

-----------------------------------------------------------------------------
(* The visible tree.                                                       *)

\* S has the parent of e, and with an entry of `up' its parent.
ClosedAbove(up, e, S) ==
  /\ up[e] \in S \cup {NoParent}
  /\ \A d \in S \cap DOMAIN up : up[d] \in S \cup {NoParent}

\* What a walk from e to its parent, its parent's parent... meets, until it is
\* at the root, outside `up', or where it has been before: the least such set.
Above(up, e) ==
  LET above == {up[d] : d \in DOMAIN up} \ {NoParent}
  IN  {a \in above : \A S \in SUBSET above : ClosedAbove(up, e, S) => a \in S}

\* removeDeletedDescendants
Visible(ops) ==
  LET up == Parents(ops)
      deleted == Deleted(ops)
  IN  {e \in DOMAIN up : Above(up, e) \cap deleted = {}}

\* detachInvalidParents
Attached(ops) ==
  LET visible == Visible(ops)
      up == Parents(ops)
  IN  [e \in visible |-> IF up[e] \in visible \cap Folder THEN up[e] ELSE NoParent]

\* Mutant: cycles stay.
DetachNone(ops, up, e) == FALSE

\* breakParentCycles: of a cycle, the entry with the oldest parent.
Detach(ops, up, e) ==
  /\ e \in Above(up, e)
  /\ \A f \in Above(up, e) \ {e} : Greater(ParentOp(ops, f).id, ParentOp(ops, e).id)

\* getEntries
getEntries(ops) ==
  LET up == Attached(ops)
  IN  [e \in DOMAIN up |->
         [name |-> NameOp(ops, e).name,
          parent |-> IF Detach(ops, up, e) THEN NoParent ELSE up[e]]]

-----------------------------------------------------------------------------
(* Snapshots.                                                              *)

\* Mutant: a later operation on the entry supersedes, whatever it writes.
SupersedesAll(p, o) == p.entry = o.entry /\ Greater(p.id, o.id)

\* Every register o writes, or the only one that counts, has a later write by p.
Supersedes(p, o) ==
  /\ p.entry = o.entry
  /\ Greater(p.id, o.id)
  /\ p.kind = o.kind \/ (p.kind = "create" /\ o.kind \in {"rename", "move"})

\* toSnapshot, and what the append script stores: the operations that still
\* stand in a register (a creation stands while it is the latest creation).
Compact(ops) == {o \in ops : \A p \in ops : ~Supersedes(p, o)}

\* validateOperationBatch: an identifier with two values.
Conflict(ops, more) == \E o \in ops, p \in more : o.id = p.id /\ o # p

\* fromEntries: creations in the order of the entries' identifiers.
fromEntries(entries) ==
  {[kind |-> "create",
    id |-> [counter |-> Cardinality({d \in DOMAIN entries : d <= e}), site |-> SeedSite],
    entry |-> e, name |-> entries[e].name, parent |-> entries[e].parent] :
   e \in DOMAIN entries}

-----------------------------------------------------------------------------
(* The server's reading of the operations.                                 *)

\* RemoveEntriesUnderDeletedParents visits the entries in the order of their
\* creation and walks through those it has not removed.  What it visited before
\* e is removed, and ends the walk, or has nothing deleted above it: e goes only
\* if the walk comes to a deleted entry through entries visited later.
Remaining(ops) ==
  LET up == Parents(ops)
      deleted == Deleted(ops)
      later(e) == {d \in DOMAIN up : ~Greater(CreateOp(ops, e).id, CreateOp(ops, d).id)}
  IN  {e \in DOMAIN up : Above([d \in later(e) |-> up[d]], e) \cap deleted = {}}

\* GetEntriesAsync: parents as they are written, cycles included.
GetEntries(ops) ==
  [e \in Remaining(ops) |->
     [name |-> NameOp(ops, e).name, parent |-> ParentOp(ops, e).parent]]
=============================================================================

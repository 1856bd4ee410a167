---------------------------- MODULE CrdtDocument ----------------------------
(***************************************************************************)
(* The sequence CRDT behind every text file of a room                      *)
(* (client/src/crdt/CrdtDocument.ts, CrdtId.ts, CrdtChar.ts).              *)
(*                                                                         *)
(* A document is the sequence of its characters, tombstones included.      *)
(* JavaScript positions start at 0 and findCharIndex answers -1 for "not   *)
(* there"; positions here start at 1 and IndexOf answers 0, so the null    *)
(* origin (position -1 in the code) is Root, an identifier that no         *)
(* character has.  The value of a character never changes once its         *)
(* identifier is issued and no rule reads it: it is left out.              *)
(***************************************************************************)
EXTENDS Integers, Sequences, SequencesExt

CONSTANT Site   \* the site identifiers; only their order matters, so numbers

ASSUME SiteAssumption == Site \subseteq Nat \ {0}

Id == [counter : Nat \ {0}, site : Site]

\* originId = null: "inserted at the start of the document".
Root == [counter |-> 0, site |-> 0]

Char == [id : Id, origin : Id \cup {Root}, isDeleted : BOOLEAN]

createChar(id, origin) == [id |-> id, origin |-> origin, isDeleted |-> FALSE]

\* compareCrdtIds(a, b) > 0: the Lamport counter first, the site breaks ties.
Greater(a, b) ==
  \/ a.counter > b.counter
  \/ a.counter = b.counter /\ a.site > b.site

\* findCharIndex
IndexOf(doc, id) == SelectInSeq(doc, LAMBDA c : c.id = id)

HasChar(doc, id) == IndexOf(doc, id) # 0

\* PendingBuffer.isInsertReady: the origin is there to insert after.
isInsertReady(doc, char) == char.origin = Root \/ HasChar(doc, char.origin)

\* Faulty variants of EndsScan: siblings compared by their counters only; the
\* end of the origin's subtree not recognised.
EndsScanWithoutTieBreak(doc, new, next) ==
  IF next.origin = new.origin
  THEN new.id.counter > next.id.counter
  ELSE IndexOf(doc, next.origin) < IndexOf(doc, new.origin)
EndsScanAtSiblingsOnly(doc, new, next) ==
  next.origin = new.origin /\ Greater(new.id, next.id)

\* What ends the forward scan of insertChar at the character `next': a direct
\* sibling that is smaller than the new character, or a character whose origin
\* lies before ours, which is therefore outside our origin's subtree.
EndsScan(doc, new, next) ==
  IF next.origin = new.origin
  THEN Greater(new.id, next.id)
  ELSE IndexOf(doc, next.origin) < IndexOf(doc, new.origin)

\* The position insertChar splices the new character in at.
InsertPos(doc, new) ==
  LET stop == SelectInSubSeq(doc, IndexOf(doc, new.origin) + 1, Len(doc),
                             LAMBDA next : EndsScan(doc, new, next))
  IN  IF stop = 0 THEN Len(doc) + 1 ELSE stop

insertChar(doc, new) == InsertAt(doc, InsertPos(doc, new), new)

\* integrateRemoteInsert: a character that is already there is left alone.
integrateRemoteInsert(doc, new) ==
  IF HasChar(doc, new.id) THEN doc ELSE insertChar(doc, new)

\* localDelete and integrateRemoteDelete of every identifier in `ids': a
\* character that is there becomes a tombstone, the others are ignored.
integrateRemoteDeletes(doc, ids) ==
  [i \in 1..Len(doc) |->
     IF doc[i].id \in ids THEN [doc[i] EXCEPT !.isDeleted = TRUE] ELSE doc[i]]

\* A faulty variant of mergeChar: the snapshot's flag replaces ours.
mergeCharOverwriting(doc, char) ==
  IF HasChar(doc, char.id)
  THEN [doc EXCEPT ![IndexOf(doc, char.id)].isDeleted = char.isDeleted]
  ELSE insertChar(doc, char)

\* One iteration of the loop of fromSnapshot over the snapshot's characters.
mergeChar(doc, char) ==
  IF HasChar(doc, char.id)
  THEN IF char.isDeleted THEN integrateRemoteDeletes(doc, {char.id}) ELSE doc
  ELSE insertChar(doc, char)

Ids(doc) == {doc[i].id : i \in 1..Len(doc)}
Tombstones(doc) == {doc[i].id : i \in {j \in 1..Len(doc) : doc[j].isDeleted}}

\* The characters toVisibleString shows.
Visible(doc) == {doc[i].id : i \in {j \in 1..Len(doc) : ~doc[j].isDeleted}}

(***************************************************************************)
(* What "an RGA document" means, as facts about pairs of positions: the    *)
(* sequence is the pre-order walk of the tree of origins with siblings in  *)
(* descending order of their identifiers.                                  *)
(***************************************************************************)
UniqueChars(doc) ==
  \A i, j \in 1..Len(doc) : doc[i].id = doc[j].id => i = j

OriginsPrecede(doc) ==
  \A i \in 1..Len(doc) :
     doc[i].origin = Root \/ IndexOf(doc, doc[i].origin) \in 1..(i - 1)

SiblingsDescend(doc) ==
  \A i, j \in 1..Len(doc) :
     i < j /\ doc[i].origin = doc[j].origin => Greater(doc[i].id, doc[j].id)

\* Between an origin and any character inserted after it there are only
\* characters of that origin's subtree.
SubtreesAreContiguous(doc) ==
  \A i, j \in 1..Len(doc) :
     /\ i < j
     /\ IndexOf(doc, doc[j].origin) < i
     => IndexOf(doc, doc[i].origin) >= IndexOf(doc, doc[j].origin)

TreeOrder(doc) ==
  /\ UniqueChars(doc)
  /\ OriginsPrecede(doc)
  /\ SiblingsDescend(doc)
  /\ SubtreesAreContiguous(doc)
=============================================================================

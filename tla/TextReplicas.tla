---------------------------- MODULE TextReplicas ----------------------------
(***************************************************************************)
(* The replicas of one text file: every browser holds a CrdtDocument and a *)
(* PendingBuffer (client/src/crdt/PendingBuffer.ts) and exchanges single   *)
(* operations and whole snapshots with the others.                         *)
(*                                                                         *)
(* The network may reorder, delay and duplicate: SignalR runs over a Redis *)
(* backplane and gives no order across sites, and replayed operations and  *)
(* snapshots carry what may already have arrived.  An operation is in      *)
(* flight to each other site until that site receives it; a duplicate of   *)
(* it may arrive at any time after that.  A snapshot may be loaded at any  *)
(* time after it was taken, by any site, any number of times or never.     *)
(* Reconnection and the server's stored copy are not modelled here.        *)
(*                                                                         *)
(* A JavaScript handler runs to completion, but two of them loop: drain()  *)
(* over the buffered operations a new character unblocks, fromSnapshot()   *)
(* over the characters of the snapshot.  Each iteration is an action here; *)
(* the sets `draining' and `merging' hold what the loop has left, and no   *)
(* other handler starts anywhere while they are not empty (an iteration    *)
(* reads and writes only its own site's state, so nothing is lost by not   *)
(* interleaving other sites' handlers with it).                            *)
(***************************************************************************)
EXTENDS CrdtDocument, FiniteSets

CONSTANTS
  MaxInserts,    \* bound: characters ever inserted, by all sites
  MaxDeletes,    \* bound: characters ever deleted, by all sites
  MaxSnapshots   \* bound: different snapshots ever sent

ASSUME BoundsAssumption ==
  MaxInserts \in Nat /\ MaxDeletes \in Nat /\ MaxSnapshots \in Nat

VARIABLES
  doc,             \* doc[s]: the characters of s's CrdtDocument, in order
  clock,           \* clock[s]: its Lamport clock
  pendingInserts,  \* PendingBuffer: inserts whose origin is missing
  pendingDeletes,  \* PendingBuffer: deletes whose character is missing
  draining,        \* inserts drain() has taken out of the buffer, not yet done
  merging,         \* characters fromSnapshot() still has to look at
  insertsTo,       \* insertsTo[s]: inserts in flight to s
  deletesTo,       \* deletesTo[s]: deletes in flight to s
  snapshotsSent    \* the snapshots sent so far

network == <<insertsTo, deletesTo, snapshotsSent>>
buffers == <<pendingInserts, pendingDeletes, draining>>
vars == <<doc, clock, buffers, merging, network>>

Snapshot == [clock : Nat, chars : Seq(Char)]

TypeOK ==
  /\ doc \in [Site -> Seq(Char)]
  /\ clock \in [Site -> Nat]
  /\ pendingInserts \in [Site -> SUBSET Char]
  /\ pendingDeletes \in [Site -> SUBSET Id]
  /\ draining \in [Site -> SUBSET Char]
  /\ merging \in [Site -> Seq(Char)]
  /\ insertsTo \in [Site -> SUBSET Char]
  /\ deletesTo \in [Site -> SUBSET Id]
  /\ snapshotsSent \subseteq Snapshot

Init ==
  /\ doc = [s \in Site |-> <<>>]
  /\ clock = [s \in Site |-> 0]
  /\ pendingInserts = [s \in Site |-> {}]
  /\ pendingDeletes = [s \in Site |-> {}]
  /\ draining = [s \in Site |-> {}]
  /\ merging = [s \in Site |-> <<>>]
  /\ insertsTo = [s \in Site |-> {}]
  /\ deletesTo = [s \in Site |-> {}]
  /\ snapshotsSent = {}

\* No handler is between two iterations of its loop.
Quiet == \A s \in Site : draining[s] = {} /\ merging[s] = <<>>

AtLeast(a, b) == IF a >= b THEN a ELSE b   \* Math.max

AllInserted == UNION {Ids(doc[s]) : s \in Site}
AllDeleted == UNION {Tombstones(doc[s]) : s \in Site}

\* OthersInGroup: put an operation in flight to every site but s.
Relay(queues, s, op) ==
  [t \in Site |-> IF t = s THEN queues[t] ELSE queues[t] \cup {op}]

-----------------------------------------------------------------------------
(* A user types or erases.  The editor binding names only visible          *)
(* characters: as the origin of an insert and as the target of a delete.   *)

\* Faulty variants of NextId: read before the clock is advanced; without the
\* site that issues it.
NextIdBeforeTick(s) == [counter |-> clock[s], site |-> s]
NextIdWithoutSite(s) ==
  [counter |-> clock[s] + 1, site |-> CHOOSE t \in Site : \A u \in Site : t <= u]

NextId(s) == [counter |-> clock[s] + 1, site |-> s]

LocalInsert(s) ==
  /\ Quiet
  /\ Cardinality(AllInserted) < MaxInserts
  /\ \E origin \in Visible(doc[s]) \cup {Root} :
       LET char == createChar(NextId(s), origin)
       IN  /\ clock' = [clock EXCEPT ![s] = @ + 1]
           /\ doc' = [doc EXCEPT ![s] = insertChar(@, char)]
           /\ insertsTo' = Relay(insertsTo, s, char)
  /\ UNCHANGED <<buffers, merging, deletesTo, snapshotsSent>>

LocalDelete(s) ==
  /\ Quiet
  /\ \E id \in Visible(doc[s]) :
       /\ Cardinality(AllDeleted \cup {id}) <= MaxDeletes
       /\ doc' = [doc EXCEPT ![s] = integrateRemoteDeletes(@, {id})]
       /\ deletesTo' = Relay(deletesTo, s, id)
  /\ UNCHANGED <<clock, buffers, merging, insertsTo, snapshotsSent>>

-----------------------------------------------------------------------------
(* PendingBuffer.process and its drain loop.                               *)

\* integrateRemoteInsert followed by the body of drain: the deletes buffered
\* for the character are applied, the inserts buffered under it are taken out
\* and join those that drain has left (`rest').
IntegrateAndDrain(s, char, rest) ==
  LET integrated == integrateRemoteInsert(doc[s], char)
      waiting == {c \in pendingInserts[s] : c.origin = char.id}
  IN  /\ clock' = [clock EXCEPT ![s] = AtLeast(@, char.id.counter)]
      /\ doc' = [doc EXCEPT ![s] = integrateRemoteDeletes(
                                     integrated, pendingDeletes[s] \cap {char.id})]
      /\ pendingDeletes' = [pendingDeletes EXCEPT ![s] = @ \ {char.id}]
      /\ pendingInserts' = [pendingInserts EXCEPT ![s] = @ \ waiting]
      /\ draining' = [draining EXCEPT ![s] = rest \cup waiting]

processInsert(s, char) ==
  \/ /\ ~isInsertReady(doc[s], char)
     /\ pendingInserts' = [pendingInserts EXCEPT ![s] = @ \cup {char}]
     /\ UNCHANGED <<doc, clock, pendingDeletes, draining>>
  \/ /\ isInsertReady(doc[s], char)
     /\ IntegrateAndDrain(s, char, {})

\* A faulty variant of processDelete: a delete that comes too early is dropped.
processDeleteDropping(s, id) ==
  /\ doc' = [doc EXCEPT ![s] = integrateRemoteDeletes(@, {id})]
  /\ UNCHANGED pendingDeletes

processDelete(s, id) ==
  \/ /\ ~HasChar(doc[s], id)
     /\ pendingDeletes' = [pendingDeletes EXCEPT ![s] = @ \cup {id}]
     /\ UNCHANGED doc
  \/ /\ HasChar(doc[s], id)
     /\ doc' = [doc EXCEPT ![s] = integrateRemoteDeletes(@, {id})]
     /\ UNCHANGED pendingDeletes

\* ReceiveFileOp, the first time the operation arrives.
ReceiveInsert(s) ==
  /\ Quiet
  /\ \E char \in insertsTo[s] :
       /\ processInsert(s, char)
       /\ insertsTo' = [insertsTo EXCEPT ![s] = @ \ {char}]
  /\ UNCHANGED <<merging, deletesTo, snapshotsSent>>

ReceiveDelete(s) ==
  /\ Quiet
  /\ \E id \in deletesTo[s] :
       /\ processDelete(s, id)
       /\ deletesTo' = [deletesTo EXCEPT ![s] = @ \ {id}]
  /\ UNCHANGED <<clock, pendingInserts, draining, merging, insertsTo, snapshotsSent>>

\* ReceiveFileOp again, for an operation that was already integrated or is
\* already waiting in the buffer.
ReceiveInsertAgain(s) ==
  /\ Quiet
  /\ \E char \in pendingInserts[s] \cup
                   {createChar(c.id, c.origin) : c \in ToSet(doc[s])} :
       processInsert(s, char)
  /\ UNCHANGED <<merging, network>>

ReceiveDeleteAgain(s) ==
  /\ Quiet
  /\ \E id \in pendingDeletes[s] \cup Tombstones(doc[s]) : processDelete(s, id)
  /\ UNCHANGED <<clock, pendingInserts, draining, merging, network>>

\* The next iteration of drain.  The code goes depth first through the
\* buffered inserts in arrival order; any order is allowed here.
DrainNext(s) ==
  \E char \in draining[s] :
     /\ IntegrateAndDrain(s, char, draining[s] \ {char})
     /\ UNCHANGED <<merging, network>>

-----------------------------------------------------------------------------
(* Snapshots: RequestFileSnapshot / SendFileSnapshotToPeer on one side,    *)
(* LoadFileSnapshot on the other.                                          *)

SendSnapshot(s) ==
  /\ Quiet
  /\ LET snapshot == [clock |-> clock[s], chars |-> doc[s]]
     IN  /\ Cardinality(snapshotsSent \cup {snapshot}) <= MaxSnapshots
         /\ snapshotsSent' = snapshotsSent \cup {snapshot}
  /\ UNCHANGED <<doc, clock, buffers, merging, insertsTo, deletesTo>>

\* A faulty variant of SettlePending: the buffer is not looked at again.
SettlePendingSkipped(s, d) ==
  doc' = [doc EXCEPT ![s] = d] /\ UNCHANGED buffers

\* What follows fromSnapshot once the document is `d': processPending applies
\* the buffered deletes that found their character and starts draining the
\* buffered inserts that found their origin.
SettlePending(s, d) ==
  LET ready == {c \in pendingInserts[s] : isInsertReady(d, c)}
      found == pendingDeletes[s] \cap Ids(d)
  IN  /\ doc' = [doc EXCEPT ![s] = integrateRemoteDeletes(d, found)]
      /\ pendingDeletes' = [pendingDeletes EXCEPT ![s] = @ \ found]
      /\ pendingInserts' = [pendingInserts EXCEPT ![s] = @ \ ready]
      /\ draining' = [draining EXCEPT ![s] = ready]

\* An empty document adopts the snapshot as it is; any other merges it one
\* character after the other.
LoadSnapshot(s) ==
  /\ Quiet
  /\ \E m \in snapshotsSent :
       /\ clock' = [clock EXCEPT ![s] = AtLeast(@, m.clock)]
       /\ \/ /\ doc[s] = <<>> \/ m.chars = <<>>
             /\ SettlePending(s, IF doc[s] = <<>> THEN m.chars ELSE doc[s])
             /\ UNCHANGED merging
          \/ /\ doc[s] # <<>> /\ m.chars # <<>>
             /\ merging' = [merging EXCEPT ![s] = m.chars]
             /\ UNCHANGED <<doc, buffers>>
  /\ UNCHANGED network

MergeNext(s) ==
  /\ merging[s] # <<>>
  /\ LET d == mergeChar(doc[s], Head(merging[s]))
     IN  \/ /\ Tail(merging[s]) # <<>>
            /\ doc' = [doc EXCEPT ![s] = d]
            /\ UNCHANGED buffers
         \/ /\ Tail(merging[s]) = <<>>
            /\ SettlePending(s, d)
  /\ clock' = IF HasChar(doc[s], Head(merging[s]).id) THEN clock
              ELSE [clock EXCEPT ![s] = AtLeast(@, Head(merging[s]).id.counter)]
  /\ merging' = [merging EXCEPT ![s] = Tail(@)]
  /\ UNCHANGED network

-----------------------------------------------------------------------------
Next ==
  \E s \in Site :
     \/ LocalInsert(s)
     \/ LocalDelete(s)
     \/ ReceiveInsert(s)
     \/ ReceiveDelete(s)
     \/ ReceiveInsertAgain(s)
     \/ ReceiveDeleteAgain(s)
     \/ DrainNext(s)
     \/ SendSnapshot(s)
     \/ LoadSnapshot(s)
     \/ MergeNext(s)

\* The browser's event loop finishes a handler it started and the connection
\* delivers the operations that were sent; nothing obliges a user to type, a
\* peer to send a snapshot or a snapshot to arrive.  Delivery is strongly fair
\* because Quiet, which serialises the handlers of all sites, would otherwise
\* let one site that keeps loading snapshots starve the others.
Fairness ==
  \A s \in Site :
     /\ SF_vars(ReceiveInsert(s) \/ ReceiveDelete(s))
     /\ WF_vars(DrainNext(s) \/ MergeNext(s))

Spec == Init /\ [][Next]_vars
FairSpec == Spec /\ Fairness

-----------------------------------------------------------------------------
(* What the replicas promise.                                              *)

\* Strong convergence, the claim of CrdtDocument's header: two replicas that
\* hold the same characters show them in the same order, whatever order they
\* arrived in.
Convergence ==
  \A s, t \in Site :
     Ids(doc[s]) = Ids(doc[t]) =>
        \A i \in 1..Len(doc[s]) : doc[s][i].id = doc[t][i].id

\* Every document, and every document on its way in a snapshot, is the
\* pre-order walk of the tree of origins, siblings in descending order: what
\* insertChar's scan relies on and has to re-establish with each insertion.
DocumentsAreTrees ==
  /\ \A s \in Site : TreeOrder(doc[s])
  /\ \A m \in snapshotsSent : TreeOrder(m.chars)

\* Between two handlers the buffer holds only what really has to wait: no
\* insert whose origin is there, no delete whose character is there.
BufferHoldsOnlyOrphans ==
  Quiet =>
    \A s \in Site :
       /\ \A c \in pendingInserts[s] : ~isInsertReady(doc[s], c)
       /\ \A id \in pendingDeletes[s] : ~HasChar(doc[s], id)

\* A Lamport identifier names one character in the whole room: no two sites,
\* and no message, use one identifier for characters of different origin.
AllChars ==
  UNION {ToSet(doc[s]) \cup pendingInserts[s] \cup draining[s] \cup insertsTo[s] : s \in Site}

IdsAreGlobal ==
  \A a, b \in AllChars : a.id = b.id => a.origin = b.origin

\* No handler drops a character, reorders what is already there or brings a
\* deleted character back.
HistoryIsKept ==
  [][\A s \in Site :
       \A i, j \in 1..Len(doc[s]) :
          /\ HasChar(doc[s]', doc[s][i].id)
          /\ i < j => IndexOf(doc[s]', doc[s][i].id) < IndexOf(doc[s]', doc[s][j].id)
          /\ doc[s][i].isDeleted =>
                doc[s]'[IndexOf(doc[s]', doc[s][i].id)].isDeleted]_doc

\* The identifiers of a document, tombstones included, in its order.
ListOf(d) == [i \in 1..Len(d) |-> d[i].id]

\* The characters of a document and its tombstones are the abstract list.
Promise == INSTANCE SharedList WITH
  text <- [s \in Site |-> ListOf(doc[s])], gone <- [s \in Site |-> Tombstones(doc[s])]

\* Every step of the replicas is a step of the shared list, or none.
ImplementsSharedList == Promise!Spec

\* Every operation is integrated in the end, at every site: once users stop,
\* all documents become and stay the same, tombstones included.
EventuallySame == <>[](\A s, t \in Site : doc[s] = doc[t])
=============================================================================

---------------------------- MODULE RoomTextSync ----------------------------
(***************************************************************************)
(* How the edits of one text file reach the other browsers of a room and   *)
(* the server's stored copy when connections break and pages are reloaded: *)
(* client/src/providers/SignalRCrdtProvider.ts with its IndexedDB queue    *)
(* (crdt/offlineTextOpQueue.ts), and on the server CollabHub.JoinRoom,     *)
(* SendFileOp, SaveFileSnapshot, SyncOfflineSnapshots and                  *)
(* SendFileSnapshotToPeer with RoomFileService.                            *)
(*                                                                         *)
(* A document is the set of edits integrated in it: TextReplicas shows     *)
(* that the set determines the text, and that an edit that comes before    *)
(* what it depends on waits in the buffer for it.  Here an edit is a       *)
(* number and depends on nothing, so the buffer is left out.               *)
(*                                                                         *)
(* One connection carries its invocations to the server in order, and the  *)
(* hub serves them one at a time (SignalR's default); what the server      *)
(* sends to a browser comes in any order, because part of it goes through  *)
(* the Redis backplane.  Both are lost when the connection breaks.  The    *)
(* server notices later, and until then the dead connection is still one   *)
(* of the room's participants.  A start() that finds no server, and a call *)
(* the server refuses for its size or rate, are left out.                  *)
(***************************************************************************)
EXTENDS Naturals, Sequences, FiniteSets, FiniteSetsExt

CONSTANTS
  Client,        \* the browser tabs
  MaxEdits,      \* bound: edits ever made
  MaxBreaks,     \* bound: connections that break and pages reloaded, together
  MaxReloads,    \* bound: page reloads
  CalmJoins      \* TRUE: a connection starts only when no other one is joining
                 \* and the server has noticed that its predecessor broke

ASSUME BoundsAssumption ==
  /\ MaxEdits \in Nat /\ MaxBreaks \in Nat /\ MaxReloads \in Nat
  /\ CalmJoins \in BOOLEAN

VARIABLES
  \* the browser
  doc,           \* doc[c]: the edits of its CrdtDocument of the file
  listed,        \* listed[c]: RoomFiles has named the file, it can be edited
  known,         \* known[c]: the file has a document and a buffer
  phase,         \* phase[c]: see Phase
  conn,          \* conn[c]: the number of its latest connection
  queue,         \* queue[c]: the records of the offline queue in IndexedDB
  offlineOpSeq,  \* offlineOpSeq[c]: the counter behind their keys
  saveTimer,     \* saveTimer[c]: a snapshot save is scheduled
  uplink,        \* uplink[c]: invocations on their way to the server
  inbox,         \* inbox[c]: what the server has sent and c has not handled
  \* the server
  participants,  \* the connections admitted to the room
  group,         \* the connections in the room's SignalR group
  joining,       \* joining[c]: what JoinRoom has read, before it answers
  stored,        \* the stored snapshot of the file
  \* bounds
  made, breaks, reloads

page == <<doc, listed, known, queue, offlineOpSeq, saveTimer>>
server == <<participants, group, joining, stored>>
bounds == <<made, breaks, reloads>>
vars == <<page, phase, conn, uplink, inbox, server, bounds>>

Edit == 1..MaxEdits
Connection == Client \X Nat
QueuedTextOp == [key : Nat, edit : Edit]

\* What JoinRoom has read: the stored snapshot, and then (picked) the other
\* participant that is asked for its document, if there is one.
JoinState == [edits : SUBSET Edit, picked : BOOLEAN, peer : SUBSET Connection]

\* Where connect() and the onreconnected handler are.
Phase ==
  {"closed",        \* a fresh page, not connected yet
   "joining",       \* connect(): JoinRoom called
   "joined",
   "reconnecting",  \* SignalR is trying to reconnect
   "rejoining",     \* onreconnected: JoinRoom called
   "syncing",       \* onreconnected: joined, syncOfflineSnapshots is next
   "syncWait",      \* SyncOfflineSnapshots called
   "replaying",     \* replayOfflineTextOps: between two operations
   "replayWait",    \* replayOfflineTextOps: SendFileOp called
   "stopped",       \* the provider stopped the connection
   "unjoined"}      \* the browser came online and only the connection started

Invocation ==
  [kind : {"join"}]
    \cup [kind : {"op"}, edit : Edit, replayed : BOOLEAN]
    \cup [kind : {"save", "sync"}, edits : SUBSET Edit]
    \cup [kind : {"reply"}, edits : SUBSET Edit, to : Connection]

Message ==
  [kind : {"load", "snapshot"}, edits : SUBSET Edit]
    \cup [kind : {"op"}, edit : Edit]
    \cup [kind : {"request"}, from : Connection]
    \cup [kind : {"room", "done"}]

TypeOK ==
  /\ doc \in [Client -> SUBSET Edit]
  /\ listed \in [Client -> BOOLEAN] /\ known \in [Client -> BOOLEAN]
  /\ phase \in [Client -> Phase]
  /\ conn \in [Client -> Nat]
  /\ \A c \in Client :
       /\ queue[c] \subseteq QueuedTextOp
       /\ uplink[c] \in Seq(Invocation)
       /\ inbox[c] \subseteq Message
       /\ joining[c] \subseteq JoinState
  /\ offlineOpSeq \in [Client -> Nat]
  /\ saveTimer \in [Client -> BOOLEAN]
  /\ participants \subseteq Connection
  /\ group \subseteq participants
  /\ stored \subseteq Edit
  /\ made \in 0..MaxEdits /\ breaks \in 0..MaxBreaks /\ reloads \in 0..MaxReloads

Init ==
  /\ doc = [c \in Client |-> {}]
  /\ listed = [c \in Client |-> FALSE]
  /\ known = [c \in Client |-> FALSE]
  /\ phase = [c \in Client |-> "closed"]
  /\ conn = [c \in Client |-> 0]
  /\ queue = [c \in Client |-> {}]
  /\ offlineOpSeq = [c \in Client |-> 0]
  /\ saveTimer = [c \in Client |-> FALSE]
  /\ uplink = [c \in Client |-> <<>>]
  /\ inbox = [c \in Client |-> {}]
  /\ participants = {}
  /\ group = {}
  /\ joining = [c \in Client |-> {}]
  /\ stored = {}
  /\ made = 0 /\ breaks = 0 /\ reloads = 0

\* connection.state = Connected
Connected(c) == phase[c] \notin {"closed", "reconnecting", "stopped"}

Live(c) == <<c, conn[c]>>

\* A message to some connections; to a connection that is no more it is lost.
SendTo(boxes, to, m) ==
  [d \in Client |-> IF Connected(d) /\ Live(d) \in to THEN boxes[d] \cup {m} ELSE boxes[d]]

\* OthersInGroup
Relay(boxes, c, m) == SendTo(boxes, group \ {Live(c)}, m)

Invoke(c, i) == uplink' = [uplink EXCEPT ![c] = Append(@, i)]

-----------------------------------------------------------------------------
(* Connecting, and what breaks.                                            *)

\* connect() on a fresh page, SignalR's automatic reconnect otherwise; both
\* call JoinRoom first.
Start(c) ==
  /\ phase[c] \in {"closed", "reconnecting"}
  /\ CalmJoins => /\ \A k \in participants : k[1] # c
                  /\ \A d \in Client : phase[d] \notin {"joining", "rejoining"}
  /\ phase' = [phase EXCEPT ![c] = IF @ = "closed" THEN "joining" ELSE "rejoining"]
  /\ conn' = [conn EXCEPT ![c] = @ + 1]
  /\ uplink' = [uplink EXCEPT ![c] = <<[kind |-> "join"]>>]
  /\ UNCHANGED <<page, inbox, server, bounds>>

\* The browser's "online" event restarts a stopped connection, and that is
\* all it does.
ComeOnline(c) ==
  /\ phase[c] = "stopped"
  /\ phase' = [phase EXCEPT ![c] = "unjoined"]
  /\ conn' = [conn EXCEPT ![c] = @ + 1]
  /\ UNCHANGED <<page, uplink, inbox, server, bounds>>

\* What a lost connection takes with it.
Disconnected(c) ==
  /\ uplink' = [uplink EXCEPT ![c] = <<>>]
  /\ inbox' = [inbox EXCEPT ![c] = {}]
  /\ joining' = [joining EXCEPT ![c] = {}]
  /\ UNCHANGED <<conn, participants, group, stored>>

\* A JoinRoom that fails makes connect() and onreconnected stop the
\* connection; any other call that fails is logged and SignalR reconnects.
Drop(c) ==
  /\ Connected(c)
  /\ breaks < MaxBreaks
  /\ phase' = [phase EXCEPT ![c] =
                 IF @ \in {"joining", "rejoining"} THEN "stopped" ELSE "reconnecting"]
  /\ breaks' = breaks + 1
  /\ Disconnected(c)
  /\ UNCHANGED <<page, made, reloads>>

\* Memory is gone; the queue is in IndexedDB.
Reload(c) ==
  /\ phase[c] # "closed"
  /\ breaks < MaxBreaks /\ reloads < MaxReloads
  /\ doc' = [doc EXCEPT ![c] = {}]
  /\ listed' = [listed EXCEPT ![c] = FALSE]
  /\ known' = [known EXCEPT ![c] = FALSE]
  /\ offlineOpSeq' = [offlineOpSeq EXCEPT ![c] = 0]
  /\ saveTimer' = [saveTimer EXCEPT ![c] = FALSE]
  /\ phase' = [phase EXCEPT ![c] = "closed"]
  /\ breaks' = breaks + 1 /\ reloads' = reloads + 1
  /\ Disconnected(c)
  /\ UNCHANGED <<queue, made>>

\* Mutant: the dead connection stays in the group.
ServerNoticesKeepingGroup ==
  /\ \E k \in participants :
       /\ ~(Connected(k[1]) /\ k = Live(k[1]))
       /\ participants' = participants \ {k}
  /\ UNCHANGED <<page, phase, conn, uplink, inbox, group, joining, stored, bounds>>

\* OnDisconnectedAsync of a connection that is no more.
ServerNotices ==
  /\ \E k \in participants :
       /\ ~(Connected(k[1]) /\ k = Live(k[1]))
       /\ participants' = participants \ {k}
       /\ group' = group \ {k}
  /\ UNCHANGED <<page, phase, conn, uplink, inbox, joining, stored, bounds>>

-----------------------------------------------------------------------------
(* JoinRoom, in the steps other connections can come between.              *)

Serving(c, kind) == Connected(c) /\ uplink[c] # <<>> /\ Head(uplink[c]).kind = kind

\* TryAdmitParticipantAsync
Admit(c) ==
  /\ Serving(c, "join")
  /\ Live(c) \notin participants
  /\ participants' = participants \cup {Live(c)}
  /\ UNCHANGED <<page, phase, conn, uplink, inbox, group, joining, stored, bounds>>

\* JoinAsync: GetFileSnapshotAsync
ReadSnapshot(c) ==
  /\ Serving(c, "join")
  /\ Live(c) \in participants
  /\ joining[c] = {}
  /\ joining' = [joining EXCEPT ![c] =
                   {[edits |-> stored, picked |-> FALSE, peer |-> {}]}]
  /\ UNCHANGED <<page, phase, conn, uplink, inbox, participants, group, stored, bounds>>

\* JoinAsync: the first other participant of the hash, which can be any.
PickPeer(c) ==
  /\ Serving(c, "join")
  /\ LET others == {{k} : k \in participants \ {Live(c)}}
     IN  \E read \in joining[c], peer \in IF others = {} THEN {{}} ELSE others :
           /\ ~read.picked
           /\ joining' = [joining EXCEPT ![c] =
                            {[read EXCEPT !.picked = TRUE, !.peer = peer]}]
  /\ UNCHANGED <<page, phase, conn, uplink, inbox, participants, group, stored, bounds>>

\* AddToGroupAsync
EnterGroup(c) ==
  /\ Serving(c, "join")
  /\ \E read \in joining[c] : read.picked
  /\ Live(c) \notin group
  /\ group' = group \cup {Live(c)}
  /\ UNCHANGED <<page, phase, conn, uplink, inbox, participants, joining, stored, bounds>>

\* RoomFiles with the result ("room") and the stored snapshot ("load") to the
\* caller, RequestFileSnapshot to the peer.
AnswerJoin(c) ==
  /\ Serving(c, "join")
  /\ Live(c) \in group
  /\ \E read \in joining[c] :
       LET room == SendTo(inbox, {Live(c)}, [kind |-> "room"])
           load == SendTo(room, {Live(c)}, [kind |-> "load", edits |-> read.edits])
       IN  inbox' = SendTo(load, read.peer, [kind |-> "request", from |-> Live(c)])
  /\ joining' = [joining EXCEPT ![c] = {}]
  /\ uplink' = [uplink EXCEPT ![c] = Tail(@)]
  /\ UNCHANGED <<page, phase, conn, participants, group, stored, bounds>>

-----------------------------------------------------------------------------
(* The other invocations, once the connection has joined.  A connection    *)
(* that has not is refused.                                                *)

Serve(c, kind) ==
  /\ Serving(c, kind)
  /\ uplink' = [uplink EXCEPT ![c] = Tail(@)]
  /\ UNCHANGED <<page, phase, conn, participants, group, joining, bounds>>

Refuse(c) ==
  /\ \E kind \in {"op", "save"} : Serve(c, kind)
  /\ Live(c) \notin participants
  /\ UNCHANGED <<inbox, stored>>

\* SendFileOp: relayed to the others, kept nowhere.
ServeOp(c) ==
  /\ Serve(c, "op")
  /\ Live(c) \in participants
  /\ LET op == Head(uplink[c])
         relayed == Relay(inbox, c, [kind |-> "op", edit |-> op.edit])
     IN  inbox' = IF op.replayed THEN SendTo(relayed, {Live(c)}, [kind |-> "done"]) ELSE relayed
  /\ UNCHANGED stored

\* SaveFileSnapshot: the last writer wins.
ServeSave(c) ==
  /\ Serve(c, "save")
  /\ Live(c) \in participants
  /\ stored' = Head(uplink[c]).edits
  /\ UNCHANGED inbox

\* Mutant: the snapshots are relayed and not stored.
ServeSyncRelayOnly(c) ==
  /\ Serve(c, "sync")
  /\ inbox' = SendTo(Relay(inbox, c, [kind |-> "snapshot", edits |-> Head(uplink[c]).edits]),
                     {Live(c)}, [kind |-> "done"])
  /\ UNCHANGED stored

\* SyncOfflineSnapshots: stored, then relayed to the others.
ServeSync(c) ==
  /\ Serve(c, "sync")
  /\ stored' = Head(uplink[c]).edits
  /\ inbox' = SendTo(Relay(inbox, c, [kind |-> "snapshot", edits |-> Head(uplink[c]).edits]),
                     {Live(c)}, [kind |-> "done"])

\* SendFileSnapshotToPeer: stored and passed on while the target is a
\* participant.
ServeReply(c) ==
  /\ Serve(c, "reply")
  /\ LET reply == Head(uplink[c])
     IN  IF {Live(c), reply.to} \subseteq participants
         THEN /\ stored' = reply.edits
              /\ inbox' = SendTo(inbox, {reply.to},
                                 [kind |-> "snapshot", edits |-> reply.edits])
         ELSE UNCHANGED <<inbox, stored>>

-----------------------------------------------------------------------------
(* The browser: editing and the messages it handles.                       *)

\* IndexedDB's put: a record with the same key is replaced.
Put(records, record) == {r \in records : r.key # record.key} \cup {record}

\* localInsert and localDelete: sendOp to the server, or into the queue.
MakeEdit(c) ==
  /\ listed[c]
  /\ made < MaxEdits
  /\ LET edit == made + 1
         next == offlineOpSeq[c] + 1
     IN  /\ made' = edit
         /\ doc' = [doc EXCEPT ![c] = @ \cup {edit}]
         /\ \/ /\ Connected(c)
               /\ Invoke(c, [kind |-> "op", edit |-> edit, replayed |-> FALSE])
               /\ UNCHANGED <<queue, offlineOpSeq>>
            \/ /\ ~Connected(c)
               /\ queue' = [queue EXCEPT ![c] = Put(@, [key |-> next, edit |-> edit])]
               /\ offlineOpSeq' = [offlineOpSeq EXCEPT ![c] = next]
               /\ UNCHANGED uplink
  /\ saveTimer' = [saveTimer EXCEPT ![c] = TRUE]
  /\ UNCHANGED <<listed, known, phase, conn, inbox, server, breaks, reloads>>

\* The debounce timer of scheduleSnapshotSave, saveFileSnapshot.
SaveTimerFires(c) ==
  /\ saveTimer[c]
  /\ saveTimer' = [saveTimer EXCEPT ![c] = FALSE]
  /\ \/ /\ Connected(c)
        /\ known' = [known EXCEPT ![c] = TRUE]
        /\ Invoke(c, [kind |-> "save", edits |-> doc[c]])
     \/ /\ ~Connected(c)
        /\ UNCHANGED <<known, uplink>>
  /\ UNCHANGED <<doc, listed, phase, conn, queue, offlineOpSeq, inbox, server, bounds>>

\* Nothing that is sent after the answer of JoinRoom overtakes it.
Handle(c, m) ==
  /\ m \in inbox[c]
  /\ m.kind = "room" \/ \A n \in inbox[c] : n.kind # "room"
  /\ inbox' = [inbox EXCEPT ![c] = @ \ {m}]

\* RoomFiles and the result of JoinRoom.
HandleRoom(c) ==
  /\ Handle(c, [kind |-> "room"])
  /\ listed' = [listed EXCEPT ![c] = TRUE]
  /\ known' = [known EXCEPT ![c] = TRUE]
  /\ phase' = [phase EXCEPT ![c] = IF @ = "joining" THEN "joined" ELSE "syncing"]
  /\ UNCHANGED <<doc, conn, queue, offlineOpSeq, saveTimer, uplink, server, bounds>>

\* ReceiveFileOp: an operation for a file without a buffer is dropped, and a
\* save of the file is scheduled all the same.
HandleOp(c) ==
  /\ \E m \in inbox[c] :
       /\ m.kind = "op"
       /\ Handle(c, m)
       /\ doc' = IF known[c] THEN [doc EXCEPT ![c] = @ \cup {m.edit}] ELSE doc
  /\ saveTimer' = [saveTimer EXCEPT ![c] = TRUE]
  /\ UNCHANGED <<listed, known, phase, conn, queue, offlineOpSeq, uplink, server, bounds>>

\* LoadFileSnapshot, once it is decompressed: merged, and no save is scheduled.
HandleSnapshot(c) ==
  /\ \E m \in inbox[c] :
       /\ m.kind \in {"load", "snapshot"}
       /\ Handle(c, m)
       /\ doc' = [doc EXCEPT ![c] = @ \cup m.edits]
  /\ known' = [known EXCEPT ![c] = TRUE]
  /\ UNCHANGED <<listed, phase, conn, queue, offlineOpSeq, saveTimer, uplink, server, bounds>>

\* RequestFileSnapshot: answered with the document as it is, loaded or not.
HandleRequest(c) ==
  /\ \E m \in inbox[c] :
       /\ m.kind = "request"
       /\ Handle(c, m)
       /\ Invoke(c, [kind |-> "reply", edits |-> doc[c], to |-> m.from])
  /\ known' = [known EXCEPT ![c] = TRUE]
  /\ UNCHANGED <<doc, listed, phase, conn, queue, offlineOpSeq, saveTimer, server, bounds>>

-----------------------------------------------------------------------------
(* onreconnected, after JoinRoom.                                          *)

\* Mutant: straight to the replay.
SyncOfflineSnapshotsSkipped(c) ==
  /\ phase[c] = "syncing"
  /\ phase' = [phase EXCEPT ![c] = "replaying"]
  /\ UNCHANGED <<page, conn, uplink, inbox, server, bounds>>

\* syncOfflineSnapshotsSafely, which awaits the snapshots JoinRoom has sent.
SyncOfflineSnapshots(c) ==
  /\ phase[c] = "syncing"
  /\ \A m \in inbox[c] : m.kind # "load"
  /\ phase' = [phase EXCEPT ![c] = "syncWait"]
  /\ Invoke(c, [kind |-> "sync", edits |-> doc[c]])
  /\ UNCHANGED <<page, conn, inbox, server, bounds>>

FirstKey(c) == Min({r.key : r \in queue[c]})

\* Mutant: the record is removed before its replay is acknowledged.
ReplayNextRemoving(c) ==
  /\ phase[c] = "replaying"
  /\ queue[c] # {}
  /\ phase' = [phase EXCEPT ![c] = "replayWait"]
  /\ \E r \in queue[c] :
       /\ r.key = FirstKey(c)
       /\ Invoke(c, [kind |-> "op", edit |-> r.edit, replayed |-> TRUE])
       /\ queue' = [queue EXCEPT ![c] = @ \ {r}]
  /\ UNCHANGED <<doc, listed, known, offlineOpSeq, saveTimer, conn, inbox, server, bounds>>

\* replayOfflineTextOps: the next operation of the queue, or the end.
ReplayNext(c) ==
  /\ phase[c] = "replaying"
  /\ queue[c] # {}
  /\ phase' = [phase EXCEPT ![c] = "replayWait"]
  /\ \E r \in queue[c] :
       /\ r.key = FirstKey(c)
       /\ Invoke(c, [kind |-> "op", edit |-> r.edit, replayed |-> TRUE])
  /\ UNCHANGED <<page, conn, inbox, server, bounds>>

ReplayEnds(c) ==
  /\ phase[c] = "replaying"
  /\ queue[c] = {}
  /\ phase' = [phase EXCEPT ![c] = "joined"]
  /\ UNCHANGED <<page, conn, uplink, inbox, server, bounds>>

\* The awaited invocation completed; a replayed operation leaves the queue.
HandleDone(c) ==
  /\ Handle(c, [kind |-> "done"])
  /\ queue' = [queue EXCEPT ![c] =
                 IF phase[c] = "replayWait" THEN {r \in @ : r.key # FirstKey(c)} ELSE @]
  /\ phase' = [phase EXCEPT ![c] = "replaying"]
  /\ UNCHANGED <<doc, listed, known, conn, offlineOpSeq, saveTimer, uplink, server, bounds>>

-----------------------------------------------------------------------------
ServeNext(c) ==
  \/ Admit(c) \/ ReadSnapshot(c) \/ PickPeer(c) \/ EnterGroup(c) \/ AnswerJoin(c)
  \/ Refuse(c) \/ ServeOp(c) \/ ServeSave(c) \/ ServeSync(c) \/ ServeReply(c)

HandleNext(c) ==
  HandleRoom(c) \/ HandleOp(c) \/ HandleSnapshot(c) \/ HandleRequest(c) \/ HandleDone(c)

ReconnectNext(c) == SyncOfflineSnapshots(c) \/ ReplayNext(c) \/ ReplayEnds(c)

Next ==
  \/ ServerNotices
  \/ \E c \in Client :
       \/ Start(c) \/ ComeOnline(c) \/ Drop(c) \/ Reload(c)
       \/ MakeEdit(c) \/ SaveTimerFires(c)
       \/ ServeNext(c) \/ HandleNext(c) \/ ReconnectNext(c)

\* Connections are made when they can be, the server serves what it gets,
\* browsers handle what they get, timers fire.  Nobody has to edit, and a
\* stopped connection need not come online.
Fairness ==
  /\ WF_vars(ServerNotices)
  /\ \A c \in Client :
       /\ WF_vars(Start(c))
       /\ WF_vars(SaveTimerFires(c))
       /\ WF_vars(ServeNext(c))
       /\ WF_vars(HandleNext(c))
       /\ WF_vars(ReconnectNext(c))

Spec == Init /\ [][Next]_vars
FairSpec == Spec /\ Fairness

-----------------------------------------------------------------------------
Joined(c) == phase[c] = "joined"

\* While no page is reloaded, connections may break anywhere, JoinRoom
\* included: when they stop breaking, the tabs that are back in the room hold
\* the same edits.  What was lost on the way comes back with the stored
\* snapshot, the peer's snapshot, SyncOfflineSnapshots and the replay.
EventuallySame ==
  <>[](reloads = 0 =>
         \A c, d \in Client : Joined(c) /\ Joined(d) => doc[c] = doc[d])

\* Once nothing breaks any more, the room's participants and its SignalR group
\* are the live connections of the tabs that are back, and nobody else: no
\* dead connection is left to be asked for a snapshot, and no tab that shows
\* itself as joined is left out of the relay.
EventuallyInRoom ==
  <>[](LET present == {Live(c) : c \in {d \in Client : Joined(d)}}
       IN  participants = present /\ group = present)

\* The server's copy, which outlives the tabs, ends up with what the tabs in
\* the room hold: the debounced SaveFileSnapshot and SyncOfflineSnapshots.
EventuallyStored == <>[](\A c \in Client : Joined(c) => doc[c] = stored)

\* sendOp and replayOfflineTextOps: an edit queued in IndexedDB leaves the
\* queue only when the server has acknowledged the replay of that edit, so no
\* break, reconnection or reload in between loses it.
QueuedEditsSurvive ==
  [][\A c \in Client : \A r \in queue[c] :
       \/ \E q \in queue'[c] : q.edit = r.edit
       \/ /\ phase[c] = "replayWait"
          /\ [kind |-> "done"] \in inbox[c]
          /\ r.key = FirstKey(c)]_vars
=============================================================================

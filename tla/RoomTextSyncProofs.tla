------------------------- MODULE RoomTextSyncProofs -------------------------
(* Proofs about RoomTextSync for any number of tabs, edits and breaks: the      *)
(* types, and that an edit leaves the offline queue only with the server's      *)
(* acknowledgement. SyncInv adds to the types what the two need: a JoinRoom that *)
(* has read something belongs to an admitted live connection, and the keys of    *)
(* the queue come from the counter behind them.                                  *)
EXTENDS RoomTextSync, TLAPS

PageTypes ==
  /\ doc \in [Client -> SUBSET Edit]
  /\ listed \in [Client -> BOOLEAN] /\ known \in [Client -> BOOLEAN]
  /\ queue \in [Client -> SUBSET QueuedTextOp]
  /\ offlineOpSeq \in [Client -> Nat]
  /\ saveTimer \in [Client -> BOOLEAN]

LinkTypes == phase \in [Client -> Phase] /\ conn \in [Client -> Nat]
UplinkTypes == uplink \in [Client -> Seq(Invocation)]
InboxTypes == inbox \in [Client -> SUBSET Message]
ServerTypes ==
  /\ participants \subseteq Connection /\ group \subseteq participants
  /\ joining \in [Client -> SUBSET JoinState] /\ stored \subseteq Edit
BoundTypes == made \in 0..MaxEdits /\ breaks \in 0..MaxBreaks /\ reloads \in 0..MaxReloads

\* A connection whose JoinRoom has read something is alive and admitted.
JoinersAdmitted ==
  \A c \in Client : joining[c] # {} => Connected(c) /\ Live(c) \in participants

\* Since the last reload every key of the queue has come from the counter.
KeysIssued ==
  reloads = 0 => \A c \in Client : \A r \in queue[c] : r.key <= offlineOpSeq[c]

SyncInv ==
  /\ PageTypes /\ LinkTypes /\ UplinkTypes /\ InboxTypes /\ ServerTypes /\ BoundTypes
  /\ JoinersAdmitted /\ KeysIssued

-----------------------------------------------------------------------------
LEMMA SendToTypes ==
  ASSUME NEW boxes \in [Client -> SUBSET Message], NEW to, NEW m \in Message
  PROVE  SendTo(boxes, to, m) \in [Client -> SUBSET Message]
BY DEF SendTo

LEMMA InvokeTypes ==
  ASSUME UplinkTypes, NEW c \in Client, NEW i \in Invocation, Invoke(c, i)
  PROVE  UplinkTypes'
<1>1. Append(uplink[c], i) \in Seq(Invocation)
  BY DEF UplinkTypes
<1> QED BY <1>1 DEF UplinkTypes, Invoke

LEMMA ServedTypes ==
  ASSUME UplinkTypes, NEW c \in Client, uplink[c] # <<>>, uplink' = [uplink EXCEPT ![c] = Tail(@)]
  PROVE  UplinkTypes' /\ Head(uplink[c]) \in Invocation
<1>1. uplink[c] \in Seq(Invocation)
  BY DEF UplinkTypes
<1>2. Tail(uplink[c]) \in Seq(Invocation) /\ Head(uplink[c]) \in Invocation
  BY <1>1
<1> QED BY <1>2 DEF UplinkTypes

LEMMA InvocationParts ==
  ASSUME NEW i \in Invocation
  PROVE  /\ i.kind = "op" => i.edit \in Edit
         /\ i.kind \in {"save", "sync", "reply"} => i.edits \subseteq Edit
         /\ i.kind = "reply" => i.to \in Connection
BY DEF Invocation

LEMMA MessageParts ==
  ASSUME NEW m \in Message
  PROVE  /\ m.kind = "op" => m.edit \in Edit
         /\ m.kind \in {"load", "snapshot"} => m.edits \subseteq Edit
         /\ m.kind = "request" => m.from \in Connection
BY DEF Message

LEMMA MessageForms ==
  /\ [kind |-> "room"] \in Message /\ [kind |-> "done"] \in Message
  /\ \A e \in Edit : [kind |-> "op", edit |-> e] \in Message
  /\ \A s \in SUBSET Edit :
       [kind |-> "load", edits |-> s] \in Message /\ [kind |-> "snapshot", edits |-> s] \in Message
  /\ \A k \in Connection : [kind |-> "request", from |-> k] \in Message
BY DEF Message

LEMMA InvocationForms ==
  /\ [kind |-> "join"] \in Invocation
  /\ \A e \in Edit, b \in BOOLEAN : [kind |-> "op", edit |-> e, replayed |-> b] \in Invocation
  /\ \A s \in SUBSET Edit :
       [kind |-> "save", edits |-> s] \in Invocation /\ [kind |-> "sync", edits |-> s] \in Invocation
  /\ \A s \in SUBSET Edit, k \in Connection : [kind |-> "reply", edits |-> s, to |-> k] \in Invocation
BY DEF Invocation

\* Taking a message out of the inbox.
LEMMA HandleTypes ==
  ASSUME InboxTypes, NEW c \in Client, NEW m, Handle(c, m)
  PROVE  InboxTypes' /\ m \in Message /\ m \in inbox[c]
BY DEF InboxTypes, Handle

LEMMA SyncInit == Init => SyncInv
<1> SUFFICES ASSUME Init PROVE SyncInv
  OBVIOUS
<1>1. <<>> \in Seq(Invocation)
  OBVIOUS
<1> QED BY <1>1, BoundsAssumption DEF Init, SyncInv, PageTypes, LinkTypes, UplinkTypes, InboxTypes,
  ServerTypes, BoundTypes, JoinersAdmitted, KeysIssued, Phase

LEMMA SyncStep == SyncInv /\ [Next]_vars => SyncInv'
<1> SUFFICES ASSUME SyncInv, [Next]_vars PROVE SyncInv'
  OBVIOUS
<1>0. /\ PageTypes /\ LinkTypes /\ UplinkTypes /\ InboxTypes /\ ServerTypes /\ BoundTypes
      /\ JoinersAdmitted /\ KeysIssued
  BY DEF SyncInv
<1>1. CASE ServerNotices
  <2>1. PageTypes'
    BY <1>1, <1>0 DEF ServerNotices, PageTypes, page
  <2>2. LinkTypes'
    BY <1>1, <1>0 DEF ServerNotices, LinkTypes
  <2>3. UplinkTypes'
    BY <1>1, <1>0 DEF ServerNotices, UplinkTypes
  <2>4. InboxTypes'
    BY <1>1, <1>0 DEF ServerNotices, InboxTypes
  <2>5. ServerTypes'
    BY <1>1, <1>0 DEF ServerNotices, ServerTypes, server
  <2>6. BoundTypes'
    BY <1>1, <1>0 DEF ServerNotices, BoundTypes, bounds
  <2>7. JoinersAdmitted'
    BY <1>1, <1>0 DEF ServerNotices, JoinersAdmitted, LinkTypes, ServerTypes, server, Connected, Live,
      Connection
  <2>8. KeysIssued'
    BY <1>1, <1>0 DEF ServerNotices, KeysIssued, page, bounds
    <2> QED BY <2>1, <2>2, <2>3, <2>4, <2>5, <2>6, <2>7, <2>8 DEF SyncInv
<1>2. ASSUME NEW c \in Client, Start(c) PROVE SyncInv'
  <2>1. <<[kind |-> "join"]>> \in Seq(Invocation)
    BY <1>2, <1>0, InvocationForms DEF Start
  <2>2. PageTypes'
    BY <1>2, <1>0 DEF Start, PageTypes, page
  <2>3. LinkTypes'
    BY <1>2, <1>0 DEF Start, LinkTypes, Phase
  <2>4. UplinkTypes'
    BY <1>2, <1>0, <2>1 DEF Start, UplinkTypes
  <2>5. InboxTypes'
    BY <1>2, <1>0 DEF Start, InboxTypes
  <2>6. ServerTypes'
    BY <1>2, <1>0 DEF Start, ServerTypes, server
  <2>7. BoundTypes'
    BY <1>2, <1>0 DEF Start, BoundTypes, bounds
  <2>8. JoinersAdmitted'
    BY <1>2, <1>0 DEF Start, JoinersAdmitted, LinkTypes, ServerTypes, server, Connected, Live,
      Connection
  <2>9. KeysIssued'
    BY <1>2, <1>0 DEF Start, KeysIssued, page, bounds
    <2> QED BY <2>2, <2>3, <2>4, <2>5, <2>6, <2>7, <2>8, <2>9 DEF SyncInv
<1>3. ASSUME NEW c \in Client, ComeOnline(c) PROVE SyncInv'
  <2>1. PageTypes'
    BY <1>3, <1>0 DEF ComeOnline, PageTypes, page
  <2>2. LinkTypes'
    BY <1>3, <1>0 DEF ComeOnline, LinkTypes, Phase
  <2>3. UplinkTypes'
    BY <1>3, <1>0 DEF ComeOnline, UplinkTypes
  <2>4. InboxTypes'
    BY <1>3, <1>0 DEF ComeOnline, InboxTypes
  <2>5. ServerTypes'
    BY <1>3, <1>0 DEF ComeOnline, ServerTypes, server
  <2>6. BoundTypes'
    BY <1>3, <1>0 DEF ComeOnline, BoundTypes, bounds
  <2>7. JoinersAdmitted'
    BY <1>3, <1>0 DEF ComeOnline, JoinersAdmitted, LinkTypes, ServerTypes, server, Connected, Live,
      Connection
  <2>8. KeysIssued'
    BY <1>3, <1>0 DEF ComeOnline, KeysIssued, page, bounds
    <2> QED BY <2>1, <2>2, <2>3, <2>4, <2>5, <2>6, <2>7, <2>8 DEF SyncInv
<1>4. ASSUME NEW c \in Client, Drop(c) PROVE SyncInv'
  <2>1. <<>> \in Seq(Invocation)
    BY <1>4, <1>0 DEF Drop, Disconnected
  <2>2. PageTypes'
    BY <1>4, <1>0 DEF Drop, Disconnected, PageTypes, page
  <2>3. LinkTypes'
    BY <1>4, <1>0 DEF Drop, Disconnected, LinkTypes, Phase
  <2>4. UplinkTypes'
    BY <1>4, <1>0, <2>1 DEF Drop, Disconnected, UplinkTypes
  <2>5. InboxTypes'
    BY <1>4, <1>0 DEF Drop, Disconnected, InboxTypes
  <2>6. ServerTypes'
    BY <1>4, <1>0 DEF Drop, Disconnected, ServerTypes, server
  <2>7. BoundTypes'
    BY <1>4, <1>0, BoundsAssumption DEF Drop, Disconnected, BoundTypes, bounds
  <2>8. JoinersAdmitted'
    BY <1>4, <1>0 DEF Drop, Disconnected, JoinersAdmitted, LinkTypes, ServerTypes, server, Connected,
      Live, Connection
  <2>9. KeysIssued'
    BY <1>4, <1>0 DEF Drop, Disconnected, KeysIssued, page, bounds
    <2> QED BY <2>2, <2>3, <2>4, <2>5, <2>6, <2>7, <2>8, <2>9 DEF SyncInv
<1>5. ASSUME NEW c \in Client, Reload(c) PROVE SyncInv'
  <2>1. <<>> \in Seq(Invocation)
    BY <1>5, <1>0 DEF Reload, Disconnected
  <2>2. PageTypes'
    BY <1>5, <1>0 DEF Reload, Disconnected, PageTypes, page
  <2>3. LinkTypes'
    BY <1>5, <1>0 DEF Reload, Disconnected, LinkTypes, Phase
  <2>4. UplinkTypes'
    BY <1>5, <1>0, <2>1 DEF Reload, Disconnected, UplinkTypes
  <2>5. InboxTypes'
    BY <1>5, <1>0 DEF Reload, Disconnected, InboxTypes
  <2>6. ServerTypes'
    BY <1>5, <1>0 DEF Reload, Disconnected, ServerTypes, server
  <2>7. BoundTypes'
    BY <1>5, <1>0, BoundsAssumption DEF Reload, Disconnected, BoundTypes, bounds
  <2>8. JoinersAdmitted'
    BY <1>5, <1>0 DEF Reload, Disconnected, JoinersAdmitted, LinkTypes, ServerTypes, server, Connected,
      Live, Connection
  <2>9. KeysIssued'
    BY <1>5, <1>0 DEF Reload, Disconnected, KeysIssued, page, bounds, BoundTypes
    <2> QED BY <2>2, <2>3, <2>4, <2>5, <2>6, <2>7, <2>8, <2>9 DEF SyncInv
<1>6. ASSUME NEW c \in Client, MakeEdit(c) PROVE SyncInv'
  <2>1. made + 1 \in Edit
    BY <1>6, <1>0, BoundsAssumption DEF MakeEdit, BoundTypes, Edit
  <2>2. doc[c] \cup {made + 1} \in SUBSET Edit /\ offlineOpSeq[c] + 1 \in Nat
    BY <1>6, <1>0, <2>1 DEF PageTypes
  <2>3. Put(queue[c], [key |-> offlineOpSeq[c] + 1, edit |-> made + 1]) \in SUBSET QueuedTextOp
    BY <1>6, <1>0, <2>1, <2>2 DEF PageTypes, Put, QueuedTextOp
  <2>4. [kind |-> "op", edit |-> made + 1, replayed |-> FALSE] \in Invocation
    BY <1>6, <1>0, <2>1, InvocationForms
  <2>5. Invoke(c, [kind |-> "op", edit |-> made + 1, replayed |-> FALSE]) \/ uplink' = uplink
    BY <1>6, <1>0 DEF MakeEdit
  <2>6. PageTypes'
    BY <1>6, <1>0, <2>2, <2>3 DEF MakeEdit, PageTypes, page
  <2>7. LinkTypes'
    BY <1>6, <1>0 DEF MakeEdit, LinkTypes
  <2>8. UplinkTypes'
    BY <1>0, <2>4, <2>5, InvokeTypes DEF UplinkTypes
  <2>9. InboxTypes'
    BY <1>6, <1>0 DEF MakeEdit, InboxTypes
  <2>10. ServerTypes'
    BY <1>6, <1>0 DEF MakeEdit, ServerTypes, server
  <2>11. BoundTypes'
    BY <1>6, <1>0, BoundsAssumption DEF MakeEdit, BoundTypes, bounds
  <2>12. JoinersAdmitted'
    BY <1>6, <1>0 DEF MakeEdit, JoinersAdmitted, LinkTypes, ServerTypes, server, Connected, Live,
      Connection
  <2>13. KeysIssued'
    BY <1>6, <1>0 DEF MakeEdit, KeysIssued, page, bounds, PageTypes, Put, QueuedTextOp
    <2> QED BY <2>6, <2>7, <2>8, <2>9, <2>10, <2>11, <2>12, <2>13 DEF SyncInv
<1>7. ASSUME NEW c \in Client, SaveTimerFires(c) PROVE SyncInv'
  <2>1. [kind |-> "save", edits |-> doc[c]] \in Invocation
    BY <1>7, <1>0, InvocationForms DEF PageTypes
  <2>2. Invoke(c, [kind |-> "save", edits |-> doc[c]]) \/ uplink' = uplink
    BY <1>7, <1>0 DEF SaveTimerFires
  <2>3. PageTypes'
    BY <1>7, <1>0 DEF SaveTimerFires, PageTypes, page
  <2>4. LinkTypes'
    BY <1>7, <1>0 DEF SaveTimerFires, LinkTypes
  <2>5. UplinkTypes'
    BY <1>0, <2>1, <2>2, InvokeTypes DEF UplinkTypes
  <2>6. InboxTypes'
    BY <1>7, <1>0 DEF SaveTimerFires, InboxTypes
  <2>7. ServerTypes'
    BY <1>7, <1>0 DEF SaveTimerFires, ServerTypes, server
  <2>8. BoundTypes'
    BY <1>7, <1>0 DEF SaveTimerFires, BoundTypes, bounds
  <2>9. JoinersAdmitted'
    BY <1>7, <1>0 DEF SaveTimerFires, JoinersAdmitted, LinkTypes, ServerTypes, server, Connected, Live,
      Connection
  <2>10. KeysIssued'
    BY <1>7, <1>0 DEF SaveTimerFires, KeysIssued, page, bounds
    <2> QED BY <2>3, <2>4, <2>5, <2>6, <2>7, <2>8, <2>9, <2>10 DEF SyncInv
<1>8. ASSUME NEW c \in Client, Admit(c) PROVE SyncInv'
  <2>1. PageTypes'
    BY <1>8, <1>0 DEF Admit, Serving, PageTypes, page
  <2>2. LinkTypes'
    BY <1>8, <1>0 DEF Admit, Serving, LinkTypes
  <2>3. UplinkTypes'
    BY <1>8, <1>0 DEF Admit, Serving, UplinkTypes
  <2>4. InboxTypes'
    BY <1>8, <1>0 DEF Admit, Serving, InboxTypes
  <2>5. ServerTypes'
    BY <1>8, <1>0 DEF Admit, Serving, ServerTypes, server, Live, Connection, LinkTypes
  <2>6. BoundTypes'
    BY <1>8, <1>0 DEF Admit, Serving, BoundTypes, bounds
  <2>7. JoinersAdmitted'
    BY <1>8, <1>0 DEF Admit, Serving, JoinersAdmitted, LinkTypes, ServerTypes, server, Connected, Live,
      Connection
  <2>8. KeysIssued'
    BY <1>8, <1>0 DEF Admit, Serving, KeysIssued, page, bounds
    <2> QED BY <2>1, <2>2, <2>3, <2>4, <2>5, <2>6, <2>7, <2>8 DEF SyncInv
<1>9. ASSUME NEW c \in Client, ReadSnapshot(c) PROVE SyncInv'
  <2>1. PageTypes'
    BY <1>9, <1>0 DEF ReadSnapshot, Serving, PageTypes, page
  <2>2. LinkTypes'
    BY <1>9, <1>0 DEF ReadSnapshot, Serving, LinkTypes
  <2>3. UplinkTypes'
    BY <1>9, <1>0 DEF ReadSnapshot, Serving, UplinkTypes
  <2>4. InboxTypes'
    BY <1>9, <1>0 DEF ReadSnapshot, Serving, InboxTypes
  <2>5. ServerTypes'
    BY <1>9, <1>0 DEF ReadSnapshot, Serving, ServerTypes, server, JoinState
  <2>6. BoundTypes'
    BY <1>9, <1>0 DEF ReadSnapshot, Serving, BoundTypes, bounds
  <2>7. JoinersAdmitted'
    BY <1>9, <1>0 DEF ReadSnapshot, Serving, JoinersAdmitted, LinkTypes, ServerTypes, server,
      Connected, Live, Connection
  <2>8. KeysIssued'
    BY <1>9, <1>0 DEF ReadSnapshot, Serving, KeysIssued, page, bounds
    <2> QED BY <2>1, <2>2, <2>3, <2>4, <2>5, <2>6, <2>7, <2>8 DEF SyncInv
<1>10. ASSUME NEW c \in Client, PickPeer(c) PROVE SyncInv'
  <2>1. \A read \in JoinState, peer \in SUBSET Connection :
         [read EXCEPT !.picked = TRUE, !.peer = peer] \in JoinState
    BY <1>10, <1>0 DEF JoinState
  <2>2. PICK read \in joining[c], peer \in SUBSET participants :
         joining' = [joining EXCEPT ![c] = {[read EXCEPT !.picked = TRUE, !.peer = peer]}]
    BY <1>10, <1>0 DEF PickPeer
  <2>3. PageTypes'
    BY <1>10, <1>0 DEF PickPeer, Serving, PageTypes, page
  <2>4. LinkTypes'
    BY <1>10, <1>0 DEF PickPeer, Serving, LinkTypes
  <2>5. UplinkTypes'
    BY <1>10, <1>0 DEF PickPeer, Serving, UplinkTypes
  <2>6. InboxTypes'
    BY <1>10, <1>0 DEF PickPeer, Serving, InboxTypes
  <2>7. ServerTypes'
    BY <1>10, <1>0, <2>1, <2>2 DEF PickPeer, ServerTypes
  <2>8. BoundTypes'
    BY <1>10, <1>0 DEF PickPeer, Serving, BoundTypes, bounds
  <2>9. JoinersAdmitted'
    BY <1>10, <1>0 DEF PickPeer, Serving, JoinersAdmitted, LinkTypes, ServerTypes, server, Connected,
      Live, Connection
  <2>10. KeysIssued'
    BY <1>10, <1>0 DEF PickPeer, Serving, KeysIssued, page, bounds
    <2> QED BY <2>3, <2>4, <2>5, <2>6, <2>7, <2>8, <2>9, <2>10 DEF SyncInv
<1>11. ASSUME NEW c \in Client, EnterGroup(c) PROVE SyncInv'
  <2>1. Live(c) \in participants
    BY <1>11, <1>0 DEF EnterGroup, JoinersAdmitted
  <2>2. PageTypes'
    BY <1>11, <1>0 DEF EnterGroup, Serving, PageTypes, page
  <2>3. LinkTypes'
    BY <1>11, <1>0 DEF EnterGroup, Serving, LinkTypes
  <2>4. UplinkTypes'
    BY <1>11, <1>0 DEF EnterGroup, Serving, UplinkTypes
  <2>5. InboxTypes'
    BY <1>11, <1>0 DEF EnterGroup, Serving, InboxTypes
  <2>6. ServerTypes'
    BY <1>11, <1>0, <2>1 DEF EnterGroup, ServerTypes
  <2>7. BoundTypes'
    BY <1>11, <1>0 DEF EnterGroup, Serving, BoundTypes, bounds
  <2>8. JoinersAdmitted'
    BY <1>11, <1>0 DEF EnterGroup, Serving, JoinersAdmitted, LinkTypes, ServerTypes, server, Connected,
      Live, Connection
  <2>9. KeysIssued'
    BY <1>11, <1>0 DEF EnterGroup, Serving, KeysIssued, page, bounds
    <2> QED BY <2>2, <2>3, <2>4, <2>5, <2>6, <2>7, <2>8, <2>9 DEF SyncInv
<1>12. ASSUME NEW c \in Client, AnswerJoin(c) PROVE SyncInv'
  <2> DEFINE room == SendTo(inbox, {Live(c)}, [kind |-> "room"])
             load(read) == SendTo(room, {Live(c)}, [kind |-> "load", edits |-> read.edits])
  <2>1. PICK read \in joining[c] :
         inbox' = SendTo(load(read), read.peer, [kind |-> "request", from |-> Live(c)])
    BY <1>12, <1>0 DEF AnswerJoin
  <2>2. read.edits \in SUBSET Edit /\ Live(c) \in Connection
    BY <1>12, <1>0, <2>1 DEF ServerTypes, JoinState, Live, LinkTypes, Connection
  <2>3. /\ [kind |-> "room"] \in Message /\ [kind |-> "load", edits |-> read.edits] \in Message
       /\ [kind |-> "request", from |-> Live(c)] \in Message
    BY <1>12, <1>0, <2>2, MessageForms
  <2>4. room \in [Client -> SUBSET Message]
    BY <1>12, <1>0, <2>3, SendToTypes DEF InboxTypes
  <2>5. load(read) \in [Client -> SUBSET Message]
    BY <1>12, <1>0, <2>3, <2>4, SendToTypes
  <2>6. PageTypes'
    BY <1>12, <1>0 DEF AnswerJoin, Serving, PageTypes, page
  <2>7. LinkTypes'
    BY <1>12, <1>0 DEF AnswerJoin, Serving, LinkTypes
  <2>8. UplinkTypes'
    BY <1>12, <1>0 DEF AnswerJoin, Serving, UplinkTypes
  <2>9. InboxTypes'
    BY <2>1, <2>3, <2>5, SendToTypes DEF InboxTypes
  <2>10. ServerTypes'
    BY <1>12, <1>0 DEF AnswerJoin, Serving, ServerTypes, server
  <2>11. BoundTypes'
    BY <1>12, <1>0 DEF AnswerJoin, Serving, BoundTypes, bounds
  <2>12. JoinersAdmitted'
    BY <1>12, <1>0 DEF AnswerJoin, Serving, JoinersAdmitted, LinkTypes, ServerTypes, server, Connected,
      Live, Connection
  <2>13. KeysIssued'
    BY <1>12, <1>0 DEF AnswerJoin, Serving, KeysIssued, page, bounds
    <2> QED BY <2>6, <2>7, <2>8, <2>9, <2>10, <2>11, <2>12, <2>13 DEF SyncInv
<1>13. ASSUME NEW c \in Client, Refuse(c) PROVE SyncInv'
  <2>1. PageTypes'
    BY <1>13, <1>0 DEF Refuse, Serve, Serving, PageTypes, page
  <2>2. LinkTypes'
    BY <1>13, <1>0 DEF Refuse, Serve, Serving, LinkTypes
  <2>3. UplinkTypes'
    BY <1>13, <1>0 DEF Refuse, Serve, Serving, UplinkTypes
  <2>4. InboxTypes'
    BY <1>13, <1>0 DEF Refuse, Serve, Serving, InboxTypes
  <2>5. ServerTypes'
    BY <1>13, <1>0 DEF Refuse, Serve, Serving, ServerTypes, server
  <2>6. BoundTypes'
    BY <1>13, <1>0 DEF Refuse, Serve, Serving, BoundTypes, bounds
  <2>7. JoinersAdmitted'
    BY <1>13, <1>0 DEF Refuse, Serve, Serving, JoinersAdmitted, LinkTypes, ServerTypes, server,
      Connected, Live, Connection
  <2>8. KeysIssued'
    BY <1>13, <1>0 DEF Refuse, Serve, Serving, KeysIssued, page, bounds
    <2> QED BY <2>1, <2>2, <2>3, <2>4, <2>5, <2>6, <2>7, <2>8 DEF SyncInv
<1>14. ASSUME NEW c \in Client, ServeOp(c) PROVE SyncInv'
  <2>1. Head(uplink[c]) \in Invocation /\ Head(uplink[c]).kind = "op"
    BY <1>14, <1>0, ServedTypes DEF ServeOp, Serve, Serving
  <2>2. [kind |-> "op", edit |-> Head(uplink[c]).edit] \in Message /\ [kind |-> "done"] \in Message
    BY <1>14, <1>0, <2>1, InvocationParts, MessageForms
  <2>3. Relay(inbox, c, [kind |-> "op", edit |-> Head(uplink[c]).edit]) \in [Client -> SUBSET Message]
    BY <1>14, <1>0, <2>2, SendToTypes DEF Relay, InboxTypes
  <2>4. PageTypes'
    BY <1>14, <1>0 DEF ServeOp, Serve, Serving, PageTypes, page
  <2>5. LinkTypes'
    BY <1>14, <1>0 DEF ServeOp, Serve, Serving, LinkTypes
  <2>6. UplinkTypes'
    BY <1>14, <1>0 DEF ServeOp, Serve, Serving, UplinkTypes
  <2>7. InboxTypes'
    BY <1>14, <2>2, <2>3, SendToTypes DEF ServeOp, InboxTypes
  <2>8. ServerTypes'
    BY <1>14, <1>0 DEF ServeOp, Serve, Serving, ServerTypes, server
  <2>9. BoundTypes'
    BY <1>14, <1>0 DEF ServeOp, Serve, Serving, BoundTypes, bounds
  <2>10. JoinersAdmitted'
    BY <1>14, <1>0 DEF ServeOp, Serve, Serving, JoinersAdmitted, LinkTypes, ServerTypes, server,
      Connected, Live, Connection
  <2>11. KeysIssued'
    BY <1>14, <1>0 DEF ServeOp, Serve, Serving, KeysIssued, page, bounds
    <2> QED BY <2>4, <2>5, <2>6, <2>7, <2>8, <2>9, <2>10, <2>11 DEF SyncInv
<1>15. ASSUME NEW c \in Client, ServeSave(c) PROVE SyncInv'
  <2>1. Head(uplink[c]) \in Invocation /\ Head(uplink[c]).kind = "save"
    BY <1>15, <1>0, ServedTypes DEF ServeSave, Serve, Serving
  <2>2. Head(uplink[c]).edits \subseteq Edit
    BY <1>15, <1>0, <2>1, InvocationParts
  <2>3. PageTypes'
    BY <1>15, <1>0 DEF ServeSave, Serve, Serving, PageTypes, page
  <2>4. LinkTypes'
    BY <1>15, <1>0 DEF ServeSave, Serve, Serving, LinkTypes
  <2>5. UplinkTypes'
    BY <1>15, <1>0 DEF ServeSave, Serve, Serving, UplinkTypes
  <2>6. InboxTypes'
    BY <1>15, <1>0 DEF ServeSave, Serve, Serving, InboxTypes
  <2>7. ServerTypes'
    BY <1>15, <1>0, <2>2 DEF ServeSave, Serve, ServerTypes
  <2>8. BoundTypes'
    BY <1>15, <1>0 DEF ServeSave, Serve, Serving, BoundTypes, bounds
  <2>9. JoinersAdmitted'
    BY <1>15, <1>0 DEF ServeSave, Serve, Serving, JoinersAdmitted, LinkTypes, ServerTypes, server,
      Connected, Live, Connection
  <2>10. KeysIssued'
    BY <1>15, <1>0 DEF ServeSave, Serve, Serving, KeysIssued, page, bounds
    <2> QED BY <2>3, <2>4, <2>5, <2>6, <2>7, <2>8, <2>9, <2>10 DEF SyncInv
<1>16. ASSUME NEW c \in Client, ServeSync(c) PROVE SyncInv'
  <2>1. Head(uplink[c]) \in Invocation /\ Head(uplink[c]).kind = "sync"
    BY <1>16, <1>0, ServedTypes DEF ServeSync, Serve, Serving
  <2>2. Head(uplink[c]).edits \subseteq Edit
    BY <1>16, <1>0, <2>1, InvocationParts
  <2>3. [kind |-> "snapshot", edits |-> Head(uplink[c]).edits] \in Message /\ [kind |-> "done"] \in Message
    BY <1>16, <1>0, <2>2, MessageForms
  <2>4. Relay(inbox, c, [kind |-> "snapshot", edits |-> Head(uplink[c]).edits]) \in [Client -> SUBSET Message]
    BY <1>16, <1>0, <2>3, SendToTypes DEF Relay, InboxTypes
  <2>5. PageTypes'
    BY <1>16, <1>0 DEF ServeSync, Serve, Serving, PageTypes, page
  <2>6. LinkTypes'
    BY <1>16, <1>0 DEF ServeSync, Serve, Serving, LinkTypes
  <2>7. UplinkTypes'
    BY <1>16, <1>0 DEF ServeSync, Serve, Serving, UplinkTypes
  <2>8. InboxTypes'
    BY <1>16, <2>3, <2>4, SendToTypes DEF ServeSync, InboxTypes
  <2>9. ServerTypes'
    BY <1>16, <1>0, <2>2 DEF ServeSync, Serve, ServerTypes
  <2>10. BoundTypes'
    BY <1>16, <1>0 DEF ServeSync, Serve, Serving, BoundTypes, bounds
  <2>11. JoinersAdmitted'
    BY <1>16, <1>0 DEF ServeSync, Serve, Serving, JoinersAdmitted, LinkTypes, ServerTypes, server,
      Connected, Live, Connection
  <2>12. KeysIssued'
    BY <1>16, <1>0 DEF ServeSync, Serve, Serving, KeysIssued, page, bounds
    <2> QED BY <2>5, <2>6, <2>7, <2>8, <2>9, <2>10, <2>11, <2>12 DEF SyncInv
<1>17. ASSUME NEW c \in Client, ServeReply(c) PROVE SyncInv'
  <2>1. Head(uplink[c]) \in Invocation /\ Head(uplink[c]).kind = "reply"
    BY <1>17, <1>0, ServedTypes DEF ServeReply, Serve, Serving
  <2>2. Head(uplink[c]).edits \subseteq Edit
    BY <1>17, <1>0, <2>1, InvocationParts
  <2>3. [kind |-> "snapshot", edits |-> Head(uplink[c]).edits] \in Message
    BY <1>17, <1>0, <2>2, MessageForms
  <2>4. PageTypes'
    BY <1>17, <1>0 DEF ServeReply, Serve, Serving, PageTypes, page
  <2>5. LinkTypes'
    BY <1>17, <1>0 DEF ServeReply, Serve, Serving, LinkTypes
  <2>6. UplinkTypes'
    BY <1>17, <1>0 DEF ServeReply, Serve, Serving, UplinkTypes
  <2>7. InboxTypes'
    BY <1>17, <1>0, <2>3, SendToTypes DEF ServeReply, InboxTypes
  <2>8. ServerTypes'
    BY <1>17, <1>0, <2>2 DEF ServeReply, Serve, ServerTypes
  <2>9. BoundTypes'
    BY <1>17, <1>0 DEF ServeReply, Serve, Serving, BoundTypes, bounds
  <2>10. JoinersAdmitted'
    BY <1>17, <1>0 DEF ServeReply, Serve, Serving, JoinersAdmitted, LinkTypes, ServerTypes, server,
      Connected, Live, Connection
  <2>11. KeysIssued'
    BY <1>17, <1>0 DEF ServeReply, Serve, Serving, KeysIssued, page, bounds
    <2> QED BY <2>4, <2>5, <2>6, <2>7, <2>8, <2>9, <2>10, <2>11 DEF SyncInv
<1>18. ASSUME NEW c \in Client, HandleRoom(c) PROVE SyncInv'
  <2>1. PageTypes'
    BY <1>18, <1>0 DEF HandleRoom, PageTypes, page
  <2>2. LinkTypes'
    BY <1>18, <1>0 DEF HandleRoom, LinkTypes, Phase
  <2>3. UplinkTypes'
    BY <1>18, <1>0 DEF HandleRoom, UplinkTypes
  <2>4. InboxTypes'
    BY <1>18, <1>0, HandleTypes DEF HandleRoom
  <2>5. ServerTypes'
    BY <1>18, <1>0 DEF HandleRoom, ServerTypes, server
  <2>6. BoundTypes'
    BY <1>18, <1>0 DEF HandleRoom, BoundTypes, bounds
  <2>7. JoinersAdmitted'
    BY <1>18, <1>0 DEF HandleRoom, JoinersAdmitted, LinkTypes, ServerTypes, server, Connected, Live,
      Connection
  <2>8. KeysIssued'
    BY <1>18, <1>0 DEF HandleRoom, KeysIssued, page, bounds
    <2> QED BY <2>1, <2>2, <2>3, <2>4, <2>5, <2>6, <2>7, <2>8 DEF SyncInv
<1>19. ASSUME NEW c \in Client, HandleOp(c) PROVE SyncInv'
  <2>1. PICK m \in inbox[c] :
         /\ m.kind = "op" /\ Handle(c, m)
         /\ doc' = IF known[c] THEN [doc EXCEPT ![c] = @ \cup {m.edit}] ELSE doc
    BY <1>19, <1>0 DEF HandleOp
  <2>2. InboxTypes' /\ m.edit \in Edit
    BY <1>19, <1>0, <2>1, HandleTypes, MessageParts
  <2>3. PageTypes'
    BY <1>19, <1>0, <2>1, <2>2 DEF HandleOp, PageTypes
  <2>4. LinkTypes'
    BY <1>19, <1>0 DEF HandleOp, LinkTypes
  <2>5. UplinkTypes'
    BY <1>19, <1>0 DEF HandleOp, UplinkTypes
  <2>6. InboxTypes'
    BY <2>2
  <2>7. ServerTypes'
    BY <1>19, <1>0 DEF HandleOp, ServerTypes, server
  <2>8. BoundTypes'
    BY <1>19, <1>0 DEF HandleOp, BoundTypes, bounds
  <2>9. JoinersAdmitted'
    BY <1>19, <1>0 DEF HandleOp, JoinersAdmitted, LinkTypes, ServerTypes, server, Connected, Live,
      Connection
  <2>10. KeysIssued'
    BY <1>19, <1>0 DEF HandleOp, KeysIssued, page, bounds
    <2> QED BY <2>3, <2>4, <2>5, <2>6, <2>7, <2>8, <2>9, <2>10 DEF SyncInv
<1>20. ASSUME NEW c \in Client, HandleSnapshot(c) PROVE SyncInv'
  <2>1. PICK m \in inbox[c] :
         /\ m.kind \in {"load", "snapshot"} /\ Handle(c, m)
         /\ doc' = [doc EXCEPT ![c] = @ \cup m.edits]
    BY <1>20, <1>0 DEF HandleSnapshot
  <2>2. InboxTypes' /\ m.edits \subseteq Edit
    BY <1>20, <1>0, <2>1, HandleTypes, MessageParts
  <2>3. PageTypes'
    BY <1>20, <1>0, <2>1, <2>2 DEF HandleSnapshot, PageTypes
  <2>4. LinkTypes'
    BY <1>20, <1>0 DEF HandleSnapshot, LinkTypes
  <2>5. UplinkTypes'
    BY <1>20, <1>0 DEF HandleSnapshot, UplinkTypes
  <2>6. InboxTypes'
    BY <2>2
  <2>7. ServerTypes'
    BY <1>20, <1>0 DEF HandleSnapshot, ServerTypes, server
  <2>8. BoundTypes'
    BY <1>20, <1>0 DEF HandleSnapshot, BoundTypes, bounds
  <2>9. JoinersAdmitted'
    BY <1>20, <1>0 DEF HandleSnapshot, JoinersAdmitted, LinkTypes, ServerTypes, server, Connected,
      Live, Connection
  <2>10. KeysIssued'
    BY <1>20, <1>0 DEF HandleSnapshot, KeysIssued, page, bounds
    <2> QED BY <2>3, <2>4, <2>5, <2>6, <2>7, <2>8, <2>9, <2>10 DEF SyncInv
<1>21. ASSUME NEW c \in Client, HandleRequest(c) PROVE SyncInv'
  <2>1. PICK m \in inbox[c] :
         /\ m.kind = "request" /\ Handle(c, m)
         /\ Invoke(c, [kind |-> "reply", edits |-> doc[c], to |-> m.from])
    BY <1>21, <1>0 DEF HandleRequest
  <2>2. InboxTypes' /\ m.from \in Connection
    BY <1>21, <1>0, <2>1, HandleTypes, MessageParts
  <2>3. [kind |-> "reply", edits |-> doc[c], to |-> m.from] \in Invocation
    BY <1>21, <1>0, <2>2, InvocationForms DEF PageTypes
  <2>4. PageTypes'
    BY <1>21, <1>0 DEF HandleRequest, PageTypes, page
  <2>5. LinkTypes'
    BY <1>21, <1>0 DEF HandleRequest, LinkTypes
  <2>6. UplinkTypes'
    BY <1>0, <2>1, <2>3, InvokeTypes
  <2>7. InboxTypes'
    BY <2>2
  <2>8. ServerTypes'
    BY <1>21, <1>0 DEF HandleRequest, ServerTypes, server
  <2>9. BoundTypes'
    BY <1>21, <1>0 DEF HandleRequest, BoundTypes, bounds
  <2>10. JoinersAdmitted'
    BY <1>21, <1>0 DEF HandleRequest, JoinersAdmitted, LinkTypes, ServerTypes, server, Connected, Live,
      Connection
  <2>11. KeysIssued'
    BY <1>21, <1>0 DEF HandleRequest, KeysIssued, page, bounds
    <2> QED BY <2>4, <2>5, <2>6, <2>7, <2>8, <2>9, <2>10, <2>11 DEF SyncInv
<1>22. ASSUME NEW c \in Client, SyncOfflineSnapshots(c) PROVE SyncInv'
  <2>1. [kind |-> "sync", edits |-> doc[c]] \in Invocation
    BY <1>22, <1>0, InvocationForms DEF PageTypes
  <2>2. PageTypes'
    BY <1>22, <1>0 DEF SyncOfflineSnapshots, PageTypes, page
  <2>3. LinkTypes'
    BY <1>22, <1>0 DEF SyncOfflineSnapshots, LinkTypes, Phase
  <2>4. UplinkTypes'
    BY <1>22, <1>0, <2>1, InvokeTypes DEF SyncOfflineSnapshots
  <2>5. InboxTypes'
    BY <1>22, <1>0 DEF SyncOfflineSnapshots, InboxTypes
  <2>6. ServerTypes'
    BY <1>22, <1>0 DEF SyncOfflineSnapshots, ServerTypes, server
  <2>7. BoundTypes'
    BY <1>22, <1>0 DEF SyncOfflineSnapshots, BoundTypes, bounds
  <2>8. JoinersAdmitted'
    BY <1>22, <1>0 DEF SyncOfflineSnapshots, JoinersAdmitted, LinkTypes, ServerTypes, server,
      Connected, Live, Connection
  <2>9. KeysIssued'
    BY <1>22, <1>0 DEF SyncOfflineSnapshots, KeysIssued, page, bounds
    <2> QED BY <2>2, <2>3, <2>4, <2>5, <2>6, <2>7, <2>8, <2>9 DEF SyncInv
<1>23. ASSUME NEW c \in Client, ReplayNext(c) PROVE SyncInv'
  <2>1. PICK r \in queue[c] : Invoke(c, [kind |-> "op", edit |-> r.edit, replayed |-> TRUE])
    BY <1>23, <1>0 DEF ReplayNext
  <2>2. r.edit \in Edit
    BY <1>23, <1>0 DEF PageTypes, QueuedTextOp
  <2>3. [kind |-> "op", edit |-> r.edit, replayed |-> TRUE] \in Invocation
    BY <1>23, <1>0, <2>2, InvocationForms
  <2>4. PageTypes'
    BY <1>23, <1>0 DEF ReplayNext, PageTypes, page
  <2>5. LinkTypes'
    BY <1>23, <1>0 DEF ReplayNext, LinkTypes, Phase
  <2>6. UplinkTypes'
    BY <1>0, <2>1, <2>3, InvokeTypes
  <2>7. InboxTypes'
    BY <1>23, <1>0 DEF ReplayNext, InboxTypes
  <2>8. ServerTypes'
    BY <1>23, <1>0 DEF ReplayNext, ServerTypes, server
  <2>9. BoundTypes'
    BY <1>23, <1>0 DEF ReplayNext, BoundTypes, bounds
  <2>10. JoinersAdmitted'
    BY <1>23, <1>0 DEF ReplayNext, JoinersAdmitted, LinkTypes, ServerTypes, server, Connected, Live,
      Connection
  <2>11. KeysIssued'
    BY <1>23, <1>0 DEF ReplayNext, KeysIssued, page, bounds
    <2> QED BY <2>4, <2>5, <2>6, <2>7, <2>8, <2>9, <2>10, <2>11 DEF SyncInv
<1>24. ASSUME NEW c \in Client, ReplayEnds(c) PROVE SyncInv'
  <2>1. PageTypes'
    BY <1>24, <1>0 DEF ReplayEnds, PageTypes, page
  <2>2. LinkTypes'
    BY <1>24, <1>0 DEF ReplayEnds, LinkTypes, Phase
  <2>3. UplinkTypes'
    BY <1>24, <1>0 DEF ReplayEnds, UplinkTypes
  <2>4. InboxTypes'
    BY <1>24, <1>0 DEF ReplayEnds, InboxTypes
  <2>5. ServerTypes'
    BY <1>24, <1>0 DEF ReplayEnds, ServerTypes, server
  <2>6. BoundTypes'
    BY <1>24, <1>0 DEF ReplayEnds, BoundTypes, bounds
  <2>7. JoinersAdmitted'
    BY <1>24, <1>0 DEF ReplayEnds, JoinersAdmitted, LinkTypes, ServerTypes, server, Connected, Live,
      Connection
  <2>8. KeysIssued'
    BY <1>24, <1>0 DEF ReplayEnds, KeysIssued, page, bounds
    <2> QED BY <2>1, <2>2, <2>3, <2>4, <2>5, <2>6, <2>7, <2>8 DEF SyncInv
<1>25. ASSUME NEW c \in Client, HandleDone(c) PROVE SyncInv'
  <2>1. PageTypes'
    BY <1>25, <1>0 DEF HandleDone, PageTypes, page
  <2>2. LinkTypes'
    BY <1>25, <1>0 DEF HandleDone, LinkTypes, Phase
  <2>3. UplinkTypes'
    BY <1>25, <1>0 DEF HandleDone, UplinkTypes
  <2>4. InboxTypes'
    BY <1>25, <1>0, HandleTypes DEF HandleDone
  <2>5. ServerTypes'
    BY <1>25, <1>0 DEF HandleDone, ServerTypes, server
  <2>6. BoundTypes'
    BY <1>25, <1>0 DEF HandleDone, BoundTypes, bounds
  <2>7. JoinersAdmitted'
    BY <1>25, <1>0 DEF HandleDone, JoinersAdmitted, LinkTypes, ServerTypes, server, Connected, Live,
      Connection
  <2>8. KeysIssued'
    BY <1>25, <1>0 DEF HandleDone, KeysIssued, page, bounds
    <2> QED BY <2>1, <2>2, <2>3, <2>4, <2>5, <2>6, <2>7, <2>8 DEF SyncInv
<1>26. CASE UNCHANGED vars
  BY <1>0, <1>26 DEF vars, page, server, bounds, SyncInv, PageTypes, LinkTypes, UplinkTypes, InboxTypes,
    ServerTypes, BoundTypes, JoinersAdmitted, KeysIssued, Connected, Live
<1> QED BY <1>1, <1>2, <1>3, <1>4, <1>5, <1>6, <1>7, <1>8, <1>9, <1>10, <1>11, <1>12, <1>13, <1>14,
  <1>15, <1>16, <1>17, <1>18, <1>19, <1>20, <1>21, <1>22, <1>23, <1>24, <1>25, <1>26 DEF Next,
  ServeNext, HandleNext, ReconnectNext

\* For any number of tabs, edits, breaks and reloads, what the tabs, the links
\* and the server hold is of its type; the SignalR group never has a connection
\* that JoinRoom has not admitted (RoomTextSync's TypeOK).
THEOREM SyncTypes == Spec => []TypeOK
<1>1. SyncInv => TypeOK
  BY DEF SyncInv, PageTypes, LinkTypes, UplinkTypes, InboxTypes, ServerTypes, BoundTypes, TypeOK
<1> QED BY SyncInit, SyncStep, <1>1, PTL DEF Spec

\* sendOp and replayOfflineTextOps: while no page is reloaded, no edit leaves
\* the offline queue before the server has acknowledged its replay, for any
\* number of tabs, edits and breaks. (After a reload the counter behind the keys
\* starts over, and a new record replaces an old one.)
THEOREM QueueKeepsEdits ==
  ASSUME MaxReloads = 0
  PROVE  Spec => QueuedEditsSurvive
<1>1. ASSUME SyncInv, [Next]_vars
      PROVE  [\A c \in Client : \A r \in queue[c] :
                \/ \E q \in queue'[c] : q.edit = r.edit
                \/ /\ phase[c] = "replayWait"
                   /\ [kind |-> "done"] \in inbox[c]
                   /\ r.key = FirstKey(c)]_vars
  <2> SUFFICES ASSUME NEW c \in Client, NEW r \in queue[c], ~ \E q \in queue'[c] : q.edit = r.edit
               PROVE  /\ phase[c] = "replayWait"
                      /\ [kind |-> "done"] \in inbox[c]
                      /\ r.key = FirstKey(c)
    OBVIOUS
  <2>1. queue \in [Client -> SUBSET QueuedTextOp] /\ KeysIssued /\ reloads = 0
    BY <1>1 DEF SyncInv, PageTypes, BoundTypes
  <2>2. PICK d \in Client : MakeEdit(d) \/ HandleDone(d)
    <3>1. queue' # queue
      OBVIOUS
    <3> QED BY <1>1, <3>1 DEF Next, ServeNext, HandleNext, ReconnectNext, vars, page, ServerNotices, Start,
      ComeOnline, Drop, Reload, SaveTimerFires, Admit, ReadSnapshot, PickPeer, EnterGroup, AnswerJoin, Serve,
      Refuse, ServeOp, ServeSave, ServeSync, ServeReply, HandleRoom, HandleOp, HandleSnapshot, HandleRequest,
      SyncOfflineSnapshots, ReplayNext, ReplayEnds
  <2>3. CASE MakeEdit(d)
    <3>1. r.key <= offlineOpSeq[c] /\ r.key \in Nat
      BY <2>1 DEF KeysIssued, QueuedTextOp
    <3>2. offlineOpSeq[c] \in Nat
      BY <1>1 DEF SyncInv, PageTypes
    <3> QED BY <2>1, <2>3, <3>1, <3>2 DEF MakeEdit, Put
  <2>4. CASE HandleDone(d)
    BY <2>1, <2>4 DEF HandleDone, Handle
  <2> QED BY <2>2, <2>3, <2>4
<1> QED BY SyncInit, SyncStep, <1>1, PTL DEF Spec, QueuedEditsSurvive
=============================================================================

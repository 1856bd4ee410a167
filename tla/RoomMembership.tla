--------------------------- MODULE RoomMembership ---------------------------
(* Who is in a room and in which role: the Redis records of participants,     *)
(* remembered members and join requests, and the hub methods that read and    *)
(* write them. Every Redis script is one step; a hub method that calls        *)
(* several is a chain of steps that other connections interleave with.        *)
(*                                                                            *)
(* A tab uses one room per connection and always sends the request            *)
(* identifier it keeps for that room, so a connection stands for one member.  *)
EXTENDS Naturals, FiniteSets, Functions

CONSTANTS
  Room, Conn, Member,
  Home,            \* Home[c]: the room of the tab that has connection c
  MemberOf,        \* MemberOf[c]: the request identifier that tab sends
  Creator,         \* Creator[r]: the member that keeps the creator token of the room
  Lead,            \* the connections the UI lets act as admins (bounds the model)
  MaxParticipants, MaxActiveRooms, MaxConnections,
  MaxActs,         \* acts of admins on others, and memberships given up
  QuietTargets     \* a member has one tab and no call under way when an admin acts on it, and
                   \* is connected when its role is changed

ASSUME MembershipAssumption ==
  /\ Home \in [Conn -> Room] /\ MemberOf \in [Conn -> Member] /\ Creator \in [Room -> Member]
  /\ {MaxParticipants, MaxActiveRooms, MaxConnections, MaxActs} \subseteq Nat
  /\ QuietTargets \in BOOLEAN /\ Lead \subseteq Conn

VARIABLES
  link,          \* what SignalR knows of a connection
  wants,         \* connections whose tab is about to invoke JoinRoom
  call,          \* the hub method each connection has under way
  participants,  \* room:participants, a hash from connections to roles
  active,        \* the rooms counted as active
  connections,   \* the connections registered for an instance, its lease
  crashed,       \* connections of an instance that stopped
  hadAdmin,      \* rooms with hasHadAdmin in their metadata
  members,       \* previously approved participants, a hash from members
  requests,      \* pending join requests, a hash from members
  rejected,      \* rejected members of a room (30 days)
  context,       \* connections that have a PendingJoinContext
  acts,          \* how often admins have acted, or memberships were given up
  granted,       \* history: the members let in and not kicked since
  demoted        \* history: the members demoted and not promoted since

stored == <<participants, active, connections, hadAdmin, members, requests, rejected>>
vars == <<link, wants, call, crashed, context, acts, granted, demoted, stored>>

Roles == [admin : BOOLEAN, locked : BOOLEAN]
Records == [admin : BOOLEAN, locked : BOOLEAN, revoked : BOOLEAN, ask : BOOLEAN]
Idle == [at |-> "idle", known |-> FALSE, role |-> [admin |-> FALSE, locked |-> FALSE],
         flag |-> FALSE, returning |-> FALSE, others |-> {}, then |-> "idle"]
Has(hash, key) == key \in DOMAIN hash
Without(hash, keys) == Restrict(hash, DOMAIN hash \ keys)
Set(hash, key, value) == [x \in DOMAIN hash \cup {key} |-> IF x = key THEN value ELSE hash[x]]
HasAdmin(people) == \E c \in DOMAIN people : people[c].admin
Quiet(r, m, here) ==
  QuietTargets => \A c \in Conn : MemberOf[c] = m => call[c].at = "idle" /\ (c \in here \/ ~Has(participants[r], c))

Init ==
  /\ link = [c \in Conn |-> "new"] /\ call = [c \in Conn |-> Idle] /\ wants = {}
  /\ participants = [r \in Room |-> <<>>] /\ active = {} /\ connections = {} /\ crashed = {}
  /\ hadAdmin = {} /\ members = [r \in Room |-> <<>>] /\ requests = [r \in Room |-> <<>>]
  /\ rejected = [r \in Room |-> {}] /\ context = {} /\ acts = 0
  /\ granted = [r \in Room |-> {}] /\ demoted = [r \in Room |-> {}]
-----------------------------------------------------------------------------
(* RedisParticipantStore *)

\* RemoveParticipant for a set of connections of a room.
Removed(r, gone) ==
  /\ participants' = [participants EXCEPT ![r] = Without(@, gone)]
  /\ connections' = connections \ gone
  /\ active' = IF DOMAIN participants[r] \subseteq gone THEN active \ {r} ELSE active

\* A mutant of Dead: the leases are not read.
DeadUnnoticed(r) == {c \in DOMAIN participants[r] : link[c] = "new"}

\* GetParticipants removes who is not registered for an instance any more. When
\* it read nobody, a step of its own takes the room off the active ones.
Dead(r) == {c \in DOMAIN participants[r] : c \notin connections}

Looked(state, nobody, next) ==
  [state EXCEPT !.at = IF nobody THEN "forget" ELSE next, !.then = IF nobody THEN next ELSE "idle"]

Forget(c) ==
  /\ call[c].at = "forget" /\ active' = active \ {Home[c]}
  /\ call' = [call EXCEPT ![c].at = call[c].then, ![c].then = "idle"]
  /\ UNCHANGED <<link, wants, crashed, context, acts, granted, demoted, participants, connections,
                 hadAdmin, members, requests, rejected>>

\* SaveMember: what a participant was is what the member is remembered as.
Remembered(r, m, role) ==
  Set(members[r], m, [admin |-> role.admin, locked |-> role.locked /\ ~role.admin, ask |-> FALSE,
                      revoked |-> Has(members[r], m) /\ members[r][m].revoked])

\* RemoveRequest removes a request only for the connection it was made by.
RequestsWithout(r, c) ==
  IF Has(requests[r], MemberOf[c]) /\ requests[r][MemberOf[c]].conn = c
  THEN [requests EXCEPT ![r] = Without(@, {MemberOf[c]})] ELSE requests
-----------------------------------------------------------------------------
(* Connecting *)

Connect(c) ==
  /\ link[c] = "new" /\ (QuietTargets => \A d \in Conn : MemberOf[d] = MemberOf[c] => link[d] # "open")
  /\ IF Cardinality(connections \ crashed) >= MaxConnections
     THEN link' = [link EXCEPT ![c] = "closed"] /\ UNCHANGED <<connections, wants>>
     ELSE /\ link' = [link EXCEPT ![c] = "open"]
          /\ connections' = connections \cup {c} /\ wants' = wants \cup {c}
  /\ UNCHANGED <<call, crashed, context, acts, granted, demoted, participants, active, hadAdmin,
                 members, requests, rejected>>

\* The tab is gone; SignalR notices later.
Lose(c) ==
  /\ link[c] = "open" /\ link' = [link EXCEPT ![c] = "lost"] /\ wants' = wants \ {c}
  /\ UNCHANGED <<call, crashed, context, acts, granted, demoted, stored>>

\* The instance stops with everything under way; its lease is not refreshed.
Crash ==
  /\ crashed = {} /\ connections # {}
  /\ crashed' = connections /\ link' = [c \in Conn |-> IF link[c] = "new" THEN "new" ELSE "closed"]
  /\ call' = [c \in Conn |-> Idle] /\ context' = {} /\ wants' = {}
  /\ UNCHANGED <<acts, granted, demoted, stored>>

LeaseExpires ==
  /\ crashed \cap connections # {} /\ connections' = connections \ crashed
  /\ UNCHANGED <<link, wants, call, crashed, context, acts, granted, demoted, participants, active,
                 hadAdmin, members, requests, rejected>>

\* PruneInactiveRooms, before every cleanup sweep.
Prune(r) ==
  /\ r \in active /\ Dead(r) # {} /\ Removed(r, Dead(r))
  /\ UNCHANGED <<link, wants, call, crashed, context, acts, granted, demoted, hadAdmin, members,
                 requests, rejected>>
-----------------------------------------------------------------------------
(* JoinRoom *)

\* ResolveJoinAdmission, what it reads of the room.
BeginJoin(c) ==
  LET r == Home[c]  returning == \E m \in DOMAIN members[r] : members[r][m].admin IN
  /\ link[c] = "open" /\ call[c].at = "idle" /\ c \in wants
  /\ wants' = wants \ {c}
  /\ Removed(r, Dead(r))
  /\ call' = [call EXCEPT ![c] = Looked([Idle EXCEPT !.returning = returning,
                !.flag = ~HasAdmin(Without(participants[r], Dead(r))) /\ r \in hadAdmin /\ ~returning],
                participants[r] = <<>>, "request")]
  /\ UNCHANGED <<link, crashed, context, acts, granted, demoted, hadAdmin, members, requests, rejected>>

\* GetJoinApprovalResult: let in, refused, or to ask the admins.
Admission(r, c, approved, ask) ==
  CASE Has(participants[r], c) \/ MemberOf[c] = Creator[r] -> "admit"
    [] MemberOf[c] \in rejected[r] -> "idle"
    [] approved \/ (~ask /\ call[c].flag) -> "admit"
    [] OTHER -> "ask"

\* What it reads of the member and of the request.
ReadRequest(c) ==
  LET r == Home[c]  m == MemberOf[c]  known == Has(members[r], m)
      ask == known /\ members[r][m].ask
      byRequest == (known => ask) /\ Has(requests[r], m) /\ requests[r][m].approved
      next == Admission(r, c, (known /\ ~ask) \/ byRequest, ask) IN
  /\ call[c].at = "request"
  /\ requests' = IF byRequest THEN [requests EXCEPT ![r][m].conn = c] ELSE requests
  /\ call' = [call EXCEPT ![c] = IF next = "idle" THEN Idle ELSE
                [@ EXCEPT !.at = next, !.known = known, !.flag = FALSE,
                          !.role = IF known THEN [admin |-> members[r][m].admin, locked |-> members[r][m].locked]
                                   ELSE Idle.role]]
  /\ granted' = IF next = "admit" THEN [granted EXCEPT ![r] = @ \cup IF m = Creator[r] \/ (~ask /\ call[c].flag)
                                                                 THEN {m} ELSE {}] ELSE granted
  /\ UNCHANGED <<link, wants, crashed, context, acts, demoted, participants, active, connections,
                 hadAdmin, members, rejected>>

\* UpsertRequest: the request replaces an earlier one of the same member, approved or not.
Requested(r, m, c) == [requests EXCEPT ![r] = Set(@, m, [conn |-> c, approved |-> FALSE])]

AskAdmins(c) ==
  LET r == Home[c]  m == MemberOf[c] IN
  /\ call[c].at = "ask" /\ call' = [call EXCEPT ![c] = Idle]
  /\ IF ~Has(requests[r], m) /\ Cardinality(DOMAIN requests[r]) >= MaxParticipants
     THEN UNCHANGED <<requests, context>>
     ELSE /\ requests' = Requested(r, m, c)
          /\ context' = context \cup {c}
  /\ UNCHANGED <<link, wants, crashed, acts, granted, demoted, participants, active, connections,
                 hadAdmin, members, rejected>>

\* A mutant of Refused: one participant too many.
RefusedLate(r, c) ==
  /\ ~Has(participants[r], c)
  /\ \/ Cardinality(DOMAIN participants[r]) > MaxParticipants
     \/ r \notin active /\ Cardinality(active) >= MaxActiveRooms
     \/ c \notin connections /\ Cardinality(connections \ crashed) >= MaxConnections

\* The limits AdmitParticipant checks.
Refused(r, c) ==
  /\ ~Has(participants[r], c)
  /\ \/ Cardinality(DOMAIN participants[r]) >= MaxParticipants
     \/ r \notin active /\ Cardinality(active) >= MaxActiveRooms
     \/ c \notin connections /\ Cardinality(connections \ crashed) >= MaxConnections

\* The role AdmitParticipant gives.
RoleOf(r, c, joining) ==
  LET m == MemberOf[c] IN
  CASE Has(participants[r], c) -> participants[r][c]
    [] m = Creator[r] -> [admin |-> TRUE, locked |-> FALSE]
    [] joining.known -> [admin |-> joining.role.admin, locked |-> joining.role.locked /\ ~joining.role.admin]
    [] HasAdmin(participants[r]) -> Idle.role
    [] OTHER -> [admin |-> /\ r \in hadAdmin /\ ~joining.returning
                           /\ ~(Has(members[r], m) /\ members[r][m].revoked),
                 locked |-> FALSE]

\* JoinAsync: the participants that are gone are removed, then AdmitParticipant.
Look(c) ==
  /\ call[c].at = "admit" /\ Removed(Home[c], Dead(Home[c]))
  /\ call' = [call EXCEPT ![c] = Looked(@, participants[Home[c]] = <<>>, "enter")]
  /\ UNCHANGED <<link, wants, crashed, context, acts, granted, demoted, hadAdmin, members, requests,
                 rejected>>

Admit(c) ==
  LET r == Home[c]  role == RoleOf(r, c, call[c]) IN
  /\ call[c].at = "enter"
  /\ IF Refused(r, c)
     THEN call' = [call EXCEPT ![c] = Idle] /\ UNCHANGED <<participants, active, connections, hadAdmin>>
     ELSE /\ participants' = [participants EXCEPT ![r] = Set(@, c, role)]
          /\ active' = active \cup {r} /\ connections' = connections \cup {c}
          /\ hadAdmin' = IF role.admin \/ HasAdmin(participants[r]) THEN hadAdmin \cup {r} ELSE hadAdmin
          /\ call' = [call EXCEPT ![c].at = "joined"]
  /\ UNCHANGED <<link, wants, crashed, context, acts, granted, demoted, members, requests, rejected>>

\* The hub reads the participants it sends, and itself among them, or fails.
ReadBack(c) ==
  /\ call[c].at = "joined" /\ context' = context \ {c}
  /\ call' = [call EXCEPT ![c] = IF Has(participants[Home[c]], c)
                                 THEN [Idle EXCEPT !.at = "save", !.role = participants[Home[c]][c]] ELSE Idle]
  /\ UNCHANGED <<link, wants, crashed, acts, granted, demoted, stored>>

SaveJoined(c) ==
  /\ call[c].at = "save"
  /\ members' = [members EXCEPT ![Home[c]] = Remembered(Home[c], MemberOf[c], call[c].role)]
  /\ call' = [call EXCEPT ![c].at = "clear"]
  /\ UNCHANGED <<link, wants, crashed, context, acts, granted, demoted, participants, active,
                 connections, hadAdmin, requests, rejected>>

ClearRequest(c) ==
  /\ call[c].at = "clear" /\ call' = [call EXCEPT ![c] = Idle]
  /\ requests' = RequestsWithout(Home[c], c)
  /\ UNCHANGED <<link, wants, crashed, context, acts, granted, demoted, participants, active,
                 connections, hadAdmin, members, rejected>>
-----------------------------------------------------------------------------
(* LeaveRoom, OnDisconnected, CancelJoinRequest, LeaveRoomByTicket *)

\* CancelJoinRequest, with the request identifier of the tab.
CancelJoinRequest(c) ==
  /\ link[c] = "open" /\ call[c].at = "idle" /\ c \in context
  /\ requests' = RequestsWithout(Home[c], c) /\ context' = context \ {c}
  /\ UNCHANGED <<link, wants, call, crashed, acts, granted, demoted, participants, active,
                 connections, hadAdmin, members, rejected>>

BeginLeave(c) ==
  /\ link[c] = "open" /\ call[c].at = "idle" /\ Has(participants[Home[c]], c)
  /\ call' = [call EXCEPT ![c] = [Idle EXCEPT !.at = "saveLeaving", !.role = participants[Home[c]][c]]]
  /\ UNCHANGED <<link, wants, crashed, context, acts, granted, demoted, stored>>

SaveLeaving(c) ==
  /\ call[c].at = "saveLeaving" /\ call' = [call EXCEPT ![c].at = "remove"]
  /\ members' = [members EXCEPT ![Home[c]] = Remembered(Home[c], MemberOf[c], call[c].role)]
  /\ UNCHANGED <<link, wants, crashed, context, acts, granted, demoted, participants, active,
                 connections, hadAdmin, requests, rejected>>

\* OnDisconnected starts when SignalR notices; the calls of a connection run one by one.
Disconnect(c) ==
  /\ link[c] \in {"open", "lost"} /\ call[c].at = "idle"
  /\ link' = [link EXCEPT ![c] = "closing"] /\ wants' = wants \ {c}
  /\ call' = [call EXCEPT ![c] = [Idle EXCEPT !.at = "remove"]]
  /\ UNCHANGED <<crashed, context, acts, granted, demoted, stored>>

\* RemoveParticipant and the read of those who remain.
Remove(c) ==
  LET r == Home[c]  rest == Without(participants[r], Dead(r) \cup {c})
      leaves == Has(participants[r], c) \/ link[c] # "closing" IN
  /\ call[c].at = "remove"
  /\ IF leaves THEN Removed(r, Dead(r) \cup {c})
     ELSE UNCHANGED <<participants, active, connections>>
  /\ call' = [call EXCEPT ![c] = Looked([Idle EXCEPT !.others = IF leaves /\ ~HasAdmin(rest) THEN DOMAIN rest ELSE {}],
                leaves /\ DOMAIN participants[r] \subseteq {c}, "promote")]
  /\ UNCHANGED <<link, wants, crashed, context, acts, granted, demoted, hadAdmin, members,
                 requests, rejected>>

\* Whom PromoteParticipant promotes: only who is remembered as an admin, or not at all.
Promotable(r, d) ==
  /\ ~HasAdmin(participants[r]) /\ Has(participants[r], d)
  /\ Has(members[r], MemberOf[d]) => members[r][MemberOf[d]].admin /\ ~members[r][MemberOf[d]].revoked

\* PromoteRandomParticipantIfNoAdmin tries the participants it has read, one after the other.
Promote(c, d) ==
  LET r == Home[c]  m == MemberOf[d] IN
  /\ call[c].at = "promote" /\ d \in call[c].others
  /\ IF Promotable(r, d)
     THEN /\ participants' = [participants EXCEPT ![r][d] = [admin |-> TRUE, locked |-> FALSE]]
          /\ members' = IF Has(members[r], m) THEN [members EXCEPT ![r][m].locked = FALSE] ELSE members
          /\ call' = [call EXCEPT ![c].others = {}]
     ELSE call' = [call EXCEPT ![c].others = @ \ {d}] /\ UNCHANGED <<participants, members>>
  /\ UNCHANGED <<link, wants, crashed, context, acts, granted, demoted, active, connections,
                 hadAdmin, requests, rejected>>

\* LeaveRoom ends; OnDisconnected unregisters the connection and its pending request.
Finish(c) ==
  /\ call[c].at = "promote" /\ call[c].others = {} /\ call' = [call EXCEPT ![c] = Idle]
  /\ IF link[c] = "closing"
     THEN /\ link' = [link EXCEPT ![c] = "closed"] /\ connections' = connections \ {c}
          /\ requests' = IF c \in context THEN RequestsWithout(Home[c], c) ELSE requests
          /\ context' = context \ {c}
     ELSE UNCHANGED <<link, connections, requests, context>>
  /\ UNCHANGED <<wants, crashed, acts, granted, demoted, participants, active, hadAdmin, members, rejected>>

\* A member gives its membership up from the page of another room, one of Room or
\* not (LeaveRoomByTicket).
LeaveByTicket(m, r) ==
  /\ Has(members[r], m) /\ Quiet(r, m, {})
  /\ members' = [members EXCEPT ![r] = Without(@, {m})]
  /\ acts < MaxActs /\ acts' = acts + 1 /\ demoted' = [demoted EXCEPT ![r] = @ \ {m}]
  /\ UNCHANGED <<link, wants, call, crashed, context, granted, participants, active, connections,
                 hadAdmin, requests, rejected>>
-----------------------------------------------------------------------------
(* What admins do *)

\* EnsureAdmin: the script or the service looks the actor up.
IsAdmin(a) == Has(participants[Home[a]], a) /\ participants[Home[a]][a].admin

\* The tab of an admin offers what can be done to the others.
Acts(a) ==
  /\ a \in Lead /\ link[a] = "open" /\ call[a].at = "idle" /\ acts < MaxActs /\ acts' = acts + 1
  /\ IsAdmin(a)

\* RoomJoinApproved: the tab that asked joins again.
Told(c) == IF link[c] = "open" THEN wants \cup {c} ELSE wants

Approve(a, m) ==
  LET r == Home[a] IN
  /\ Acts(a) /\ Has(requests[r], m) /\ ~requests[r][m].approved
  /\ requests' = [requests EXCEPT ![r][m].approved = TRUE]
  /\ wants' = Told(requests[r][m].conn)
  /\ granted' = [granted EXCEPT ![r] = @ \cup {m}]
  /\ UNCHANGED <<link, call, crashed, context, demoted, participants, active, connections, hadAdmin,
                 members, rejected>>

Reject(a, m) ==
  LET r == Home[a] IN
  /\ Acts(a) /\ Has(requests[r], m) /\ ~requests[r][m].approved
  /\ requests' = [requests EXCEPT ![r] = Without(@, {m})]
  /\ rejected' = [rejected EXCEPT ![r] = @ \cup {m}]
  /\ UNCHANGED <<link, wants, call, crashed, context, granted, demoted, participants, active,
                 connections, hadAdmin, members>>

\* ToggleParticipantLock; the member's record is written afterwards.
ToggleLock(a, t) ==
  LET r == Home[a] IN
  /\ Acts(a) /\ t # a /\ Has(participants[r], t) /\ ~participants[r][t].admin
  /\ participants' = [participants EXCEPT ![r][t].locked = ~@]
  /\ call' = [call EXCEPT ![a] = [Idle EXCEPT !.at = "saveLock", !.others = {t},
                                              !.flag = ~participants[r][t].locked]]
  /\ UNCHANGED <<link, wants, crashed, context, granted, demoted, active, connections, hadAdmin,
                 members, requests, rejected>>

SaveLock(a) ==
  /\ call[a].at = "saveLock" /\ call' = [call EXCEPT ![a] = Idle]
  /\ members' = [members EXCEPT ![Home[a]] =
       [m \in DOMAIN @ |-> IF \E t \in call[a].others : MemberOf[t] = m
                           THEN [@[m] EXCEPT !.locked = call[a].flag] ELSE @[m]]]
  /\ UNCHANGED <<link, wants, crashed, context, acts, granted, demoted, participants, active,
                 connections, hadAdmin, requests, rejected>>

\* A mutant of SetAdmin: a demotion is not remembered.
SetAdminForNow(a, t, isAdmin) ==
  LET r == Home[a]  m == MemberOf[t] IN
  /\ Acts(a) /\ t # a /\ Has(participants[r], t) /\ participants[r][t].admin # isAdmin /\ Quiet(r, m, {t})
  /\ QuietTargets => link[t] = "open"
  /\ participants' = [participants EXCEPT ![r][t] = [admin |-> isAdmin, locked |-> @.locked /\ ~isAdmin]]
  /\ members' = IF Has(members[r], m) /\ isAdmin THEN [members EXCEPT ![r][m].admin = TRUE] ELSE members
  /\ demoted' = [demoted EXCEPT ![r] = IF isAdmin THEN @ \ {m} ELSE @ \cup {m}]
  /\ UNCHANGED <<link, wants, call, crashed, context, granted, active, connections, hadAdmin,
                 requests, rejected>>

SetAdmin(a, t, isAdmin) ==
  LET r == Home[a]  m == MemberOf[t] IN
  /\ Acts(a) /\ t # a /\ Has(participants[r], t) /\ participants[r][t].admin # isAdmin /\ Quiet(r, m, {t})
  /\ QuietTargets => link[t] = "open"
  /\ participants' = [participants EXCEPT ![r][t] = [admin |-> isAdmin, locked |-> @.locked /\ ~isAdmin]]
  /\ members' = IF ~Has(members[r], m) THEN members
                ELSE [members EXCEPT ![r][m] = [members[r][m] EXCEPT
                        !.admin = isAdmin, !.revoked = ~isAdmin, !.locked = @ /\ ~isAdmin]]
  /\ demoted' = [demoted EXCEPT ![r] = IF isAdmin THEN @ \ {m} ELSE @ \cup {m}]
  /\ UNCHANGED <<link, wants, call, crashed, context, granted, active, connections, hadAdmin,
                 requests, rejected>>

\* A mutant of Kick: only the connection goes, the request stays approved.
KickConnection(a, t) ==
  LET r == Home[a]  m == MemberOf[t] IN
  /\ Acts(a) /\ t # a /\ Has(participants[r], t) /\ Quiet(r, m, {t})
  /\ participants' = [participants EXCEPT ![r] = Without(@, {t})]
  /\ granted' = [granted EXCEPT ![r] = @ \ {m}]
  /\ UNCHANGED <<link, wants, call, crashed, context, active, connections, hadAdmin, members,
                 requests, rejected, demoted>>

\* KickParticipant: out, remembered as one that has to ask, and no request or rejection left.
Kick(a, t) ==
  LET r == Home[a]  m == MemberOf[t]  was == participants[r][t] IN
  /\ Acts(a) /\ t # a /\ Has(participants[r], t) /\ Quiet(r, m, {t})
  /\ participants' = [participants EXCEPT ![r] = Without(@, {t})]
  /\ members' = [members EXCEPT ![r] = Set(@, m, [admin |-> FALSE, locked |-> was.locked, ask |-> TRUE,
                   revoked |-> was.admin \/ (Has(members[r], m) /\ members[r][m].revoked)])]
  /\ requests' = [requests EXCEPT ![r] = Without(@, {m})]
  /\ rejected' = [rejected EXCEPT ![r] = @ \ {m}]
  /\ granted' = [granted EXCEPT ![r] = @ \ {m}]
  /\ demoted' = IF was.admin THEN [demoted EXCEPT ![r] = @ \cup {m}] ELSE demoted
  /\ UNCHANGED <<link, wants, call, crashed, context, active, connections, hadAdmin>>
-----------------------------------------------------------------------------
HubStep(c) ==
  \/ BeginJoin(c) \/ ReadRequest(c) \/ AskAdmins(c) \/ Forget(c) \/ Look(c) \/ Admit(c) \/ ReadBack(c)
  \/ SaveJoined(c) \/ ClearRequest(c) \/ SaveLeaving(c) \/ Remove(c)
  \/ (\E d \in Conn : Promote(c, d)) \/ Finish(c) \/ SaveLock(c)

Next ==
  \/ \E c \in Conn : Connect(c) \/ Lose(c) \/ Disconnect(c) \/ HubStep(c)
                     \/ CancelJoinRequest(c) \/ BeginLeave(c)
  \/ Crash \/ LeaseExpires \/ \E r \in Room : Prune(r)
  \/ \E m \in Member, r \in Room : LeaveByTicket(m, r)
  \/ \E a \in Conn, m \in Member : Approve(a, m) \/ Reject(a, m)
  \/ \E a, t \in Conn : ToggleLock(a, t) \/ Kick(a, t) \/ \E b \in BOOLEAN : SetAdmin(a, t, b)

Spec == Init /\ [][Next]_vars

\* Calls end, SignalR notices lost connections, leases expire and the sweep runs.
Fairness ==
  /\ \A c \in Conn : WF_vars(HubStep(c)) /\ WF_vars(link[c] = "lost" /\ Disconnect(c))
  /\ WF_vars(LeaseExpires) /\ \A r \in Room : WF_vars(Prune(r))
FairSpec == Spec /\ Fairness
-----------------------------------------------------------------------------
(* Properties *)

\* The limits of RoomCapacityOptions hold however joins, promotions and crashes
\* interleave: people in a room, connections of the instance that runs. (The
\* limit of active rooms does not: Forget can take an occupied room off the list.)
WithinLimits ==
  /\ \A r \in Room : Cardinality(DOMAIN participants[r]) <= MaxParticipants
  /\ Cardinality(connections \ crashed) <= MaxConnections

\* Who was kicked is back only after an admin approved a new request, or after
\* everybody who could approve it had lost the role: the record of a kicked
\* member outlives its connections, requests and rejections.
KickedMustAsk == \A r \in Room : \A c \in DOMAIN participants[r] : MemberOf[c] \in granted[r]

\* A demoted admin does not find its role again by leaving, losing its
\* connection, being kicked or joining a room without admins. (Where a crash left
\* a participant whose join was not recorded yet, its demotion is not either, and
\* it can be promoted again: hence the last part of QuietTargets.)
DemotedStaysDemoted ==
  \A r \in Room : \A c \in DOMAIN participants[r] :
    participants[r][c].admin => MemberOf[c] \notin demoted[r] \ {Creator[r]}

\* Participants whose connection ended, also with its whole instance, go: there
\* is always a later moment at which no active room has one. (The sweep looks at
\* active rooms only.)
GhostsLeave ==
  []<>(\A c \in Conn : link[c] \in {"lost", "closed"} /\ Home[c] \in active => ~Has(participants[Home[c]], c))
=============================================================================
